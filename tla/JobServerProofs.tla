--------------------------- MODULE JobServerProofs ---------------------------
(***************************************************************************)
(* Proofs about JobServer, for any number of visitors, POSTs and jobs and  *)
(* any caps.                                                               *)
(***************************************************************************)
EXTENDS JobServer, FiniteSetTheorems, SequenceTheorems, TLAPS

----------------------------------------------------------------------------
(* Places in a finite set of numbers.                                      *)

\* A smaller number has a smaller place.
LEMMA PlacesRise ==
  ASSUME NEW S \in SUBSET Nat, IsFiniteSet(S)
  PROVE  /\ \A j \in S : Place(j, S) \in 1 .. Cardinality(S)
         /\ \A i, j \in S : i < j => Place(i, S) < Place(j, S)
<1> DEFINE UpTo(j) == {i \in S : i <= j}
<1>1. \A j \in S : IsFiniteSet(UpTo(j)) /\ Place(j, S) <= Cardinality(S) /\ Place(j, S) \in Nat
  <2> TAKE j \in S
  <2>1. UpTo(j) \in SUBSET S
    OBVIOUS
  <2> QED BY <2>1, FS_Subset, FS_CardinalityType DEF Place
<1>2. \A j \in S : Place(j, S) # 0
  <2> TAKE j \in S
  <2>1. j \in UpTo(j)
    OBVIOUS
  <2> QED BY <1>1, <2>1, FS_EmptySet DEF Place
<1>3. ASSUME NEW i \in S, NEW j \in S, i < j
      PROVE  Place(i, S) < Place(j, S)
  <2>1. UpTo(i) \in SUBSET UpTo(j) /\ UpTo(i) # UpTo(j)
    <3>1. j \in UpTo(j) /\ j \notin UpTo(i)
      BY <1>3
    <3>2. ASSUME NEW k \in S, k <= i PROVE k <= j
      <4>1. k \in Nat /\ i \in Nat /\ j \in Nat
        OBVIOUS
      <4> QED BY <1>3, <3>2, <4>1
    <3>3. UpTo(i) \in SUBSET UpTo(j)
      BY <3>2
    <3> QED BY <3>1, <3>3
  <2>2. Cardinality(UpTo(i)) <= Cardinality(UpTo(j)) /\ Cardinality(UpTo(i)) # Cardinality(UpTo(j))
    BY <1>1, <2>1, FS_Subset
  <2> QED BY <1>1, <2>2 DEF Place
<1>4. Cardinality(S) \in Nat
  BY FS_CardinalityType
<1>5. ASSUME NEW j \in S PROVE Place(j, S) \in 1 .. Cardinality(S)
  <2>1. Place(j, S) <= Cardinality(S) /\ Place(j, S) \in Nat /\ Place(j, S) # 0
    BY <1>1, <1>2
  <2> QED BY <1>4, <2>1
<1> QED BY <1>3, <1>5

\* Each place is taken, by one number.
LEMMA PlacesAreTaken ==
  ASSUME NEW S \in SUBSET Nat, IsFiniteSet(S)
  PROVE  \A k \in 1 .. Cardinality(S) : \E j \in S : Place(j, S) = k
<1> DEFINE n == Cardinality(S)
           f == [j \in S |-> Place(j, S)]
<1>1. n \in Nat
  BY FS_CardinalityType
<1>2. f \in Injection(S, 1 .. n)
  <2>1. f \in [S -> 1 .. n]
    BY PlacesRise
  <2>2. ASSUME NEW i \in S, NEW j \in S, i # j PROVE f[i] # f[j]
    <3>1. i < j \/ j < i
      BY <2>2
    <3>2. f[i] \in Nat /\ f[j] \in Nat
      BY <1>1, <2>1
    <3> QED BY <3>1, <3>2, PlacesRise
  <2> QED BY <2>1, <2>2 DEF Injection, IsInjective
<1>3. IsFiniteSet(1 .. n) /\ Cardinality(1 .. n) = n
  BY <1>1, FS_Interval
<1>4. f \in Surjection(S, 1 .. n)
  BY <1>2, <1>3, FS_Injection
<1> QED BY <1>4 DEF Surjection

\* As many have one of the first m places as there are places.
LEMMA FirstPlaces ==
  ASSUME NEW S \in SUBSET Nat, IsFiniteSet(S), NEW m \in 0 .. Cardinality(S)
  PROVE  Cardinality({j \in S : Place(j, S) <= m}) = m
<1> DEFINE T == {j \in S : Place(j, S) <= m}
           f == [j \in T |-> Place(j, S)]
<1>1. Cardinality(S) \in Nat /\ IsFiniteSet(T)
  BY FS_CardinalityType, FS_Subset
<1>2. f \in [T -> 1 .. m]
  <2>1. ASSUME NEW j \in T PROVE Place(j, S) \in 1 .. m
    <3>1. Place(j, S) \in 1 .. Cardinality(S) /\ Place(j, S) <= m
      BY PlacesRise
    <3> QED BY <1>1, <3>1
  <2> QED BY <2>1
<1>3. ASSUME NEW i \in T, NEW j \in T, i # j PROVE f[i] # f[j]
  <2>1. i \in Nat /\ j \in Nat /\ f[i] \in Nat /\ f[j] \in Nat
    BY <1>2
  <2>2. i < j \/ j < i
    BY <1>3, <2>1
  <2> QED BY <2>1, <2>2, PlacesRise
<1>4. \A k \in 1 .. m : \E j \in T : f[j] = k
  BY <1>1, PlacesAreTaken
<1>5. f \in Bijection(T, 1 .. m)
  BY <1>2, <1>3, <1>4 DEF Bijection, Injection, IsInjective, Surjection
<1>6. Cardinality(1 .. m) = m
  BY FS_Interval
<1> QED BY <1>1, <1>5, <1>6, FS_Bijection DEF ExistsBijection

----------------------------------------------------------------------------
(* Queues.                                                                 *)

Elements(q) == {q[i] : i \in DOMAIN q}

Rising(q) == \A i, k \in DOMAIN q : i < k => q[i] < q[k]

\* A finite set of numbers in order is a queue of them.
LEMMA InOrderIsRising ==
  ASSUME NEW S \in SUBSET Nat, IsFiniteSet(S)
  PROVE  /\ InOrder(S) \in Seq(S) /\ Len(InOrder(S)) = Cardinality(S)
         /\ Elements(InOrder(S)) = S
         /\ Rising(InOrder(S))
<1> DEFINE n == Cardinality(S)
           q == InOrder(S)
<1>1. n \in Nat
  BY FS_CardinalityType
<1>2. q = [k \in 1 .. n |-> CHOOSE j \in S : Place(j, S) = k]
  BY DEF InOrder
<1>3. \A k \in 1 .. n : q[k] \in S /\ Place(q[k], S) = k
  BY <1>2, PlacesAreTaken
<1>4. q \in [1 .. n -> S]
  BY <1>2, <1>3
<1>5. q \in Seq(S) /\ Len(q) = n /\ DOMAIN q = 1 .. n
  BY <1>1, <1>4
<1> HIDE DEF q
<1>6. \A x \in S : x \in Nat
  OBVIOUS
<1>7. ASSUME NEW i \in 1 .. n, NEW k \in 1 .. n, i < k
      PROVE  q[i] < q[k]
  <2>1. q[i] \in S /\ q[k] \in S /\ Place(q[i], S) = i /\ Place(q[k], S) = k
    BY <1>3
  <2>2. q[i] \in Nat /\ q[k] \in Nat /\ i \in Nat /\ k \in Nat
    <3>1. q[i] \in Nat BY <1>6, <2>1
    <3>2. q[k] \in Nat BY <1>6, <2>1
    <3>3. i \in Nat BY <1>1
    <3>4. k \in Nat BY <1>1
    <3> QED BY <3>1, <3>2, <3>3, <3>4
  <2>3. CASE q[k] < q[i]
    <3>1. k < i
      BY <2>1, <2>3, PlacesRise
    <3> QED BY <1>7, <2>2, <3>1
  <2>4. q[i] # q[k]
    BY <1>7, <2>1, <2>2
  <2> QED BY <2>2, <2>3, <2>4
<1>8. ASSUME NEW j \in S PROVE \E k \in 1 .. n : q[k] = j
  <2> DEFINE k == Place(j, S)
  <2>1. k \in 1 .. n
    BY PlacesRise
  <2>2. q[k] \in S /\ Place(q[k], S) = k
    BY <1>3, <2>1
  <2>3. q[k] \in Nat /\ j \in Nat /\ k \in Nat
    <3>1. q[k] \in Nat BY <1>6, <2>2
    <3>2. j \in Nat BY <1>6
    <3>3. k \in Nat BY <1>1, <2>1
    <3> QED BY <3>1, <3>2, <3>3
  <2>4. q[k] = j
    <3>1. CASE q[k] < j
      <4>1. k < k
        BY <2>2, <3>1, PlacesRise
      <4> QED BY <2>3, <4>1
    <3>2. CASE j < q[k]
      <4>1. k < k
        BY <2>2, <3>2, PlacesRise
      <4> QED BY <2>3, <4>1
    <3> QED BY <2>3, <3>1, <3>2
  <2> QED BY <2>1, <2>4
<1>9. Elements(q) = S
  BY <1>3, <1>5, <1>8 DEF Elements
<1>10. Rising(q)
  BY <1>5, <1>7 DEF Rising
<1> QED BY <1>5, <1>9, <1>10 DEF q

\* Younger jobs behind a queue in order make a longer one.
LEMMA JoinedIsRising ==
  ASSUME NEW q \in Seq(Nat), NEW r \in Seq(Nat), Rising(q), Rising(r),
         \A a \in Elements(q), b \in Elements(r) : a < b
  PROVE  /\ q \o r \in Seq(Nat) /\ Len(q \o r) = Len(q) + Len(r)
         /\ Elements(q \o r) = Elements(q) \cup Elements(r)
         /\ Rising(q \o r)
<1> DEFINE n == Len(q)
           m == Len(r)
           s == q \o r
<1>1. n \in Nat /\ m \in Nat /\ DOMAIN q = 1 .. n /\ DOMAIN r = 1 .. m
  BY LenProperties
<1>2. /\ s \in Seq(Nat) /\ Len(s) = n + m
      /\ \A i \in 1 .. n + m : s[i] = IF i <= n THEN q[i] ELSE r[i - n]
  BY ConcatProperties
<1>3. DOMAIN s = 1 .. n + m
  BY <1>2, LenProperties
<1> HIDE DEF n, m, s
<1>4. \A i \in 1 .. n : i \in 1 .. n + m /\ s[i] = q[i]
  BY <1>1, <1>2
<1>5. \A i \in 1 .. m : n + i \in 1 .. n + m /\ s[n + i] = r[i]
  <2> TAKE i \in 1 .. m
  <2>1. n + i \in 1 .. n + m /\ ~ (n + i <= n) /\ (n + i) - n = i
    BY <1>1
  <2> QED BY <1>2, <2>1
<1>6. \A i \in 1 .. n + m : i \in 1 .. n \/ (i - n \in 1 .. m /\ ~ (i <= n) /\ s[i] = r[i - n])
  <2> TAKE i \in 1 .. n + m
  <2>1. i \in 1 .. n \/ (i - n \in 1 .. m /\ ~ (i <= n))
    BY <1>1
  <2> QED BY <1>2, <2>1
<1>7. Elements(s) = Elements(q) \cup Elements(r)
  <2>1. ASSUME NEW e \in Elements(s) PROVE e \in Elements(q) \cup Elements(r)
    <3>1. PICK i \in 1 .. n + m : e = s[i]
      BY <1>3 DEF Elements
    <3> QED BY <1>1, <1>4, <1>6, <3>1 DEF Elements
  <2>2. ASSUME NEW e \in Elements(q) PROVE e \in Elements(s)
    BY <1>1, <1>3, <1>4 DEF Elements
  <2>3. ASSUME NEW e \in Elements(r) PROVE e \in Elements(s)
    BY <1>1, <1>3, <1>5 DEF Elements
  <2> QED BY <2>1, <2>2, <2>3
<1>8. ASSUME NEW i \in 1 .. n + m, NEW k \in 1 .. n + m, i < k PROVE s[i] < s[k]
  <2>1. CASE i \in 1 .. n /\ k \in 1 .. n
    BY <1>1, <1>4, <1>8, <2>1 DEF Rising
  <2>2. CASE i \in 1 .. n /\ k \notin 1 .. n
    <3>1. q[i] \in Elements(q)
      BY <1>1, <2>2 DEF Elements
    <3>2. k - n \in 1 .. m /\ s[k] = r[k - n]
      BY <1>6, <2>2
    <3>3. r[k - n] \in Elements(r)
      BY <1>1, <3>2 DEF Elements
    <3> QED BY <1>4, <2>2, <3>1, <3>2, <3>3
  <2>3. CASE i \notin 1 .. n
    <3>1. i - n \in 1 .. m /\ ~ (i <= n) /\ s[i] = r[i - n]
      BY <1>6, <2>3
    <3>2. k \notin 1 .. n
      BY <1>1, <1>8, <3>1
    <3>3. k - n \in 1 .. m /\ s[k] = r[k - n]
      BY <1>6, <3>2
    <3>4. i - n < k - n
      BY <1>1, <1>8
    <3> QED BY <1>1, <3>1, <3>3, <3>4 DEF Rising
  <2> QED BY <2>1, <2>2, <2>3
<1> QED BY <1>2, <1>3, <1>7, <1>8 DEF Rising, n, m, s

\* What a lane runs and keeps waiting: the one it runs is the oldest.
SoundLane(q, c) ==
  q \in Seq(Nat \ {0}) /\ c \in Nat /\ Rising(q) /\ \A e \in Elements(q) : c < e

\* What is left of queue q, and what runs, once a lane that stands still starts.
Rest(q, c) == IF c = 0 /\ q # << >> THEN Tail(q) ELSE q

Running(q, c) == IF c = 0 /\ q # << >> THEN Head(q) ELSE c

Weight(c) == IF c = 0 THEN 0 ELSE 1

InLane(j, q, c) == j \in Elements(q) \/ (j = c /\ c # 0)

LEMMA StartedLane ==
  ASSUME NEW q, NEW c, SoundLane(q, c)
  PROVE  /\ SoundLane(Rest(q, c), Running(q, c))
         /\ Rest(q, c) # << >> => Running(q, c) # 0
         /\ c # 0 => Rest(q, c) = q /\ Running(q, c) = c
         /\ \A j : InLane(j, Rest(q, c), Running(q, c)) <=> InLane(j, q, c)
         /\ Len(Rest(q, c)) + Weight(Running(q, c)) = Len(q) + Weight(c)
<1>1. CASE ~ (c = 0 /\ q # << >>)
  BY <1>1 DEF Rest, Running
<1>2. CASE c = 0 /\ q # << >>
  <2> DEFINE t == Tail(q)
             h == Head(q)
             n == Len(q)
  <2>1. Rest(q, c) = t /\ Running(q, c) = h
    BY <1>2 DEF Rest, Running
  <2>2. q \in Seq(Nat \ {0}) /\ Rising(q)
    BY DEF SoundLane
  <2>3. n \in Nat \ {0} /\ DOMAIN q = 1 .. n
    BY <1>2, <2>2, LenProperties, EmptySeq
  <2>4. /\ t \in Seq(Nat \ {0}) /\ Len(t) = n - 1
        /\ \A i \in 1 .. n - 1 : t[i] = q[i + 1]
        /\ h \in Nat \ {0}
    BY <1>2, <2>2, HeadTailProperties
  <2>5. DOMAIN t = 1 .. n - 1
    BY <2>4, LenProperties
  <2>6. h = q[1]
    BY <2>2, <2>3
  <2> HIDE DEF t, h, n
  <2>7. Rising(t)
    <3> SUFFICES ASSUME NEW i \in 1 .. n - 1, NEW k \in 1 .. n - 1, i < k PROVE t[i] < t[k]
      BY <2>5 DEF Rising
    <3>1. i + 1 \in 1 .. n /\ k + 1 \in 1 .. n /\ i + 1 < k + 1
      BY <2>3
    <3>2. q[i + 1] < q[k + 1]
      BY <2>2, <2>3, <3>1 DEF Rising
    <3> QED BY <2>4, <3>2
  <2>8. \A e \in Elements(t) : h < e
    <3> SUFFICES ASSUME NEW i \in 1 .. n - 1 PROVE h < t[i]
      BY <2>5 DEF Elements
    <3>1. 1 \in 1 .. n /\ i + 1 \in 1 .. n /\ 1 < i + 1
      BY <2>3
    <3>2. q[1] < q[i + 1]
      BY <2>2, <2>3, <3>1 DEF Rising
    <3> QED BY <2>4, <2>6, <3>2
  <2>9. Elements(q) = Elements(t) \cup {h}
    <3>1. ASSUME NEW i \in 1 .. n PROVE q[i] \in Elements(t) \cup {h}
      <4>1. CASE i = 1
        BY <2>6, <4>1
      <4>2. CASE i # 1
        <5>1. i - 1 \in 1 .. n - 1 /\ (i - 1) + 1 = i
          BY <2>3, <4>2
        <5> QED BY <2>4, <2>5, <5>1 DEF Elements
      <4> QED BY <4>1, <4>2
    <3>2. ASSUME NEW i \in 1 .. n - 1 PROVE t[i] \in Elements(q)
      <4>1. i + 1 \in 1 .. n
        BY <2>3
      <4> QED BY <2>3, <2>4, <4>1 DEF Elements
    <3>3. h \in Elements(q)
      <4>1. 1 \in 1 .. n
        BY <2>3
      <4> QED BY <2>3, <2>6, <4>1 DEF Elements
    <3>4. Elements(q) \subseteq Elements(t) \cup {h}
      BY <2>3, <3>1 DEF Elements
    <3>5. Elements(t) \subseteq Elements(q)
      BY <2>5, <3>2 DEF Elements
    <3> QED BY <3>3, <3>4, <3>5
  <2>10. SoundLane(t, h)
    BY <2>4, <2>7, <2>8 DEF SoundLane
  <2>11. \A j : InLane(j, t, h) <=> InLane(j, q, c)
    BY <1>2, <2>4, <2>9 DEF InLane
  <2>12. Len(t) + Weight(h) = n + Weight(c)
    BY <1>2, <2>3, <2>4 DEF Weight
  <2> QED BY <1>2, <2>1, <2>4, <2>10, <2>11, <2>12 DEF n
<1> QED BY <1>1, <1>2
----------------------------------------------------------------------------
(* The inductive invariant.                                                *)

\* The jobs there have not been yet, and those that a cookie came with.
NumbersAreUsedInOrder ==
  /\ \A j \in Ids : status[j] = "none" <=> accepted < j
  /\ \A j \in carried : j <= accepted
  /\ \A j \in Jobs : owner[j] \in Tokens

\* Who was remembered before whom is an order of the visitors.
VisitorsAreInOrder ==
  \A v \in Tokens : /\ older[v] \subseteq visitors \ {v}
                    /\ \A u \in older[v] : older[u] \subseteq older[v]

IInv == /\ LanesAreSound /\ VisitorsSeeTheirJobs
        /\ NumbersAreUsedInOrder /\ VisitorsAreInOrder

----------------------------------------------------------------------------
(* Visitors.                                                               *)

\* Among any of the visitors one was remembered first: else each would have
\* one before it, and there are only so many.
LEMMA OneIsOldest ==
  ASSUME TypeOK, VisitorsAreInOrder, NEW S \in SUBSET visitors, S # {}
  PROVE  \E v \in S : Oldest(v, S)
<1> DEFINE T == {older[v] : v \in S}
           R == StrictSubsetOrdering(Tokens)
<1>1. /\ visitors \subseteq Tokens /\ older \in [Tokens -> SUBSET Tokens]
      /\ IsFiniteSet(Tokens)
  BY JobsAssumption DEF TypeOK
<1>2. T \subseteq SUBSET Tokens /\ T # {}
  BY <1>1
<1>3. IsWellFoundedOn(R, SUBSET Tokens)
  BY <1>1, FS_StrictSubsetOrderingWellFounded, FS_FiniteSubsetsOfFinite
<1>4. PICK x \in T : \A y \in T : <<y, x>> \notin R
  <2> HIDE DEF T, R
  <2> QED BY <1>2, <1>3, WFMin
<1>5. PICK v \in S : x = older[v]
  OBVIOUS
<1>6. ASSUME NEW u \in S, u \in older[v] PROVE FALSE
  <2>1. u \in Tokens /\ v \in Tokens
    BY <1>1
  <2>2. older[u] \subseteq older[v] /\ u \notin older[u]
    BY <1>6, <2>1 DEF VisitorsAreInOrder
  <2>3. older[u] # older[v]
    BY <1>6, <2>2
  <2>4. older[u] \in SUBSET Tokens /\ older[v] \in SUBSET Tokens
    BY <1>1, <2>1
  <2>5. <<older[u], older[v]>> \in R
    BY <2>2, <2>3, <2>4 DEF StrictSubsetOrdering
  <2> QED BY <1>4, <1>5, <2>5
<1>7. Oldest(v, S)
  BY <1>6 DEF Oldest
<1> QED BY <1>7

\* Every visitor that has jobs has one of its own, so they are no more than the
\* jobs; and these are fewer than the visitors there is room for.
LEMMA SomeAreIdle ==
  ASSUME TypeOK, MemoryIsBounded, NobodySeesAnothersJob,
         MaxVisitors <= Cardinality(visitors)
  PROVE  \E w \in visitors : owned[w] = {}
<1> SUFFICES ASSUME \A w \in visitors : owned[w] # {} PROVE FALSE
  OBVIOUS
<1> DEFINE f == [w \in visitors |-> CHOOSE j \in owned[w] : TRUE]
<1>1. visitors \subseteq Tokens /\ IsFiniteSet(visitors)
  BY JobsAssumption, FS_Subset DEF TypeOK
<1>2. IsFiniteSet(Jobs)
  <2>1. IsFiniteSet(Ids)
    BY JobsAssumption, FS_Interval DEF Ids
  <2> QED BY <2>1, FS_Subset DEF Jobs
<1>3. \A w \in visitors : f[w] \in owned[w]
  OBVIOUS
<1>4. \A w \in visitors : f[w] \in Jobs /\ owner[f[w]] = w
  BY <1>1, <1>3 DEF NobodySeesAnothersJob
<1>5. f \in Injection(visitors, Jobs)
  BY <1>4 DEF Injection, IsInjective
<1>6. Cardinality(visitors) <= Cardinality(Jobs)
  BY <1>2, <1>5, FS_Injection
<1>7. Cardinality(visitors) \in Nat /\ Cardinality(Jobs) \in Nat
  BY <1>1, <1>2, FS_CardinalityType
<1> QED BY <1>6, <1>7, JobsAssumption DEF MemoryIsBounded

\* So whoever is forgotten has no job, and nothing is taken from anybody.
LEMMA NobodyLosesJobs ==
  ASSUME TypeOK, MemoryIsBounded, NobodySeesAnothersJob, NEW v \in Tokens
  PROVE  /\ \A w \in Displaced(v) : w \in visitors /\ owned[w] = {}
         /\ OwnedBy(v) = owned
<1>1. \A w \in Displaced(v) : w \in visitors /\ owned[w] = {}
  <2> SUFFICES ASSUME NEW w \in Displaced(v) PROVE w \in visitors /\ owned[w] = {}
    OBVIOUS
  <2>1. ~ (Cardinality(visitors) < MaxVisitors)
    BY DEF Displaced
  <2>2. IsFiniteSet(visitors)
    BY JobsAssumption, FS_Subset DEF TypeOK
  <2>3. MaxVisitors <= Cardinality(visitors)
    BY <2>1, <2>2, FS_CardinalityType, JobsAssumption
  <2>4. {u \in visitors : owned[u] = {}} # {}
    BY <2>3, SomeAreIdle
  <2> QED BY <2>4 DEF Displaced, Oldest
<1>2. OwnedBy(v) = owned
  BY <1>1 DEF OwnedBy, TypeOK
<1> QED BY <1>1, <1>2

LEMMA RememberKeeps ==
  ASSUME IInv, NEW v \in Tokens, Remember(v)
  PROVE  /\ visitors' \subseteq Tokens /\ older' \in [Tokens -> SUBSET Tokens]
         /\ VisitorsAreInOrder' /\ Cardinality(visitors') <= MaxVisitors
         /\ \A w \in Tokens : w \notin visitors' => owned[w] = {}
<1> DEFINE D == Displaced(v)
<1>1. /\ visitors' = (visitors \cup {v}) \ D
      /\ older' = [w \in Tokens |->
                    IF w \in D THEN {}
                    ELSE (IF w = v /\ v \notin visitors THEN visitors ELSE older[w]) \ D]
  BY DEF Remember, Known
<1>2. /\ TypeOK /\ MemoryIsBounded /\ NobodySeesAnothersJob /\ VisitorsAreInOrder
      /\ visitors \subseteq Tokens /\ older \in [Tokens -> SUBSET Tokens]
  BY DEF IInv, LanesAreSound, VisitorsSeeTheirJobs, TypeOK
<1>3. D \subseteq visitors /\ (v \in visitors => D = {})
  BY <1>2, NobodyLosesJobs DEF Displaced
<1>4. visitors' \subseteq Tokens /\ older' \in [Tokens -> SUBSET Tokens]
  BY <1>1, <1>2
<1>5. VisitorsAreInOrder'
  <2> SUFFICES ASSUME NEW w \in Tokens
               PROVE  /\ older'[w] \subseteq visitors' \ {w}
                      /\ \A u \in older'[w] : older'[u] \subseteq older'[w]
    BY DEF VisitorsAreInOrder
  <2>1. CASE w \in D
    BY <1>1, <2>1
  <2>2. CASE w \notin D /\ w = v /\ v \notin visitors
    <3>1. older'[w] = visitors \ D
      BY <1>1, <2>2
    <3>2. ASSUME NEW u \in visitors \ D PROVE older'[u] \subseteq visitors \ D
      <4>1. u \in Tokens /\ u # v
        BY <1>2, <2>2
      <4>2. older'[u] = older[u] \ D
        BY <1>1, <4>1, <3>2
      <4>3. older[u] \subseteq visitors
        BY <1>2, <4>1 DEF VisitorsAreInOrder
      <4> QED BY <4>2, <4>3
    <3> QED BY <1>1, <2>2, <3>1, <3>2
  <2>3. CASE w \notin D /\ ~ (w = v /\ v \notin visitors)
    <3>1. older'[w] = older[w] \ D
      BY <1>1, <2>3
    <3>2. /\ older[w] \subseteq visitors \ {w}
          /\ \A u \in older[w] : older[u] \subseteq older[w]
      BY <1>2 DEF VisitorsAreInOrder
    <3>3. ASSUME NEW u \in older[w] \ D PROVE older'[u] \subseteq older[w] \ D
      <4>1. u \in Tokens /\ u \in visitors
        BY <1>2, <3>2
      <4>2. older'[u] = older[u] \ D
        BY <1>1, <3>3, <4>1
      <4> QED BY <3>2, <4>2
    <3> QED BY <1>1, <3>1, <3>2, <3>3
  <2> QED BY <2>1, <2>2, <2>3
<1>6. Cardinality(visitors') <= MaxVisitors
  <2>1. /\ IsFiniteSet(visitors) /\ Cardinality(visitors) \in Nat /\ MaxVisitors \in Nat
        /\ Cardinality(visitors) <= MaxVisitors
    BY <1>2, JobsAssumption, FS_Subset, FS_CardinalityType DEF MemoryIsBounded
  <2>2. CASE v \in visitors
    <3>1. visitors' = visitors
      BY <1>1, <1>3, <2>2
    <3> QED BY <2>1, <3>1
  <2>3. CASE v \notin visitors /\ Cardinality(visitors) < MaxVisitors
    <3>1. D = {}
      BY <2>3 DEF Displaced
    <3>2. visitors' = visitors \cup {v}
      BY <1>1, <3>1
    <3>3. Cardinality(visitors \cup {v}) = Cardinality(visitors) + 1
      BY <2>1, <2>3, FS_AddElement
    <3> QED BY <2>1, <2>3, <3>2, <3>3
  <2>4. CASE v \notin visitors /\ ~ (Cardinality(visitors) < MaxVisitors)
    <3> DEFINE idle == {w \in visitors : owned[w] = {}}
               S == IF idle # {} THEN idle ELSE visitors
    <3>1. D = {w \in visitors : Oldest(w, S)}
      BY <2>4 DEF Displaced
    <3>2. MaxVisitors <= Cardinality(visitors)
      BY <2>1, <2>4
    <3>3. idle # {} /\ S \in SUBSET visitors
      BY <1>2, <3>2, SomeAreIdle
    <3>4. PICK w \in S : Oldest(w, S)
      BY <1>2, <3>3, OneIsOldest
    <3>5. w \in D /\ w \in visitors
      BY <3>1, <3>3, <3>4
    <3>6. visitors' \in SUBSET ((visitors \ {w}) \cup {v})
      BY <1>1, <3>5
    <3>7. /\ IsFiniteSet(visitors \ {w}) /\ Cardinality(visitors \ {w}) = Cardinality(visitors) - 1
      BY <2>1, <3>5, FS_RemoveElement
    <3>8. /\ IsFiniteSet((visitors \ {w}) \cup {v})
          /\ Cardinality((visitors \ {w}) \cup {v}) = Cardinality(visitors)
      <4>1. v \notin visitors \ {w}
        BY <2>4
      <4>2. /\ IsFiniteSet((visitors \ {w}) \cup {v})
            /\ Cardinality((visitors \ {w}) \cup {v}) = Cardinality(visitors \ {w}) + 1
        BY <3>7, <4>1, FS_AddElement
      <4> QED BY <2>1, <3>7, <4>2
    <3>9. Cardinality(visitors') <= Cardinality(visitors) /\ Cardinality(visitors') \in Nat
      BY <3>6, <3>8, FS_Subset, FS_CardinalityType
    <3> QED BY <2>1, <3>9
  <2> QED BY <2>2, <2>3, <2>4
<1>7. ASSUME NEW w \in Tokens, w \notin visitors' PROVE owned[w] = {}
  <2>1. w \notin visitors \/ w \in D
    BY <1>1, <1>7
  <2> QED BY <1>2, <2>1, NobodyLosesJobs DEF NobodySeesAnothersJob
<1> QED BY <1>4, <1>5, <1>6, <1>7

----------------------------------------------------------------------------
(* Lanes.                                                                  *)

\* The lanes of a state are sound, and hold no job twice.
LEMMA LanesOfState ==
  ASSUME IInv
  PROVE  /\ \A l \in Lanes : /\ SoundLane(queue[l], current[l]) /\ Waiting(l) = Elements(queue[l])
                             /\ queue[l] \in Seq(Ids)
         /\ \A j \in Ids : status[j] \in InFlight
                           <=> \E l \in Lanes : InLane(j, queue[l], current[l])
         /\ \A j : ~ (/\ InLane(j, queue["claude"], current["claude"])
                     /\ InLane(j, queue["local"], current["local"]))
<1>1. /\ LanesHoldTheirJobs /\ FirstComeFirstServed
      /\ queue \in [Lanes -> Seq(Ids)] /\ current \in [Lanes -> Ids \cup {0}]
  BY DEF IInv, LanesAreSound, TypeOK
<1>2. Ids \subseteq Nat \ {0} /\ Ids \cup {0} \subseteq Nat
  BY DEF Ids
<1>3. \A l \in Lanes : Waiting(l) = Elements(queue[l])
  BY DEF Waiting, Elements
<1>4. ASSUME NEW l \in Lanes
      PROVE  SoundLane(queue[l], current[l])
  <2>1. queue[l] \in Seq(Nat \ {0})
    <3>1. queue[l] \in Seq(Ids)
      BY <1>1
    <3> QED BY <1>2, <3>1, SeqMonotonic
  <2>2. current[l] \in Nat
    BY <1>1, <1>2
  <2>3. Rising(queue[l]) /\ \A e \in Elements(queue[l]) : current[l] < e
    BY <1>1 DEF FirstComeFirstServed, Rising, Elements
  <2> QED BY <2>1, <2>2, <2>3 DEF SoundLane
<1>5. \A l \in Lanes : Elements(queue[l]) \subseteq Ids
  <2> TAKE l \in Lanes
  <2>1. queue[l] \in Seq(Ids)
    BY <1>1
  <2> QED BY <2>1, LenProperties DEF Elements
<1>6. ASSUME NEW j \in Ids
      PROVE  status[j] \in InFlight <=> \E l \in Lanes : InLane(j, queue[l], current[l])
  <2>1. j # 0
    BY <1>2
  <2> QED BY <1>1, <1>3, <2>1 DEF LanesHoldTheirJobs, InFlight, InLane
<1>7. ASSUME NEW j, InLane(j, queue["claude"], current["claude"]),
             InLane(j, queue["local"], current["local"])
      PROVE  FALSE
  <2>1. j \in Ids
    BY <1>1, <1>5, <1>7 DEF InLane, Lanes
  <2> QED BY <1>1, <1>3, <1>7, <2>1 DEF LanesHoldTheirJobs, InLane, Lanes
<1> QED BY <1>1, <1>3, <1>4, <1>6, <1>7

\* How many lanes are at work.
LEMMA LanesAtWork ==
  ASSUME NEW c \in [Lanes -> Nat]
  PROVE  Cardinality({l \in Lanes : c[l] # 0}) = Weight(c["claude"]) + Weight(c["local"])
<1> DEFINE W == {l \in Lanes : c[l] # 0}
<1>1. W = (IF c["claude"] # 0 THEN {"claude"} ELSE {}) \cup (IF c["local"] # 0 THEN {"local"} ELSE {})
  BY DEF Lanes
<1>2. Cardinality({"claude", "local"}) = 2 /\ Cardinality({"claude"}) = 1 /\ Cardinality({"local"}) = 1
  <2>1. /\ IsFiniteSet({"claude"}) /\ Cardinality({"claude"}) = 1 /\ Cardinality({"local"}) = 1
    BY FS_Singleton
  <2>2. Cardinality({"claude"} \cup {"local"}) = Cardinality({"claude"}) + 1
    BY <2>1, FS_AddElement
  <2>3. {"claude"} \cup {"local"} = {"claude", "local"}
    OBVIOUS
  <2> QED BY <2>1, <2>2, <2>3
<1>3. CASE c["claude"] # 0 /\ c["local"] # 0
  <2>1. W = {"claude", "local"}
    BY <1>1, <1>3
  <2> QED BY <1>2, <1>3, <2>1 DEF Weight
<1>4. CASE c["claude"] # 0 /\ c["local"] = 0
  <2>1. W = {"claude"}
    BY <1>1, <1>4
  <2> QED BY <1>2, <1>4, <2>1 DEF Weight
<1>5. CASE c["claude"] = 0 /\ c["local"] # 0
  <2>1. W = {"local"}
    BY <1>1, <1>5
  <2> QED BY <1>2, <1>5, <2>1 DEF Weight
<1>6. CASE c["claude"] = 0 /\ c["local"] = 0
  <2>1. W = {}
    BY <1>1, <1>6
  <2> QED BY <1>6, <2>1, FS_EmptySet DEF Weight
<1> QED BY <1>3, <1>4, <1>5, <1>6

\* A queue has no more elements than places.
LEMMA ElementsOfQueue ==
  ASSUME NEW q \in Seq(Nat)
  PROVE  IsFiniteSet(Elements(q)) /\ Cardinality(Elements(q)) <= Len(q)
<1>1. Len(q) \in Nat /\ DOMAIN q = 1 .. Len(q) /\ q \in [1 .. Len(q) -> Nat]
  BY LenProperties
<1>2. q \in Surjection(1 .. Len(q), Elements(q))
  BY <1>1 DEF Surjection, Elements
<1> DEFINE n == Len(q)
<1>3. IsFiniteSet(1 .. n) /\ Cardinality(1 .. n) = n
  <2>1. n \in Nat
    BY <1>1
  <2> HIDE DEF n
  <2> QED BY <2>1, FS_Interval
<1> QED BY <1>2, <1>3, FS_Surjection

\* As many jobs are under way as wait and run, or fewer.
LEMMA InLanesAreFew ==
  ASSUME NEW q \in [Lanes -> Seq(Nat)], NEW c \in [Lanes -> Nat], NEW S,
         \A j \in S : \E l \in Lanes : InLane(j, q[l], c[l])
  PROVE  /\ IsFiniteSet(S)
         /\ Cardinality(S) <= Len(q["claude"]) + Len(q["local"])
                                + Weight(c["claude"]) + Weight(c["local"])
<1> DEFINE Held(l) == Elements(q[l]) \cup (IF c[l] = 0 THEN {} ELSE {c[l]})
<1>1. ASSUME NEW l \in Lanes
      PROVE  /\ IsFiniteSet(Held(l)) /\ Cardinality(Held(l)) <= Len(q[l]) + Weight(c[l])
             /\ Cardinality(Held(l)) \in Nat /\ Len(q[l]) \in Nat /\ Weight(c[l]) \in Nat
  <2>1. /\ IsFiniteSet(Elements(q[l])) /\ Cardinality(Elements(q[l])) <= Len(q[l])
        /\ Cardinality(Elements(q[l])) \in Nat /\ Len(q[l]) \in Nat
    BY ElementsOfQueue, LenProperties, FS_CardinalityType
  <2>2. CASE c[l] = 0
    <3>1. Held(l) = Elements(q[l])
      BY <2>2
    <3> QED BY <2>1, <2>2, <3>1 DEF Weight
  <2>3. CASE c[l] # 0
    <3>1. Held(l) = Elements(q[l]) \cup {c[l]}
      BY <2>3
    <3>2. /\ IsFiniteSet(Elements(q[l]) \cup {c[l]})
          /\ Cardinality(Elements(q[l]) \cup {c[l]})
               = IF c[l] \in Elements(q[l]) THEN Cardinality(Elements(q[l]))
                                            ELSE Cardinality(Elements(q[l])) + 1
      BY <2>1, FS_AddElement
    <3> QED BY <2>1, <2>3, <3>1, <3>2 DEF Weight
  <2> QED BY <2>2, <2>3
<1>2. S \in SUBSET (Held("claude") \cup Held("local"))
  BY DEF InLane, Lanes
<1>3. "claude" \in Lanes /\ "local" \in Lanes
  BY DEF Lanes
<1> HIDE DEF Held
<1> DEFINE A == Held("claude")
           B == Held("local")
<1>4. /\ IsFiniteSet(A \cup B)
      /\ Cardinality(A \cup B) = Cardinality(A) + Cardinality(B) - Cardinality(A \cap B)
  BY <1>1, <1>3, FS_Union
<1>5. Cardinality(A \cap B) \in Nat
  BY <1>1, <1>3, FS_Intersection, FS_CardinalityType
<1>6. IsFiniteSet(S) /\ Cardinality(S) <= Cardinality(A \cup B) /\ Cardinality(S) \in Nat
  BY <1>2, <1>4, FS_Subset, FS_CardinalityType
<1> QED BY <1>1, <1>3, <1>4, <1>5, <1>6

\* Work that moves from the queues to the lanes stays as much.
LEMMA SameLoad ==
  ASSUME NEW f, NEW g, NEW v, NEW w,
         \A l \in Lanes : f[l] \in Nat /\ g[l] \in Nat /\ v[l] \in Nat /\ w[l] \in Nat
                        /\ f[l] + v[l] = g[l] + w[l]
  PROVE  f["claude"] + f["local"] + (v["claude"] + v["local"])
           = g["claude"] + g["local"] + w["claude"] + w["local"]
BY DEF Lanes

\* Lanes that were sound, each with its own jobs, are so when those that stand
\* still have started, whatever filled them: queues P in front of which c runs.
LEMMA StartedLanes ==
  ASSUME NEW P \in [Lanes -> Seq(Nat)], NEW c \in [Lanes -> Nat],
         \A l \in Lanes : SoundLane(P[l], c[l]),
         \A j : ~ (InLane(j, P["claude"], c["claude"]) /\ InLane(j, P["local"], c["local"])),
         queue' = [l \in Lanes |-> Rest(P[l], c[l])],
         current' = [l \in Lanes |-> Running(P[l], c[l])],
         \A j \in Ids : status'[j] \in InFlight <=> \E l \in Lanes : InLane(j, P[l], c[l]),
         \A j \in Ids : status'[j] = "running" <=> \E l \in Lanes : current'[l] = j
  PROVE  /\ LanesHoldTheirJobs' /\ FirstComeFirstServed'
         /\ NumberInFlight' = Len(P["claude"]) + Len(P["local"])
                                + Weight(c["claude"]) + Weight(c["local"])
<1>1. \A l \in Lanes :
        /\ SoundLane(queue'[l], current'[l])
        /\ queue'[l] # << >> => current'[l] # 0
        /\ \A j : InLane(j, queue'[l], current'[l]) <=> InLane(j, P[l], c[l])
        /\ Len(queue'[l]) + Weight(current'[l]) = Len(P[l]) + Weight(c[l])
  BY StartedLane
<1>2. \A l \in Lanes : Waiting(l)' = Elements(queue'[l])
  BY DEF Waiting, Elements
<1>3. \A l \in Lanes : current'[l] \notin Elements(queue'[l])
  BY <1>1 DEF SoundLane
<1>4. \A j : ~ (InLane(j, queue'["claude"], current'["claude"])
               /\ InLane(j, queue'["local"], current'["local"]))
  BY <1>1 DEF Lanes
<1>5. \A j \in Ids : status'[j] \in InFlight
                     <=> \E l \in Lanes : InLane(j, queue'[l], current'[l])
  BY <1>1
<1>6. ASSUME NEW j \in Ids
      PROVE  status'[j] = "queued" <=> \E l \in Lanes : j \in Elements(queue'[l])
  <2>0. j # 0
    BY DEF Ids
  <2>1. ASSUME status'[j] = "queued" PROVE \E l \in Lanes : j \in Elements(queue'[l])
    <3>1. PICK l \in Lanes : InLane(j, queue'[l], current'[l])
      BY <1>5, <2>1 DEF InFlight
    <3>2. current'[l] # j
      BY <2>1
    <3> QED BY <3>1, <3>2 DEF InLane
  <2>2. ASSUME NEW l \in Lanes, j \in Elements(queue'[l]) PROVE status'[j] = "queued"
    <3>1. InLane(j, queue'[l], current'[l])
      BY <2>2 DEF InLane
    <3>2. ASSUME NEW m \in Lanes, current'[m] = j PROVE FALSE
      <4>1. InLane(j, queue'[m], current'[m])
        BY <2>0, <3>2 DEF InLane
      <4>2. m = l
        BY <1>4, <3>1, <4>1 DEF Lanes
      <4> QED BY <1>3, <2>2, <3>2, <4>2
    <3>3. status'[j] \in InFlight /\ status'[j] # "running"
      BY <1>5, <3>1, <3>2
    <3> QED BY <3>3 DEF InFlight
  <2> QED BY <2>1, <2>2
<1>7. LanesHoldTheirJobs'
  <2>1. Waiting("claude")' \cap Waiting("local")' = {}
    BY <1>2, <1>4 DEF InLane, Lanes
  <2>2. current'["claude"] = current'["local"] => current'["claude"] = 0
    BY <1>4 DEF InLane
  <2> QED BY <1>1, <1>2, <1>6, <2>1, <2>2 DEF LanesHoldTheirJobs
<1>8. FirstComeFirstServed'
  BY <1>1 DEF FirstComeFirstServed, SoundLane, Rising, Elements
<1>9. NumberInFlight' = Len(P["claude"]) + Len(P["local"])
                          + Weight(c["claude"]) + Weight(c["local"])
  <2>1. current' \in [Lanes -> Nat]
    BY <1>1 DEF SoundLane
  <2>2. \A l \in Lanes : Len(queue'[l]) \in Nat /\ Len(P[l]) \in Nat
    BY <1>1, LenProperties DEF SoundLane
  <2>3. Cardinality({l \in Lanes : current'[l] # 0})
          = Weight(current'["claude"]) + Weight(current'["local"])
    BY <2>1, LanesAtWork
  <2>4. \A l \in Lanes : Weight(current'[l]) \in Nat /\ Weight(c[l]) \in Nat
    BY DEF Weight
  <2>5. "claude" \in Lanes /\ "local" \in Lanes
    BY DEF Lanes
  <2>6. NumberInFlight' = Len(queue'["claude"]) + Len(queue'["local"])
                            + (Weight(current'["claude"]) + Weight(current'["local"]))
    BY <2>3 DEF NumberInFlight
  <2> DEFINE f == [l \in Lanes |-> Len(queue'[l])]
             g == [l \in Lanes |-> Len(P[l])]
             v == [l \in Lanes |-> Weight(current'[l])]
             w == [l \in Lanes |-> Weight(c[l])]
  <2>7. \A l \in Lanes : f[l] \in Nat /\ g[l] \in Nat /\ v[l] \in Nat /\ w[l] \in Nat
                        /\ f[l] + v[l] = g[l] + w[l]
    BY <1>1, <2>2, <2>4
  <2>8. f["claude"] + f["local"] + (v["claude"] + v["local"])
          = g["claude"] + g["local"] + w["claude"] + w["local"]
    <3> HIDE DEF f, g, v, w
    <3> QED BY <2>7, SameLoad
  <2>9. /\ f["claude"] = Len(queue'["claude"]) /\ f["local"] = Len(queue'["local"])
        /\ g["claude"] = Len(P["claude"]) /\ g["local"] = Len(P["local"])
        /\ v["claude"] = Weight(current'["claude"]) /\ v["local"] = Weight(current'["local"])
        /\ w["claude"] = Weight(c["claude"]) /\ w["local"] = Weight(c["local"])
    BY <2>5
  <2> HIDE DEF f, g, v, w
  <2> QED BY <2>6, <2>8, <2>9
<1> QED BY <1>7, <1>8, <1>9

LEMMA LoadOfState ==
  ASSUME IInv
  PROVE  /\ queue \in [Lanes -> Seq(Nat)] /\ current \in [Lanes -> Nat]
         /\ NumberInFlight = Len(queue["claude"]) + Len(queue["local"])
                               + (Weight(current["claude"]) + Weight(current["local"]))
         /\ NumberInFlight <= MaxQueued
<1>1. queue \in [Lanes -> Seq(Ids)] /\ current \in [Lanes -> Ids \cup {0}]
  BY DEF IInv, LanesAreSound, TypeOK
<1>2. Ids \subseteq Nat /\ Ids \cup {0} \subseteq Nat
  BY DEF Ids
<1>3. \A l \in Lanes : queue[l] \in Seq(Nat)
  <2> TAKE l \in Lanes
  <2>1. queue[l] \in Seq(Ids)
    BY <1>1
  <2> QED BY <1>2, <2>1, SeqMonotonic
<1>4. queue \in [Lanes -> Seq(Nat)] /\ current \in [Lanes -> Nat]
  BY <1>1, <1>2, <1>3
<1>5. Cardinality({l \in Lanes : current[l] # 0})
        = Weight(current["claude"]) + Weight(current["local"])
  BY <1>4, LanesAtWork
<1> QED BY <1>4, <1>5 DEF NumberInFlight, IInv, LanesAreSound, MemoryIsBounded

\* A lane whose job has ended starts the next.
LEMMA FinishKeepsLanes ==
  ASSUME IInv, NEW l \in Lanes, NEW how \in Finished, Finish(l, how)
  PROVE  /\ LanesHoldTheirJobs' /\ FirstComeFirstServed' /\ NumberInFlight' <= MaxQueued
         /\ Jobs' = Jobs
<1> DEFINE c == [current EXCEPT ![l] = 0]
           ended == current[l]
           next == IF queue[l] = << >> THEN 0 ELSE Head(queue[l])
<1>1. /\ ended # 0 /\ current' = [current EXCEPT ![l] = next]
      /\ queue' = [queue EXCEPT ![l] = IF @ = << >> THEN @ ELSE Tail(@)]
      /\ status' = [j \in Ids |-> IF j = ended THEN how
                                  ELSE IF j = next THEN "running" ELSE status[j]]
  BY DEF Finish
<1>2. /\ \A m \in Lanes : SoundLane(queue[m], current[m]) /\ Waiting(m) = Elements(queue[m])
      /\ \A j \in Ids : status[j] \in InFlight
                        <=> \E m \in Lanes : InLane(j, queue[m], current[m])
      /\ \A j : ~ (/\ InLane(j, queue["claude"], current["claude"])
                  /\ InLane(j, queue["local"], current["local"]))
  BY LanesOfState
<1>3. /\ queue \in [Lanes -> Seq(Nat)] /\ current \in [Lanes -> Nat]
      /\ LanesHoldTheirJobs
  BY LoadOfState DEF IInv, LanesAreSound
<1>4. c \in [Lanes -> Nat] /\ c[l] = 0 /\ \A m \in Lanes : m # l => c[m] = current[m]
  BY <1>3
<1>5. \A m \in Lanes : SoundLane(queue[m], c[m])
  <2> TAKE m \in Lanes
  <2>1. queue[m] \in Seq(Nat \ {0}) /\ Rising(queue[m])
    BY <1>2 DEF SoundLane
  <2>2. \A e \in Elements(queue[m]) : e \in Nat \ {0}
    BY <2>1, LenProperties DEF Elements
  <2>3. \A e \in Elements(queue[m]) : 0 < e
    BY <2>2
  <2> QED BY <1>2, <1>4, <2>1, <2>3 DEF SoundLane
<1>6. \A j : ~ (InLane(j, queue["claude"], c["claude"]) /\ InLane(j, queue["local"], c["local"]))
  BY <1>2, <1>4 DEF InLane, Lanes
<1>7. /\ queue' = [m \in Lanes |-> Rest(queue[m], c[m])]
      /\ current' = [m \in Lanes |-> Running(queue[m], c[m])]
  <2>1. \A m \in Lanes : current[m] = 0 => queue[m] = << >>
    BY <1>3 DEF LanesHoldTheirJobs
  <2>2. \A m \in Lanes : m # l => Rest(queue[m], c[m]) = queue[m] /\ Running(queue[m], c[m]) = current[m]
    BY <1>4, <2>1 DEF Rest, Running
  <2>3. /\ Rest(queue[l], c[l]) = IF queue[l] = << >> THEN queue[l] ELSE Tail(queue[l])
        /\ Running(queue[l], c[l]) = next
    BY <1>4 DEF Rest, Running
  <2>4. \A m \in Lanes : queue'[m] = Rest(queue[m], c[m]) /\ current'[m] = Running(queue[m], c[m])
    BY <1>1, <1>3, <2>2, <2>3
  <2>5. queue' = [m \in Lanes |-> queue'[m]] /\ current' = [m \in Lanes |-> current'[m]]
    BY <1>1, <1>3
  <2> QED BY <2>4, <2>5
<1>8. /\ next # 0 => next \in Elements(queue[l])
      /\ ended < next \/ next = 0
  <2>1. CASE queue[l] # << >>
    <3>1. queue[l] \in Seq(Nat) /\ Len(queue[l]) \in Nat \ {0} /\ DOMAIN queue[l] = 1 .. Len(queue[l])
      BY <1>3, <2>1, EmptySeq, LenProperties
    <3>2. next = queue[l][1] /\ 1 \in DOMAIN queue[l]
      BY <2>1, <3>1
    <3>3. next \in Elements(queue[l])
      BY <3>2 DEF Elements
    <3> QED BY <1>2, <3>3 DEF SoundLane
  <2> QED BY <2>1
<1>9. \A m \in Lanes : ended \notin Elements(queue[m]) /\ (m # l => current[m] # ended)
  <2> TAKE m \in Lanes
  <2>1. InLane(ended, queue[l], current[l])
    BY <1>1 DEF InLane
  <2>2. CASE m # l
    <3>1. ~ InLane(ended, queue[m], current[m])
      BY <1>2, <2>1, <2>2 DEF Lanes
    <3> QED BY <1>1, <3>1 DEF InLane
  <2>3. CASE m = l
    BY <1>2, <1>3, <2>3 DEF SoundLane
  <2> QED BY <2>2, <2>3
<1> HIDE DEF c, ended, next
<1>10. \A j \in Ids : status'[j] \in InFlight <=> \E m \in Lanes : InLane(j, queue[m], c[m])
  <2> TAKE j \in Ids
  <2>0. j # 0
    BY DEF Ids
  <2>1. CASE j = ended
    <3>1. status'[j] \notin InFlight
      BY <1>1, <2>1 DEF Finished, InFlight
    <3>2. \A m \in Lanes : ~ InLane(j, queue[m], c[m])
      BY <1>1, <1>4, <1>9, <2>1 DEF InLane
    <3> QED BY <3>1, <3>2
  <2>2. CASE j # ended /\ j = next
    BY <1>1, <1>8, <2>0, <2>2 DEF InLane, InFlight
  <2>3. CASE j # ended /\ j # next
    <3>1. status'[j] = status[j]
      BY <1>1, <2>3
    <3>2. \A m \in Lanes : InLane(j, queue[m], c[m]) <=> InLane(j, queue[m], current[m])
      BY <1>4, <2>0, <2>3 DEF InLane, ended
    <3> QED BY <1>2, <3>1, <3>2
  <2> QED BY <2>1, <2>2, <2>3
<1>11. \A j \in Ids : status'[j] = "running" <=> \E m \in Lanes : current'[m] = j
  <2> TAKE j \in Ids
  <2>0. j # 0 /\ current'[l] = next /\ \A m \in Lanes : m # l => current'[m] = current[m]
    BY <1>1, <1>3 DEF Ids
  <2>1. CASE j = ended
    <3>1. status'[j] # "running"
      BY <1>1, <2>1 DEF Finished
    <3>2. current'[l] # j
      BY <1>8, <1>9, <2>0, <2>1
    <3> QED BY <1>9, <2>0, <2>1, <3>1, <3>2
  <2>2. CASE j # ended /\ j = next
    BY <1>1, <2>0, <2>2
  <2>3. CASE j # ended /\ j # next
    <3>1. status'[j] = status[j]
      BY <1>1, <2>3
    <3>2. status[j] = "running" <=> \E m \in Lanes : current[m] = j
      BY <1>3 DEF LanesHoldTheirJobs
    <3>3. \A m \in Lanes : current'[m] = j <=> current[m] = j
      BY <2>0, <2>3 DEF ended
    <3> QED BY <3>1, <3>2, <3>3
  <2> QED BY <2>1, <2>2, <2>3
<1>12. /\ LanesHoldTheirJobs' /\ FirstComeFirstServed'
       /\ NumberInFlight' = Len(queue["claude"]) + Len(queue["local"])
                              + Weight(c["claude"]) + Weight(c["local"])
  BY <1>3, <1>4, <1>5, <1>6, <1>7, <1>10, <1>11, StartedLanes
<1>13. NumberInFlight' <= MaxQueued
  <2>1. /\ Len(queue["claude"]) \in Nat /\ Len(queue["local"]) \in Nat
    BY <1>3, LenProperties DEF Lanes
  <2>2. \A m \in Lanes : /\ Weight(c[m]) <= Weight(current[m])
                        /\ Weight(c[m]) \in Nat /\ Weight(current[m]) \in Nat
    BY <1>4 DEF Weight
  <2>3. NumberInFlight' <= NumberInFlight
    BY <1>12, <2>1, <2>2, LoadOfState DEF Lanes
  <2>4. NumberInFlight' \in Nat /\ NumberInFlight \in Nat /\ MaxQueued \in Nat
    BY <1>12, <2>1, <2>2, LoadOfState, JobsAssumption DEF Lanes
  <2>5. NumberInFlight <= MaxQueued
    BY LoadOfState
  <2> QED BY <2>3, <2>4, <2>5
<1>14. Jobs' = Jobs
  <2>1. ASSUME NEW j \in Ids
        PROVE  status'[j] \in InFlight \cup Finished <=> status[j] \in InFlight \cup Finished
    <3>1. CASE j = ended
      <4>1. InLane(j, queue[l], current[l])
        BY <1>1, <3>1 DEF InLane, ended
      <4> QED BY <1>1, <1>2, <3>1, <4>1
    <3>2. CASE j # ended /\ j = next
      <4>1. j # 0
        BY DEF Ids
      <4>2. InLane(j, queue[l], current[l])
        BY <1>8, <3>2, <4>1 DEF InLane
      <4> QED BY <1>1, <1>2, <3>2, <4>2 DEF InFlight
    <3>3. CASE j # ended /\ j # next
      BY <1>1, <3>3
    <3> QED BY <3>1, <3>2, <3>3
  <2> QED BY <2>1 DEF Jobs
<1> QED BY <1>12, <1>13, <1>14

----------------------------------------------------------------------------
(* The jobs of a POST.                                                     *)

\* The numbers of the jobs that offers of a kind become: a lane, or reused.
Made(kind, offers) == {accepted + i : i \in {k \in DOMAIN offers : offers[k] = kind}}

Kinds == Lanes \cup {"reused"}

Numbered(offers) == {accepted + i : i \in 1 .. Len(offers)}

LEMMA OfferKinds ==
  ASSUME NEW offers \in Offers
  PROVE  /\ Len(offers) \in Nat /\ DOMAIN offers = 1 .. Len(offers)
         /\ \A i \in DOMAIN offers : offers[i] \in Kinds
<1>1. PICK m \in 1 .. MaxOffers : offers \in [1 .. m -> Kinds]
  BY DEF Offers, Kinds, Lanes
<1>2. m \in Nat
  BY JobsAssumption
<1>3. offers \in Seq(Kinds)
  BY <1>1, <1>2
<1> QED BY <1>1, <1>3, LenProperties

\* Each offer becomes a job of its own, of its kind, with a new number.
LEMMA MadeOnce ==
  ASSUME TypeOK, NEW offers \in Offers, accepted + Len(offers) <= MaxAccepted
  PROVE  /\ \A j : j \in Numbered(offers) <=> j \in Ids /\ accepted < j /\ j <= accepted + Len(offers)
         /\ Numbered(offers) = UNION {Made(kind, offers) : kind \in Kinds}
         /\ \A a, b \in Kinds : a # b => Made(a, offers) \cap Made(b, offers) = {}
<1>1. /\ accepted \in Nat /\ MaxAccepted \in Nat /\ Len(offers) \in Nat
      /\ DOMAIN offers = 1 .. Len(offers)
      /\ \A i \in DOMAIN offers : offers[i] \in Kinds
  BY JobsAssumption, OfferKinds DEF TypeOK
<1>2. ASSUME NEW j
      PROVE  j \in Numbered(offers) <=> j \in Ids /\ accepted < j /\ j <= accepted + Len(offers)
  <2>1. ASSUME j \in Numbered(offers)
        PROVE  j \in Ids /\ accepted < j /\ j <= accepted + Len(offers)
    <3>1. PICK i \in 1 .. Len(offers) : j = accepted + i
      BY <2>1 DEF Numbered
    <3> QED BY <1>1, <3>1 DEF Ids
  <2>2. ASSUME j \in Ids, accepted < j, j <= accepted + Len(offers)
        PROVE  j \in Numbered(offers)
    <3>1. j - accepted \in 1 .. Len(offers) /\ j = accepted + (j - accepted)
      BY <1>1, <2>2 DEF Ids
    <3> QED BY <3>1 DEF Numbered
  <2> QED BY <2>1, <2>2
<1>3. Numbered(offers) = UNION {Made(kind, offers) : kind \in Kinds}
  BY <1>1 DEF Numbered, Made
<1>4. ASSUME NEW a \in Kinds, NEW b \in Kinds, a # b,
             NEW j \in Made(a, offers) \cap Made(b, offers)
      PROVE  FALSE
  <2>1. PICK i \in 1 .. Len(offers) : offers[i] = a /\ j = accepted + i
    BY <1>1 DEF Made
  <2>2. PICK k \in 1 .. Len(offers) : offers[k] = b /\ j = accepted + k
    BY <1>1 DEF Made
  <2>3. i = k
    BY <1>1, <2>1, <2>2
  <2> QED BY <1>4, <2>1, <2>2, <2>3
<1> QED BY <1>2, <1>3, <1>4

\* The jobs of a kind are as many as its offers.
LEMMA MadeIsAsMany ==
  ASSUME TypeOK, NEW offers \in Offers, NEW kind
  PROVE  /\ IsFiniteSet(Made(kind, offers))
         /\ Cardinality(Made(kind, offers)) = Cardinality({k \in DOMAIN offers : offers[k] = kind})
<1> DEFINE K == {k \in DOMAIN offers : offers[k] = kind}
           f == [k \in K |-> accepted + k]
<1>1. accepted \in Nat /\ DOMAIN offers = 1 .. Len(offers) /\ Len(offers) \in Nat
  BY OfferKinds DEF TypeOK
<1>2. IsFiniteSet(K)
  <2>1. IsFiniteSet(1 .. Len(offers))
    BY <1>1, FS_Interval
  <2> QED BY <1>1, <2>1, FS_Subset
<1>3. f \in Bijection(K, Made(kind, offers))
  <2>1. \A k \in K : f[k] \in Made(kind, offers)
    BY DEF Made
  <2>2. \A i, k \in K : f[i] = f[k] => i = k
    BY <1>1
  <2>3. \A j \in Made(kind, offers) : \E k \in K : f[k] = j
    BY DEF Made
  <2> QED BY <2>1, <2>2, <2>3 DEF Bijection, Injection, Surjection, IsInjective
<1> QED BY <1>2, <1>3, FS_Bijection DEF ExistsBijection

\* What admit counts is what is pushed.
LEMMA PushedAreCounted ==
  ASSUME TypeOK, NEW offers \in Offers
  PROVE  /\ Cardinality({i \in DOMAIN offers : offers[i] # "reused"})
              = Cardinality(Made("claude", offers)) + Cardinality(Made("local", offers))
         /\ Cardinality(Made("claude", offers)) \in Nat
         /\ Cardinality(Made("local", offers)) \in Nat
<1> DEFINE A == {k \in DOMAIN offers : offers[k] = "claude"}
           B == {k \in DOMAIN offers : offers[k] = "local"}
<1>1. /\ DOMAIN offers = 1 .. Len(offers) /\ Len(offers) \in Nat
      /\ \A i \in DOMAIN offers : offers[i] \in Kinds
  BY OfferKinds
<1>2. IsFiniteSet(A) /\ IsFiniteSet(B)
  <2>1. IsFiniteSet(1 .. Len(offers))
    BY <1>1, FS_Interval
  <2> QED BY <1>1, <2>1, FS_Subset
<1>3. {i \in DOMAIN offers : offers[i] # "reused"} = A \cup B
  BY <1>1 DEF Kinds, Lanes
<1>4. A \cap B = {}
  OBVIOUS
<1>5. Cardinality(A \cup B) = Cardinality(A) + Cardinality(B) - Cardinality(A \cap B)
  BY <1>2, FS_Union
<1>6. Cardinality(A \cap B) = 0 /\ Cardinality(A) \in Nat /\ Cardinality(B) \in Nat
  BY <1>2, <1>4, FS_EmptySet, FS_CardinalityType
<1>7. /\ Cardinality(Made("claude", offers)) = Cardinality(A)
      /\ Cardinality(Made("local", offers)) = Cardinality(B)
  BY MadeIsAsMany
<1> HIDE DEF A, B
<1>8. Cardinality(A \cup B) = Cardinality(A) + Cardinality(B)
  BY <1>5, <1>6
<1> QED BY <1>3, <1>6, <1>7, <1>8

\* A lane and the new jobs pushed on it.
LEMMA PushedIsSound ==
  ASSUME IInv, NEW offers \in Offers, accepted + Len(offers) <= MaxAccepted, NEW l \in Lanes
  PROVE  /\ SoundLane(Pushed(l, offers), current[l])
         /\ Pushed(l, offers) \in Seq(Ids)
         /\ Elements(Pushed(l, offers)) = Elements(queue[l]) \cup Made(l, offers)
         /\ Len(Pushed(l, offers)) = Len(queue[l]) + Cardinality(Made(l, offers))
<1> DEFINE M == Made(l, offers)
           q == queue[l]
           r == InOrder(M)
<1>1. TypeOK /\ NumbersAreUsedInOrder /\ accepted \in Nat /\ MaxAccepted \in Nat
  BY JobsAssumption DEF IInv, LanesAreSound, TypeOK
<1>2. M \subseteq Ids /\ \A j \in M : accepted < j
  BY <1>1, MadeOnce DEF Kinds
<1>3. SoundLane(q, current[l]) /\ q \in Seq(Ids)
  BY LanesOfState
<1>4. \A j \in Ids : j \in Elements(q) \/ j = current[l] => j <= accepted
  <2> SUFFICES ASSUME NEW j \in Ids, j \in Elements(q) \/ j = current[l] PROVE j <= accepted
    OBVIOUS
  <2>1. j # 0
    BY DEF Ids
  <2>2. InLane(j, q, current[l])
    BY <2>1 DEF InLane
  <2>3. status[j] # "none"
    BY <2>2, LanesOfState DEF InFlight
  <2> QED BY <1>1, <2>3 DEF NumbersAreUsedInOrder, Ids
<1>5. IsFiniteSet(M) /\ M \in SUBSET Nat
  <2>1. IsFiniteSet(M)
    BY <1>1, MadeIsAsMany
  <2>2. Ids \subseteq Nat
    BY DEF Ids
  <2> HIDE DEF M
  <2> QED BY <1>2, <2>1, <2>2
<1>6. r \in Seq(M) /\ Len(r) = Cardinality(M) /\ Elements(r) = M /\ Rising(r)
  <2> HIDE DEF M
  <2> QED BY <1>5, InOrderIsRising
<1>7. Pushed(l, offers) = q \o r
  BY DEF Pushed, NewJobs, Made
<1>8. Elements(q) \subseteq Ids
  BY <1>3, LenProperties DEF Elements
<1>9. current[l] \in Ids \cup {0}
  BY <1>1 DEF TypeOK
<1> HIDE DEF M, q, r
<1>10. q \in Seq(Nat) /\ r \in Seq(Nat)
  <2>1. Ids \subseteq Nat
    BY DEF Ids
  <2> QED BY <1>3, <1>5, <1>6, <2>1, SeqMonotonic
<1>11. \A a \in Elements(q), b \in Elements(r) : a < b
  <2> TAKE a \in Elements(q), b \in Elements(r)
  <2>1. a \in Ids /\ b \in Ids /\ a <= accepted /\ accepted < b
    BY <1>2, <1>4, <1>6, <1>8
  <2>2. a \in Nat /\ b \in Nat
    BY <2>1 DEF Ids
  <2> QED BY <1>1, <2>1, <2>2
<1>12. /\ Len(q \o r) = Len(q) + Cardinality(M)
       /\ Elements(q \o r) = Elements(q) \cup M
       /\ Rising(q \o r)
  BY <1>3, <1>6, <1>10, <1>11, JoinedIsRising DEF SoundLane
<1>13. q \o r \in Seq(Ids) /\ q \o r \in Seq(Nat \ {0})
  <2>1. Ids \subseteq Nat \ {0}
    BY DEF Ids
  <2>2. r \in Seq(Ids)
    BY <1>2, <1>6, SeqMonotonic
  <2>3. q \o r \in Seq(Ids)
    BY <1>3, <2>2, ConcatProperties
  <2> QED BY <2>1, <2>3, SeqMonotonic
<1>14. \A e \in M : current[l] < e
  <2> TAKE e \in M
  <2>1. accepted < e /\ e \in Nat /\ current[l] \in Nat /\ current[l] <= accepted
    BY <1>1, <1>2, <1>4, <1>5, <1>9 DEF Ids
  <2> QED BY <1>1, <2>1
<1>15. SoundLane(q \o r, current[l])
  BY <1>3, <1>12, <1>13, <1>14 DEF SoundLane
<1> QED BY <1>7, <1>12, <1>13, <1>15 DEF q, M

\* What is left after an eviction is no more than the cap, or is what may not
\* be evicted.
LEMMA EvictionHoldsTheCap ==
  ASSUME NEW jobs \in SUBSET Nat, IsFiniteSet(jobs), NEW finished \in SUBSET jobs
  PROVE  \/ Cardinality(jobs \ Evicted(jobs, finished)) <= MaxJobs
         \/ Evicted(jobs, finished) = finished
<1> DEFINE gone == Evicted(jobs, finished)
           n == Cardinality(jobs)
           f == Cardinality(finished)
<1>1. IsFiniteSet(finished) /\ finished \in SUBSET Nat
  BY FS_Subset
<1>2. n \in Nat /\ f \in Nat /\ MaxJobs \in Nat
  BY <1>1, FS_CardinalityType, JobsAssumption
<1>3. \A j \in finished : Place(j, finished) \in 1 .. f
  BY <1>1, PlacesRise
<1>4. gone \in SUBSET finished /\ gone \in SUBSET jobs
  BY DEF Evicted
<1>5. IsFiniteSet(jobs \ gone) /\ Cardinality(jobs \ gone) = n - Cardinality(gone)
  <2>1. jobs \cap gone = gone
    BY <1>4
  <2> QED BY <2>1, FS_Difference
<1>6. CASE n <= MaxJobs
  <2>1. IsFiniteSet(gone) /\ Cardinality(gone) \in Nat
    BY <1>4, FS_Subset, FS_CardinalityType
  <2> HIDE DEF gone, n
  <2> QED BY <1>2, <1>5, <1>6, <2>1 DEF gone
<1>7. CASE MaxJobs < n /\ n - MaxJobs <= f
  <2> DEFINE m == n - MaxJobs
  <2>1. m \in 0 .. f
    BY <1>2, <1>7
  <2>2. gone = {j \in finished : Place(j, finished) <= m}
    <3>1. \A j \in finished : Place(j, finished) \in Nat
      BY <1>2, <1>3
    <3>2. \A j \in finished : Place(j, finished) + MaxJobs <= n <=> Place(j, finished) <= m
      BY <1>2, <3>1
    <3> QED BY <3>2 DEF Evicted
  <2>3. Cardinality({j \in finished : Place(j, finished) <= m}) = m
    <3> HIDE DEF m
    <3> QED BY <1>1, <2>1, FirstPlaces
  <2>4. Cardinality(gone) = m
    BY <2>2, <2>3
  <2> HIDE DEF gone, n
  <2> QED BY <1>2, <1>5, <2>4 DEF gone
<1>8. CASE f < n - MaxJobs
  <2>1. ASSUME NEW j \in finished PROVE Place(j, finished) + MaxJobs <= n
    <3>1. Place(j, finished) \in Nat /\ Place(j, finished) <= f
      BY <1>2, <1>3
    <3> QED BY <1>2, <1>8, <3>1
  <2> QED BY <2>1 DEF Evicted
<1> QED BY <1>2, <1>6, <1>7, <1>8

Ended == {j \in Jobs : status[j] \in Finished}

Gone(offers) == Evicted(Jobs \cup Numbered(offers), Ended \cup Made("reused", offers))

\* What the handler of a POST does to the jobs, kind by kind.
LEMMA SubmitInShort ==
  ASSUME IInv, NEW p \in Posts, NEW offers \in Offers, Submit(p, offers)
  PROVE  /\ accepted + Len(offers) <= MaxAccepted /\ accepted' = accepted + Len(offers)
         /\ Admitted(offers)
         /\ queue' = [l \in Lanes |-> Rest(Pushed(l, offers), current[l])]
         /\ current' = [l \in Lanes |-> Running(Pushed(l, offers), current[l])]
         /\ Gone(offers) \subseteq Ended \cup Made("reused", offers)
         /\ DOMAIN status' = Ids
         /\ \A j \in Gone(offers) : status'[j] = "gone"
         /\ \A j \in Made("reused", offers) \ Gone(offers) : status'[j] = "done"
         /\ \A l \in Lanes : \A j \in Made(l, offers) :
              status'[j] = IF \E m \in Lanes : current'[m] = j THEN "running" ELSE "queued"
         /\ \A j \in Ids \ Numbered(offers) : j \notin Gone(offers) => status'[j] = status[j]
<1> DEFINE n == Len(offers)
           made == {accepted + i : i \in 1 .. n}
           reused == {accepted + i : i \in {k \in 1 .. n : offers[k] = "reused"}}
           gone == Evicted(Jobs \cup made, {j \in Jobs : status[j] \in Finished} \cup reused)
<1>1. /\ accepted + n <= MaxAccepted /\ accepted' = accepted + n /\ Admitted(offers)
      /\ queue' = [l \in Lanes |-> IF current[l] = 0 /\ Pushed(l, offers) # << >>
                                     THEN Tail(Pushed(l, offers)) ELSE Pushed(l, offers)]
      /\ current' = [l \in Lanes |-> IF current[l] = 0 /\ Pushed(l, offers) # << >>
                                       THEN Head(Pushed(l, offers)) ELSE current[l]]
  BY DEF Submit
<1>2. status' = [j \in Ids |-> CASE j \in gone -> "gone"
                                 [] j \in reused \ gone -> "done"
                                 [] j \in made \ reused ->
                                      IF \E l \in Lanes : current'[l] = j
                                        THEN "running" ELSE "queued"
                                 [] OTHER -> status[j]]
  BY DEF Submit
<1>3. DOMAIN offers = 1 .. n
  BY OfferKinds
<1>4. made = Numbered(offers) /\ reused = Made("reused", offers) /\ gone = Gone(offers)
  BY <1>3 DEF Numbered, Made, Gone, Ended
<1>5. gone \subseteq Ended \cup reused
  BY DEF Evicted, Ended
<1>6. TypeOK /\ NumbersAreUsedInOrder
  BY DEF IInv, LanesAreSound
<1>7. /\ \A j : j \in made <=> j \in Ids /\ accepted < j /\ j <= accepted + n
      /\ made = UNION {Made(kind, offers) : kind \in Kinds}
      /\ \A a, b \in Kinds : a # b => Made(a, offers) \cap Made(b, offers) = {}
  BY <1>1, <1>4, <1>6, MadeOnce
<1>8. Ended \cap made = {} /\ Ended \subseteq Ids
  BY <1>6, <1>7 DEF Ended, Jobs, NumbersAreUsedInOrder, InFlight, Finished
<1>9. "reused" \in Kinds /\ reused \subseteq made
  BY <1>4, <1>7 DEF Kinds
<1> HIDE DEF made, reused, gone
<1>10. \A j \in gone : j \in Ids /\ status'[j] = "gone"
  <2>1. \A j \in gone : j \in Ids
    BY <1>5, <1>7, <1>8, <1>9
  <2>2. \A j \in gone : j \notin made \ reused
    BY <1>5, <1>8
  <2> QED BY <1>2, <2>1, <2>2
<1>11. \A j \in reused \ gone : status'[j] = "done"
  BY <1>2, <1>7, <1>9
<1>12. ASSUME NEW l \in Lanes, NEW j \in Made(l, offers)
       PROVE  status'[j] = IF \E m \in Lanes : current'[m] = j THEN "running" ELSE "queued"
  <2>1. l \in Kinds /\ l # "reused"
    BY DEF Kinds, Lanes
  <2>2. j \in made /\ j \notin reused
    BY <1>4, <1>7, <1>9, <2>1
  <2>3. j \in Ids /\ j \notin gone
    BY <1>5, <1>7, <1>8, <2>2
  <2> QED BY <1>2, <2>2, <2>3
<1>13. \A j \in Ids \ made : j \notin gone => status'[j] = status[j]
  BY <1>2, <1>9
<1> QED BY <1>1, <1>2, <1>4, <1>5, <1>10, <1>11, <1>12, <1>13 DEF Rest, Running

\* A job is under way after the handler if a lane holds it, or it was pushed.
LEMMA SubmitKeepsLanes ==
  ASSUME IInv, NEW p \in Posts, NEW offers \in Offers, Submit(p, offers)
  PROVE  /\ LanesHoldTheirJobs' /\ FirstComeFirstServed' /\ NumberInFlight' <= MaxQueued
         /\ Jobs' = (Jobs \cup Numbered(offers)) \ Gone(offers)
         /\ Cardinality(Jobs') <= MaxJobs \/ Cardinality(Jobs') <= MaxQueued
<1> DEFINE P == [l \in Lanes |-> Pushed(l, offers)]
<1>1. TypeOK /\ NumbersAreUsedInOrder /\ LanesHoldTheirJobs
  BY DEF IInv, LanesAreSound
<1>2. /\ accepted + Len(offers) <= MaxAccepted
      /\ queue' = [l \in Lanes |-> Rest(P[l], current[l])]
      /\ current' = [l \in Lanes |-> Running(P[l], current[l])]
      /\ Gone(offers) \subseteq Ended \cup Made("reused", offers)
      /\ \A j \in Gone(offers) : status'[j] = "gone"
      /\ \A j \in Made("reused", offers) \ Gone(offers) : status'[j] = "done"
      /\ \A l \in Lanes : \A j \in Made(l, offers) :
           status'[j] = IF \E m \in Lanes : current'[m] = j THEN "running" ELSE "queued"
      /\ \A j \in Ids \ Numbered(offers) : j \notin Gone(offers) => status'[j] = status[j]
  BY SubmitInShort
<1>3. \A l \in Lanes : /\ SoundLane(P[l], current[l])
                      /\ Elements(P[l]) = Elements(queue[l]) \cup Made(l, offers)
                      /\ Len(P[l]) = Len(queue[l]) + Cardinality(Made(l, offers))
  BY <1>2, PushedIsSound
<1>4. /\ \A j : j \in Numbered(offers)
                <=> j \in Ids /\ accepted < j /\ j <= accepted + Len(offers)
      /\ Numbered(offers) = UNION {Made(kind, offers) : kind \in Kinds}
      /\ \A a, b \in Kinds : a # b => Made(a, offers) \cap Made(b, offers) = {}
  BY <1>1, <1>2, MadeOnce
<1>5. /\ \A l \in Lanes : SoundLane(queue[l], current[l])
      /\ \A j \in Ids : status[j] \in InFlight
                        <=> \E l \in Lanes : InLane(j, queue[l], current[l])
      /\ \A j : ~ (/\ InLane(j, queue["claude"], current["claude"])
                  /\ InLane(j, queue["local"], current["local"]))
  BY LanesOfState
<1>6. \A l \in Lanes : P[l] \in Seq(Nat)
  <2> TAKE l \in Lanes
  <2>1. P[l] \in Seq(Nat \ {0})
    BY <1>3 DEF SoundLane
  <2> QED BY <2>1, SeqMonotonic
<1>7. P \in [Lanes -> Seq(Nat)] /\ current \in [Lanes -> Nat]
  BY <1>6, LoadOfState
<1> HIDE DEF P
<1>8. \A j : \A l \in Lanes :
        InLane(j, P[l], current[l]) <=> InLane(j, queue[l], current[l]) \/ j \in Made(l, offers)
  BY <1>3 DEF InLane
<1>9. \A l \in Lanes : \A j : InLane(j, queue[l], current[l]) => j \in Ids /\ j \notin Numbered(offers)
  <2> SUFFICES ASSUME NEW l \in Lanes, NEW j, InLane(j, queue[l], current[l])
               PROVE  j \in Ids /\ j \notin Numbered(offers)
    OBVIOUS
  <2>1. queue[l] \in Seq(Ids) /\ current[l] \in Ids \cup {0}
    BY <1>1 DEF TypeOK
  <2>2. j \in Ids
    BY <2>1, LenProperties DEF InLane, Elements
  <2>3. status[j] # "none"
    BY <1>5, <2>2 DEF InFlight
  <2> QED BY <1>1, <1>4, <2>2, <2>3 DEF NumbersAreUsedInOrder
<1>10. /\ "claude" \in Lanes /\ "local" \in Lanes /\ Lanes \subseteq Kinds /\ "reused" \in Kinds
       /\ \A l \in Lanes : l # "reused" /\ Made(l, offers) \subseteq Numbered(offers)
       /\ Made("reused", offers) \subseteq Numbered(offers)
       /\ \A j \in Numbered(offers) : j \in Made("reused", offers) \/ \E l \in Lanes : j \in Made(l, offers)
  <2>1. /\ "claude" \in Lanes /\ "local" \in Lanes /\ Lanes \subseteq Kinds /\ "reused" \in Kinds
        /\ \A l \in Lanes : l # "reused"
    BY DEF Lanes, Kinds
  <2>2. \A kind \in Kinds : kind = "reused" \/ kind \in Lanes
    BY DEF Kinds
  <2> QED BY <1>4, <2>1, <2>2
<1>11. \A j : ~ (InLane(j, P["claude"], current["claude"]) /\ InLane(j, P["local"], current["local"]))
  <2>1. Made("claude", offers) \cap Made("local", offers) = {}
    BY <1>4, <1>10
  <2> QED BY <1>5, <1>8, <1>9, <1>10, <2>1
<1>12. Ended \cap Numbered(offers) = {} /\ Ended \subseteq Ids
  BY <1>1, <1>4 DEF Ended, Jobs, NumbersAreUsedInOrder, InFlight, Finished
<1>13. \A j \in Ids : status'[j] \in InFlight <=> \E l \in Lanes : InLane(j, P[l], current[l])
  <2> TAKE j \in Ids
  <2>1. CASE j \in Gone(offers) \cup Made("reused", offers)
    <3>1. status'[j] \notin InFlight
      BY <1>2, <2>1 DEF InFlight
    <3>2. \A l \in Lanes : j \notin Made(l, offers)
      BY <1>2, <1>4, <1>10, <1>12, <2>1
    <3>3. \A l \in Lanes : ~ InLane(j, queue[l], current[l])
      <4>1. CASE j \in Ended
        BY <1>5, <4>1 DEF Ended, InFlight, Finished
      <4>2. CASE j \in Made("reused", offers)
        BY <1>9, <1>10, <4>2
      <4> QED BY <1>2, <2>1, <4>1, <4>2
    <3> QED BY <1>8, <3>1, <3>2, <3>3
  <2>2. CASE \E l \in Lanes : j \in Made(l, offers)
    BY <1>2, <1>8, <2>2 DEF InFlight
  <2>3. CASE j \notin Gone(offers) /\ j \notin Numbered(offers)
    <3>1. status'[j] = status[j]
      BY <1>2, <2>3
    <3> QED BY <1>5, <1>8, <1>10, <2>3, <3>1
  <2> QED BY <1>10, <2>1, <2>2, <2>3
<1>14. \A j \in Ids : status'[j] = "running" <=> \E l \in Lanes : current'[l] = j
  <2> TAKE j \in Ids
  <2>0. j # 0
    BY DEF Ids
  <2>1. \A l \in Lanes : InLane(j, P[l], current[l]) <=> InLane(j, Rest(P[l], current[l]), current'[l])
    BY <1>2, <1>3, StartedLane
  <2>2. \A l \in Lanes : current'[l] = j => InLane(j, P[l], current[l])
    BY <2>0, <2>1 DEF InLane
  <2>3. CASE j \in Gone(offers) \cup Made("reused", offers)
    <3>1. status'[j] \notin InFlight /\ status'[j] # "running"
      BY <1>2, <2>3 DEF InFlight
    <3> QED BY <1>13, <2>2, <3>1
  <2>4. CASE \E l \in Lanes : j \in Made(l, offers)
    BY <1>2, <2>4
  <2>5. CASE j \notin Gone(offers) /\ j \notin Numbered(offers)
    <3>1. status'[j] = status[j] /\ (status[j] = "running" <=> \E l \in Lanes : current[l] = j)
      BY <1>1, <1>2, <2>5 DEF LanesHoldTheirJobs
    <3>2. ASSUME NEW l \in Lanes, current[l] = j PROVE current'[l] = j
      BY <1>2, <1>3, <2>0, <3>2, StartedLane
    <3>3. ASSUME NEW l \in Lanes, current'[l] = j PROVE current[l] = j
      <4>1. InLane(j, queue[l], current[l])
        BY <1>8, <1>10, <2>2, <2>5, <3>3
      <4>2. CASE j \in Elements(queue[l])
        <5>1. queue[l] # << >>
          BY <4>2 DEF Elements
        <5>2. current[l] # 0
          BY <1>1, <5>1 DEF LanesHoldTheirJobs
        <5> QED BY <1>2, <1>3, <3>3, <5>2, StartedLane
      <4> QED BY <4>1, <4>2 DEF InLane
    <3> QED BY <3>1, <3>2, <3>3
  <2> QED BY <1>10, <2>3, <2>4, <2>5
<1>15. /\ LanesHoldTheirJobs' /\ FirstComeFirstServed'
       /\ NumberInFlight' = Len(P["claude"]) + Len(P["local"])
                              + Weight(current["claude"]) + Weight(current["local"])
  <2>1. /\ queue' = [l \in Lanes |-> Rest(P[l], current[l])]
        /\ current' = [l \in Lanes |-> Running(P[l], current[l])]
        /\ \A l \in Lanes : SoundLane(P[l], current[l])
    BY <1>2, <1>3
  <2> QED BY <1>7, <1>11, <1>13, <1>14, <2>1, StartedLanes
<1>16. NumberInFlight' <= MaxQueued
  <2> DEFINE a == Cardinality(Made("claude", offers))
             b == Cardinality(Made("local", offers))
             x == Len(queue["claude"])
             y == Len(queue["local"])
             w == Weight(current["claude"])
             z == Weight(current["local"])
  <2>1. /\ x \in Nat /\ y \in Nat /\ w \in Nat /\ z \in Nat /\ MaxQueued \in Nat
    BY <1>10, LoadOfState, LenProperties, JobsAssumption DEF Weight
  <2>2. a \in Nat /\ b \in Nat
    BY <1>1, PushedAreCounted
  <2>3. NumberInFlight + (a + b) <= MaxQueued
    <3>1. Admitted(offers)
      BY SubmitInShort
    <3>2. Cardinality({i \in DOMAIN offers : offers[i] # "reused"}) = a + b
      BY <1>1, PushedAreCounted
    <3> QED BY <3>1, <3>2 DEF Admitted
  <2>4. NumberInFlight = x + y + (w + z)
    BY LoadOfState
  <2>5. NumberInFlight' = (x + a) + (y + b) + w + z
    BY <1>3, <1>10, <1>15
  <2> HIDE DEF a, b, x, y, w, z
  <2>6. (x + a) + (y + b) + w + z = (x + y + (w + z)) + (a + b)
    BY <2>1, <2>2
  <2> QED BY <2>3, <2>4, <2>5, <2>6
<1>17. Jobs' = (Jobs \cup Numbered(offers)) \ Gone(offers)
  <2>1. ASSUME NEW j \in Ids
        PROVE  status'[j] \in InFlight \cup Finished
                 <=> (j \in Jobs \/ j \in Numbered(offers)) /\ j \notin Gone(offers)
    <3>1. CASE j \in Gone(offers)
      BY <1>2, <3>1 DEF InFlight, Finished
    <3>2. CASE j \in Numbered(offers) \ Gone(offers)
      BY <1>2, <1>10, <3>2 DEF InFlight, Finished
    <3>3. CASE j \notin Gone(offers) /\ j \notin Numbered(offers)
      BY <1>2, <3>3 DEF Jobs
    <3> QED BY <3>1, <3>2, <3>3
  <2>2. Jobs \subseteq Ids /\ Numbered(offers) \subseteq Ids
    BY <1>4 DEF Jobs
  <2> QED BY <2>1, <2>2 DEF Jobs
<1>18. Cardinality(Jobs') <= MaxJobs \/ Cardinality(Jobs') <= MaxQueued
  <2> DEFINE all == Jobs \cup Numbered(offers)
             old == Ended \cup Made("reused", offers)
  <2>1. all \in SUBSET Nat /\ IsFiniteSet(all) /\ old \in SUBSET all
    <3>1. IsFiniteSet(Ids) /\ Ids \subseteq Nat
      BY JobsAssumption, FS_Interval DEF Ids
    <3>2. all \in SUBSET Ids
      BY <1>4 DEF Jobs
    <3> QED BY <1>10, <3>1, <3>2, FS_Subset DEF Ended
  <2>2. Gone(offers) = Evicted(all, old)
    BY DEF Gone
  <2>3. \/ Cardinality(all \ Evicted(all, old)) <= MaxJobs
        \/ Evicted(all, old) = old
    <3> HIDE DEF all, old
    <3> QED BY <2>1, EvictionHoldsTheCap
  <2>4. CASE Evicted(all, old) = old
    <3>1. ASSUME NEW j \in all \ old PROVE \E l \in Lanes : InLane(j, P[l], current[l])
      <4>1. CASE j \in Numbered(offers)
        BY <1>8, <1>10, <3>1, <4>1
      <4>2. CASE j \in Jobs
        <5>1. j \in Ids /\ status[j] \in InFlight
          BY <3>1, <4>2 DEF Jobs, Ended
        <5> QED BY <1>5, <1>8, <5>1
      <4> QED BY <4>1, <4>2
    <3>2. Cardinality(all \ old) <= NumberInFlight'
      <4> HIDE DEF all, old
      <4> QED BY <1>7, <1>15, <3>1, InLanesAreFew
    <3>3. IsFiniteSet(all \ old) /\ Cardinality(all \ old) \in Nat
      <4> HIDE DEF all, old
      <4> QED BY <2>1, FS_Difference, FS_CardinalityType
    <3>4. NumberInFlight' \in Nat
      <4>1. \A l \in Lanes : Len(P[l]) \in Nat /\ Weight(current[l]) \in Nat
        BY <1>6, LenProperties DEF Weight
      <4> DEFINE a == Len(P["claude"])
                 b == Len(P["local"])
                 w == Weight(current["claude"])
                 z == Weight(current["local"])
      <4>2. a \in Nat /\ b \in Nat /\ w \in Nat /\ z \in Nat
        BY <1>10, <4>1
      <4>3. NumberInFlight' = a + b + w + z
        BY <1>15
      <4> HIDE DEF a, b, w, z
      <4> QED BY <4>2, <4>3
    <3>5. Cardinality(all \ old) <= MaxQueued
      <4> HIDE DEF all, old
      <4> QED BY <1>16, <3>2, <3>3, <3>4, JobsAssumption
    <3> QED BY <1>17, <2>2, <2>4, <3>5
  <2> QED BY <1>17, <2>2, <2>3, <2>4
<1> QED BY <1>15, <1>16, <1>17, <1>18

\* The new jobs go to who posted them, who is there if the cookie came along.
LEMMA SubmitKeepsVisitors ==
  ASSUME IInv, NEW p \in Posts, NEW offers \in Offers, Submit(p, offers)
  PROVE  /\ visitors' \subseteq Tokens /\ older' \in [Tokens -> SUBSET Tokens]
         /\ owned' \in [Tokens -> SUBSET Ids]
         /\ VisitorsAreInOrder' /\ Cardinality(visitors') <= MaxVisitors
         /\ VisitorsSeeTheirJobs' /\ NumbersAreUsedInOrder'
<1> DEFINE v == post[p].visitor
           own == post[p].own
           made == Numbered(offers)
           gone == Gone(offers)
<1>1. /\ TypeOK /\ MemoryIsBounded /\ NobodySeesAnothersJob /\ CookiesKeepJobs
      /\ NumbersAreUsedInOrder /\ VisitorsAreInOrder
  BY DEF IInv, LanesAreSound, VisitorsSeeTheirJobs
<1>2. v \in Tokens
  <2>1. post[p] # NoPost /\ post[p] \in [visitor : Tokens, own : BOOLEAN] \cup {NoPost}
    BY <1>1 DEF Submit, TypeOK
  <2> QED BY <2>1
<1>3. /\ accepted + Len(offers) <= MaxAccepted /\ accepted' = accepted + Len(offers)
      /\ gone \subseteq Ended \cup Made("reused", offers)
      /\ \A j \in gone : status'[j] = "gone"
      /\ \A j \in Made("reused", offers) \ gone : status'[j] = "done"
      /\ \A l \in Lanes : \A j \in Made(l, offers) :
           status'[j] = IF \E m \in Lanes : current'[m] = j THEN "running" ELSE "queued"
      /\ \A j \in Ids \ made : j \notin gone => status'[j] = status[j]
      /\ Jobs' = (Jobs \cup made) \ gone
  BY SubmitInShort, SubmitKeepsLanes
<1>4. /\ accepted \in Nat /\ Len(offers) \in Nat
      /\ \A j : j \in made <=> j \in Ids /\ accepted < j /\ j <= accepted + Len(offers)
      /\ made = UNION {Made(kind, offers) : kind \in Kinds}
  BY <1>1, <1>3, MadeOnce, OfferKinds DEF TypeOK
<1>5. /\ IF own THEN Remember(v) ELSE UNCHANGED <<visitors, older>>
      /\ owner' = [j \in Ids |-> IF j \in made THEN v ELSE owner[j]]
      /\ carried' = IF own THEN carried \cup made ELSE carried
      /\ owned' = [w \in Tokens |-> Given(p, w, made) \ gone]
  <2>1. made = {accepted + i : i \in 1 .. Len(offers)}
    BY DEF Numbered
  <2>2. {accepted + i : i \in {k \in 1 .. Len(offers) : offers[k] = "reused"}} = Made("reused", offers)
    BY OfferKinds DEF Made
  <2> QED BY <2>1, <2>2 DEF Submit, Gone, Ended
<1>6. OwnedBy(v) = owned
  BY <1>1, <1>2, NobodyLosesJobs
<1>7. /\ visitors' \subseteq Tokens /\ older' \in [Tokens -> SUBSET Tokens]
      /\ VisitorsAreInOrder' /\ Cardinality(visitors') <= MaxVisitors
      /\ \A w \in Tokens : w \notin visitors' => owned[w] = {}
  <2>1. CASE own
    BY <1>2, <1>5, <2>1, RememberKeeps
  <2>2. CASE ~own
    BY <1>1, <1>5, <2>2 DEF TypeOK, VisitorsAreInOrder, MemoryIsBounded, NobodySeesAnothersJob
  <2> QED BY <2>1, <2>2
<1>8. Present(p) = visitors' /\ (own => v \in visitors')
  <2>1. CASE own
    <3>1. Present(p) = Known(v) /\ visitors' = Known(v)
      BY <1>5, <2>1 DEF Present, Remember
    <3>2. v \notin Displaced(v)
      BY DEF Displaced
    <3> QED BY <3>1, <3>2 DEF Known
  <2>2. CASE ~own
    BY <1>5, <2>2 DEF Present
  <2> QED BY <2>1, <2>2
<1>9. \A w \in Tokens :
        owned'[w] = (owned[w] \cup (IF w = v /\ w \in visitors' THEN made ELSE {})) \ gone
  BY <1>5, <1>6, <1>8 DEF Given
<1>10. \A j \in made : j \in Ids /\ j \notin Jobs /\ j \notin carried
  <2> TAKE j \in made
  <2>1. j \in Ids /\ accepted < j
    BY <1>4
  <2>2. status[j] = "none"
    BY <1>1, <2>1 DEF NumbersAreUsedInOrder
  <2>3. j \notin Jobs
    BY <2>2 DEF Jobs, InFlight, Finished
  <2>4. j \notin carried
    BY <1>1, <1>4, <2>1 DEF NumbersAreUsedInOrder, Ids
  <2> QED BY <2>1, <2>3, <2>4
<1>11. Jobs \subseteq Ids
  BY DEF Jobs
<1> HIDE DEF v, own, made, gone
<1>12. NobodySeesAnothersJob'
  <2>1. ASSUME NEW w \in Tokens, NEW j \in owned'[w] PROVE owner'[j] = w /\ j \in Jobs'
    <3>1. j \notin gone /\ (j \in owned[w] \/ (w = v /\ j \in made))
      BY <1>9, <2>1
    <3>2. CASE j \in made /\ w = v
      BY <1>3, <1>5, <1>10, <3>1, <3>2
    <3>3. CASE j \in owned[w]
      <4>1. owner[j] = w /\ j \in Jobs
        BY <1>1, <3>3 DEF NobodySeesAnothersJob
      <4>2. j \notin made /\ j \in Ids
        BY <1>10, <1>11, <4>1
      <4> QED BY <1>3, <1>5, <3>1, <4>1, <4>2
    <3> QED BY <3>1, <3>2, <3>3
  <2>2. ASSUME NEW w \in Tokens, w \notin visitors' PROVE owned'[w] = {}
    BY <1>7, <1>9, <2>2
  <2> QED BY <2>1, <2>2 DEF NobodySeesAnothersJob
<1>13. CookiesKeepJobs'
  <2> SUFFICES ASSUME NEW j \in Jobs' \cap carried' PROVE j \in owned'[owner'[j]]
    BY DEF CookiesKeepJobs
  <2>1. j \notin gone
    BY <1>3
  <2>2. CASE j \in made
    <3>1. own
      BY <1>5, <1>10, <2>2
    <3>2. owner'[j] = v
      BY <1>5, <1>10, <2>2
    <3> QED BY <1>2, <1>8, <1>9, <2>1, <2>2, <3>1, <3>2 DEF v
  <2>3. CASE j \notin made
    <3>1. j \in Jobs /\ j \in carried /\ j \in Ids
      BY <1>3, <1>5, <1>11, <2>3
    <3>2. owner'[j] = owner[j]
      BY <1>5, <2>3, <3>1
    <3>3. owner[j] \in Tokens /\ j \in owned[owner[j]]
      BY <1>1, <3>1 DEF NumbersAreUsedInOrder, CookiesKeepJobs
    <3> QED BY <1>9, <2>1, <3>2, <3>3
  <2> QED BY <2>2, <2>3
<1>14. NumbersAreUsedInOrder'
  <2>1. ASSUME NEW j \in Ids PROVE status'[j] = "none" <=> accepted' < j
    <3>0. j \in Nat
      BY DEF Ids
    <3>1. CASE j \in made
      <4>1. ~ (accepted' < j)
        BY <1>3, <1>4, <3>0, <3>1
      <4>2. j \in gone \/ j \in Made("reused", offers) \/ \E l \in Lanes : j \in Made(l, offers)
        BY <1>4, <3>1 DEF Kinds
      <4> QED BY <1>3, <4>1, <4>2
    <3>2. CASE j \in gone /\ j \notin made
      <4>1. j \in Ended
        <5>1. "reused" \in Kinds
          BY DEF Kinds
        <5> QED BY <1>3, <1>4, <3>2, <5>1
      <4>2. ~ (accepted < j)
        BY <1>1, <4>1 DEF Ended, Finished, NumbersAreUsedInOrder
      <4> QED BY <1>3, <1>4, <3>0, <3>2, <4>2
    <3>3. CASE j \notin gone /\ j \notin made
      <4>1. status'[j] = status[j]
        BY <1>3, <3>3
      <4>2. accepted < j <=> accepted' < j
        BY <1>3, <1>4, <3>0, <3>3
      <4> QED BY <1>1, <4>1, <4>2 DEF NumbersAreUsedInOrder
    <3> QED BY <3>1, <3>2, <3>3
  <2>2. ASSUME NEW j \in carried' PROVE j <= accepted'
    <3>1. CASE j \in made
      BY <1>3, <1>4, <3>1
    <3>2. CASE j \in carried
      <4>1. j \in Nat /\ j <= accepted
        BY <1>1, <3>2 DEF TypeOK, Ids, NumbersAreUsedInOrder
      <4> QED BY <1>3, <1>4, <4>1
    <3> QED BY <1>5, <2>2, <3>1, <3>2
  <2>3. ASSUME NEW j \in Jobs' PROVE owner'[j] \in Tokens
    <3>1. j \in made \/ (j \in Jobs /\ j \in Ids)
      BY <1>3, <1>11
    <3> QED BY <1>1, <1>2, <1>5, <1>10, <3>1 DEF v, NumbersAreUsedInOrder
  <2> QED BY <2>1, <2>2, <2>3 DEF NumbersAreUsedInOrder
<1>15. owned' \in [Tokens -> SUBSET Ids]
  <2>1. \A w \in Tokens : owned'[w] \subseteq Ids
    BY <1>1, <1>9, <1>10 DEF TypeOK
  <2> QED BY <1>5, <2>1
<1> QED BY <1>7, <1>12, <1>13, <1>14, <1>15 DEF VisitorsSeeTheirJobs

----------------------------------------------------------------------------
(* Each step.                                                              *)

\* What the handler of a POST may do to a job: a new one is under way or done,
\* and of the others only finished ones go.
LEMMA SubmitMovesForward ==
  ASSUME IInv, NEW p \in Posts, NEW offers \in Offers, Submit(p, offers), NEW j \in Ids
  PROVE  IF accepted < j /\ j <= accepted'
           THEN status'[j] \in {"queued", "running", "done", "gone"}
           ELSE \/ status'[j] = status[j]
                \/ j <= accepted /\ status[j] \in Finished /\ status'[j] = "gone"
<1>1. TypeOK /\ NumbersAreUsedInOrder
  BY DEF IInv, LanesAreSound
<1>2. /\ accepted + Len(offers) <= MaxAccepted /\ accepted' = accepted + Len(offers)
      /\ Gone(offers) \subseteq Ended \cup Made("reused", offers)
      /\ \A i \in Gone(offers) : status'[i] = "gone"
      /\ \A i \in Made("reused", offers) \ Gone(offers) : status'[i] = "done"
      /\ \A l \in Lanes : \A i \in Made(l, offers) :
           status'[i] = IF \E m \in Lanes : current'[m] = i THEN "running" ELSE "queued"
      /\ \A i \in Ids \ Numbered(offers) : i \notin Gone(offers) => status'[i] = status[i]
  BY SubmitInShort
<1>3. /\ j \in Numbered(offers) <=> accepted < j /\ j <= accepted'
      /\ Numbered(offers) = UNION {Made(kind, offers) : kind \in Kinds}
  BY <1>1, <1>2, MadeOnce
<1>4. CASE j \in Numbered(offers)
  <2>1. PICK kind \in Kinds : j \in Made(kind, offers)
    BY <1>3, <1>4
  <2>2. CASE kind = "reused"
    BY <1>2, <1>3, <1>4, <2>1, <2>2
  <2>3. CASE kind \in Lanes
    <3>1. status'[j] = IF \E m \in Lanes : current'[m] = j THEN "running" ELSE "queued"
      BY <1>2, <2>1, <2>3
    <3> QED BY <1>3, <1>4, <3>1
  <2> QED BY <2>2, <2>3 DEF Kinds
<1>5. CASE j \notin Numbered(offers)
  <2>1. CASE j \notin Gone(offers)
    BY <1>2, <1>3, <1>5, <2>1
  <2>2. CASE j \in Gone(offers)
    <3>1. j \notin Made("reused", offers)
      BY <1>3, <1>5 DEF Kinds
    <3>2. j \in Ended
      BY <1>2, <2>2, <3>1
    <3>3. status[j] \in Finished /\ status[j] # "none"
      BY <3>2 DEF Ended, Finished
    <3>4. j \in Nat /\ accepted \in Nat /\ ~ (accepted < j)
      BY <1>1, <3>3 DEF NumbersAreUsedInOrder, TypeOK, Ids
    <3> QED BY <1>2, <1>3, <1>5, <2>2, <3>3, <3>4
  <2> QED BY <2>1, <2>2
<1> QED BY <1>4, <1>5

\* The state after the handler is one of the program's.
LEMMA SubmitKeepsTypes ==
  ASSUME IInv, NEW p \in Posts, NEW offers \in Offers, Submit(p, offers)
  PROVE  TypeOK'
<1>1. TypeOK
  BY DEF IInv, LanesAreSound
<1>2. /\ accepted + Len(offers) <= MaxAccepted /\ accepted' = accepted + Len(offers)
      /\ queue' = [l \in Lanes |-> Rest(Pushed(l, offers), current[l])]
      /\ current' = [l \in Lanes |-> Running(Pushed(l, offers), current[l])]
  BY SubmitInShort
<1>3. accepted' \in 0 .. MaxAccepted
  <2>1. accepted \in Nat /\ Len(offers) \in Nat /\ MaxAccepted \in Nat
    BY <1>1, OfferKinds, JobsAssumption DEF TypeOK
  <2> QED BY <1>2, <2>1
<1>4. ASSUME NEW l \in Lanes
      PROVE  /\ Rest(Pushed(l, offers), current[l]) \in Seq(Ids)
             /\ Running(Pushed(l, offers), current[l]) \in Ids \cup {0}
  <2>1. Pushed(l, offers) \in Seq(Ids)
    BY <1>2, PushedIsSound
  <2>2. current[l] \in Ids \cup {0}
    BY <1>1 DEF TypeOK
  <2>3. CASE current[l] = 0 /\ Pushed(l, offers) # << >>
    <3>1. Tail(Pushed(l, offers)) \in Seq(Ids) /\ Head(Pushed(l, offers)) \in Ids
      BY <2>1, <2>3, HeadTailProperties
    <3> QED BY <2>3, <3>1 DEF Rest, Running
  <2>4. CASE ~ (current[l] = 0 /\ Pushed(l, offers) # << >>)
    BY <2>1, <2>2, <2>4 DEF Rest, Running
  <2> QED BY <2>3, <2>4
<1>5. queue' \in [Lanes -> Seq(Ids)] /\ current' \in [Lanes -> Ids \cup {0}]
  BY <1>2, <1>4
<1>6. status' \in [Ids -> InFlight \cup Finished \cup {"none", "gone", "lost"}]
  <2>1. DOMAIN status' = Ids /\ status' = [j \in Ids |-> status'[j]]
    BY DEF Submit
  <2>2. ASSUME NEW j \in Ids
        PROVE  status'[j] \in InFlight \cup Finished \cup {"none", "gone", "lost"}
    <3>1. status[j] \in InFlight \cup Finished \cup {"none", "gone", "lost"}
      BY <1>1 DEF TypeOK
    <3>2. \/ status'[j] \in {"queued", "running", "done", "gone"}
          \/ status'[j] = status[j]
      BY SubmitMovesForward
    <3> QED BY <3>1, <3>2 DEF InFlight, Finished
  <2> QED BY <2>1, <2>2
<1>7. post[p] \in [visitor : Tokens, own : BOOLEAN] /\ post[p].visitor \in Tokens
  <2>1. post[p] # NoPost /\ post[p] \in [visitor : Tokens, own : BOOLEAN] \cup {NoPost}
    BY <1>1 DEF Submit, TypeOK
  <2> QED BY <2>1
<1>8. post' \in [Posts -> [visitor : Tokens, own : BOOLEAN] \cup {NoPost}]
  BY <1>1 DEF Submit, TypeOK
<1>9. Numbered(offers) \subseteq Ids
  BY <1>1, <1>2, MadeOnce
<1>10. owner' \in [Ids -> Tokens \cup {Nobody}]
  BY <1>1, <1>7 DEF Submit, TypeOK
<1>11. carried' \subseteq Ids
  BY <1>1, <1>9 DEF Submit, TypeOK, Numbered
<1>12. issued' \subseteq Tokens
  BY <1>1 DEF Submit, TypeOK
<1>13. /\ visitors' \subseteq Tokens /\ older' \in [Tokens -> SUBSET Tokens]
       /\ owned' \in [Tokens -> SUBSET Ids]
  BY SubmitKeepsVisitors
<1> QED BY <1>3, <1>5, <1>6, <1>8, <1>10, <1>11, <1>12, <1>13 DEF TypeOK

\* The handler of a POST, as a whole.
LEMMA SubmitStep ==
  ASSUME IInv, NEW p \in Posts, NEW offers \in Offers, Submit(p, offers)
  PROVE  IInv'
<1>1. TypeOK'
  BY SubmitKeepsTypes
<1>2. /\ LanesHoldTheirJobs' /\ FirstComeFirstServed' /\ NumberInFlight' <= MaxQueued
      /\ Cardinality(Jobs') <= MaxJobs \/ Cardinality(Jobs') <= MaxQueued
  BY SubmitKeepsLanes
<1>3. /\ VisitorsAreInOrder' /\ Cardinality(visitors') <= MaxVisitors
      /\ VisitorsSeeTheirJobs' /\ NumbersAreUsedInOrder'
  BY SubmitKeepsVisitors
<1>4. MemoryIsBounded'
  BY <1>2, <1>3 DEF MemoryIsBounded
<1> QED BY <1>1, <1>2, <1>3, <1>4 DEF IInv, LanesAreSound

\* The end of a tailoring concerns no visitor.
LEMMA FinishStep ==
  ASSUME IInv, NEW l \in Lanes, NEW how \in Finished, Finish(l, how)
  PROVE  IInv'
<1> DEFINE next == IF queue[l] = << >> THEN 0 ELSE Head(queue[l])
<1>1. TypeOK /\ MemoryIsBounded
  BY DEF IInv, LanesAreSound
<1>2. /\ current' = [current EXCEPT ![l] = next]
      /\ queue' = [queue EXCEPT ![l] = IF @ = << >> THEN @ ELSE Tail(@)]
      /\ status' = [j \in Ids |-> IF j = current[l] THEN how
                                  ELSE IF j = next THEN "running" ELSE status[j]]
      /\ UNCHANGED <<visitors, older, owned, issued, post, accepted, owner, carried>>
  BY DEF Finish
<1>3. /\ LanesHoldTheirJobs' /\ FirstComeFirstServed' /\ NumberInFlight' <= MaxQueued
      /\ Jobs' = Jobs
  BY FinishKeepsLanes
<1>4. queue[l] \in Seq(Ids) /\ next \in Ids \cup {0}
      /\ (IF queue[l] = << >> THEN queue[l] ELSE Tail(queue[l])) \in Seq(Ids)
  <2>1. queue[l] \in Seq(Ids)
    BY <1>1 DEF TypeOK
  <2>2. CASE queue[l] = << >>
    BY <2>1, <2>2
  <2>3. CASE queue[l] # << >>
    <3>1. Head(queue[l]) \in Ids /\ Tail(queue[l]) \in Seq(Ids)
      BY <2>1, <2>3, HeadTailProperties
    <3> QED BY <2>1, <2>3, <3>1
  <2> QED BY <2>2, <2>3
<1> HIDE DEF next
<1>5. queue' \in [Lanes -> Seq(Ids)]
  <2>1. queue \in [Lanes -> Seq(Ids)]
    BY <1>1 DEF TypeOK
  <2> QED BY <1>2, <1>4, <2>1
<1>6. current' \in [Lanes -> Ids \cup {0}]
  BY <1>1, <1>2, <1>4 DEF TypeOK
<1>7. status' \in [Ids -> InFlight \cup Finished \cup {"none", "gone", "lost"}]
  BY <1>1, <1>2 DEF TypeOK, InFlight
<1>8. TypeOK'
  BY <1>1, <1>2, <1>5, <1>6, <1>7 DEF TypeOK
<1>9. MemoryIsBounded'
  BY <1>1, <1>2, <1>3 DEF MemoryIsBounded
<1>10. VisitorsSeeTheirJobs'
  BY <1>2, <1>3 DEF IInv, VisitorsSeeTheirJobs, NobodySeesAnothersJob, CookiesKeepJobs
<1>11. NumbersAreUsedInOrder'
  <2>1. NumbersAreUsedInOrder
    BY DEF IInv
  <2>2. \A j \in Ids : status'[j] = "none" <=> status[j] = "none"
    <3>1. status[current[l]] = "running" /\ (next # 0 => status[next] = "queued")
      <4>1. LanesHoldTheirJobs /\ current[l] \in Ids
        BY <1>1 DEF IInv, LanesAreSound, TypeOK, Finish
      <4>2. status[current[l]] = "running"
        BY <4>1 DEF LanesHoldTheirJobs
      <4>3. ASSUME next # 0 PROVE status[next] = "queued"
        <5>1. queue[l] # << >> /\ next = Head(queue[l]) /\ next \in Ids
          BY <1>4, <4>3 DEF next
        <5>2. Len(queue[l]) \in Nat /\ DOMAIN queue[l] = 1 .. Len(queue[l]) /\ Len(queue[l]) # 0
          BY <1>4, <5>1, LenProperties, EmptySeq
        <5>3. 1 \in DOMAIN queue[l]
          BY <5>2
        <5>4. Head(queue[l]) = queue[l][1]
          BY <1>4, <5>1
        <5>5. next \in Waiting(l)
          BY <5>1, <5>3, <5>4 DEF Waiting
        <5> QED BY <4>1, <5>1, <5>5 DEF LanesHoldTheirJobs
      <4> QED BY <4>2, <4>3
    <3>2. \A j \in Ids : j # 0
      BY DEF Ids
    <3> QED BY <1>2, <3>1, <3>2 DEF Finished
  <2> QED BY <1>2, <1>3, <2>1, <2>2 DEF NumbersAreUsedInOrder
<1>12. VisitorsAreInOrder'
  BY <1>2 DEF IInv, VisitorsAreInOrder
<1> QED BY <1>3, <1>8, <1>9, <1>10, <1>11, <1>12 DEF IInv, LanesAreSound

\* A step that leaves the jobs alone, and takes nothing from a visitor.
LEMMA VisitorStep ==
  ASSUME IInv, UNCHANGED jobVars, owned' = owned,
         visitors' \subseteq Tokens, older' \in [Tokens -> SUBSET Tokens],
         VisitorsAreInOrder', Cardinality(visitors') <= MaxVisitors,
         \A w \in Tokens : w \notin visitors' => owned[w] = {},
         issued' \subseteq Tokens,
         post' \in [Posts -> [visitor : Tokens, own : BOOLEAN] \cup {NoPost}]
  PROVE  IInv'
<1>1. UNCHANGED <<accepted, status, owner, carried, queue, current>>
  BY DEF jobVars
<1>2. /\ TypeOK /\ LanesHoldTheirJobs /\ FirstComeFirstServed /\ MemoryIsBounded
      /\ NobodySeesAnothersJob /\ CookiesKeepJobs /\ NumbersAreUsedInOrder
  BY DEF IInv, LanesAreSound, VisitorsSeeTheirJobs
<1>3. Jobs' = Jobs /\ NumberInFlight' = NumberInFlight /\ \A l \in Lanes : Waiting(l)' = Waiting(l)
  BY <1>1 DEF Jobs, NumberInFlight, Waiting
<1>4. TypeOK'
  BY <1>1, <1>2 DEF TypeOK
<1>5. LanesHoldTheirJobs' /\ FirstComeFirstServed'
  <2>1. LanesHoldTheirJobs'
    BY <1>1, <1>2, <1>3 DEF LanesHoldTheirJobs, Lanes
  <2>2. FirstComeFirstServed'
    BY <1>1, <1>2 DEF FirstComeFirstServed
  <2> QED BY <2>1, <2>2
<1>6. MemoryIsBounded'
  BY <1>2, <1>3 DEF MemoryIsBounded
<1>7. NobodySeesAnothersJob' /\ CookiesKeepJobs'
  BY <1>1, <1>2, <1>3 DEF NobodySeesAnothersJob, CookiesKeepJobs
<1>8. NumbersAreUsedInOrder'
  BY <1>1, <1>2, <1>3 DEF NumbersAreUsedInOrder
<1> QED BY <1>4, <1>5, <1>6, <1>7, <1>8 DEF IInv, LanesAreSound, VisitorsSeeTheirJobs

\* A visitor that is remembered by a page load, a request or a POST.
LEMMA RememberStep ==
  ASSUME IInv, NEW v \in Tokens, Remember(v), owned' = OwnedBy(v), UNCHANGED jobVars,
         issued' \subseteq Tokens,
         post' \in [Posts -> [visitor : Tokens, own : BOOLEAN] \cup {NoPost}]
  PROVE  IInv'
<1>1. TypeOK /\ MemoryIsBounded /\ NobodySeesAnothersJob
  BY DEF IInv, LanesAreSound, VisitorsSeeTheirJobs
<1>2. owned' = owned
  BY <1>1, NobodyLosesJobs
<1>3. /\ visitors' \subseteq Tokens /\ older' \in [Tokens -> SUBSET Tokens]
      /\ VisitorsAreInOrder' /\ Cardinality(visitors') <= MaxVisitors
      /\ \A w \in Tokens : w \notin visitors' => owned[w] = {}
  BY RememberKeeps
<1> QED BY <1>2, <1>3, VisitorStep

\* What is empty has nothing wrong.
LEMMA EmptyIsSound ==
  ASSUME NEW q, NEW c, q = [l \in Lanes |-> << >>], c = [l \in Lanes |-> 0]
  PROVE  /\ q \in [Lanes -> Seq(Ids)] /\ c \in [Lanes -> Ids \cup {0}]
         /\ \A l \in Lanes : q[l] = << >> /\ DOMAIN q[l] = {} /\ c[l] = 0
         /\ {l \in Lanes : c[l] # 0} = {}
         /\ Len(q["claude"]) + Len(q["local"]) + Cardinality({l \in Lanes : c[l] # 0}) = 0
<1>1. << >> \in Seq(Ids) /\ Len(<< >>) = 0 /\ DOMAIN << >> = {}
  BY EmptySeq
<1>2. {l \in Lanes : c[l] # 0} = {} /\ Cardinality({}) = 0
  BY FS_EmptySet
<1>3. q["claude"] = << >> /\ q["local"] = << >>
  BY DEF Lanes
<1>4. Len(q["claude"]) + Len(q["local"]) + Cardinality({l \in Lanes : c[l] # 0}) = 0
  <2> DEFINE a == Len(q["claude"])
             b == Len(q["local"])
             work == Cardinality({l \in Lanes : c[l] # 0})
  <2>1. a = 0 /\ b = 0 /\ work = 0
    BY <1>1, <1>2, <1>3
  <2> HIDE DEF a, b, work
  <2>2. a + b + work = 0
    BY <2>1
  <2> QED BY <2>2 DEF a, b, work
<1> QED BY <1>1, <1>2, <1>4

LEMMA InitSound == Init => IInv
<1> SUFFICES ASSUME Init PROVE IInv
  OBVIOUS
<1>1. /\ queue \in [Lanes -> Seq(Ids)] /\ current \in [Lanes -> Ids \cup {0}]
      /\ \A l \in Lanes : queue[l] = << >> /\ DOMAIN queue[l] = {} /\ current[l] = 0
      /\ NumberInFlight = 0
  BY EmptyIsSound DEF Init, NumberInFlight
<1>2. Jobs = {} /\ \A j \in Ids : status[j] = "none"
  BY DEF Init, Jobs, InFlight, Finished
<1>3. MaxVisitors \in Nat /\ MaxQueued \in Nat /\ MaxAccepted \in Nat /\ Cardinality({}) = 0
  BY JobsAssumption, FS_EmptySet
<1>4. TypeOK
  BY <1>1, <1>3 DEF Init, TypeOK
<1>5. \A l \in Lanes : Waiting(l) = {}
  BY <1>1 DEF Waiting
<1>6. Waiting("claude") = {} /\ \A j \in Ids : j # 0
  BY <1>5 DEF Lanes, Ids
<1>7. LanesHoldTheirJobs
  <2>1. current["claude"] = 0
    BY <1>1 DEF Lanes
  <2> QED BY <1>1, <1>2, <1>5, <1>6, <2>1 DEF LanesHoldTheirJobs
<1>8. FirstComeFirstServed
  BY <1>1 DEF FirstComeFirstServed
<1>9. MemoryIsBounded
  BY <1>1, <1>2, <1>3 DEF Init, MemoryIsBounded
<1>10. VisitorsSeeTheirJobs
  BY <1>2 DEF Init, VisitorsSeeTheirJobs, NobodySeesAnothersJob, CookiesKeepJobs
<1>11. NumbersAreUsedInOrder
  BY <1>2 DEF Init, NumbersAreUsedInOrder, Ids
<1>12. VisitorsAreInOrder
  BY DEF Init, VisitorsAreInOrder
<1> QED BY <1>4, <1>7, <1>8, <1>9, <1>10, <1>11, <1>12 DEF IInv, LanesAreSound

\* A restart forgets all but the numbers.
LEMMA RestartStep == IInv /\ Restart => IInv'
<1> SUFFICES ASSUME IInv, Restart PROVE IInv'
  OBVIOUS
<1>1. TypeOK /\ NumbersAreUsedInOrder
  BY DEF IInv, LanesAreSound
<1>2. /\ queue' \in [Lanes -> Seq(Ids)] /\ current' \in [Lanes -> Ids \cup {0}]
      /\ \A l \in Lanes : queue'[l] = << >> /\ DOMAIN queue'[l] = {} /\ current'[l] = 0
      /\ NumberInFlight' = 0
  BY EmptyIsSound DEF Restart, NumberInFlight
<1>3. status' = [j \in Ids |-> IF j \in Jobs THEN "lost" ELSE status[j]]
  BY DEF Restart
<1>4. \A j \in Ids : status'[j] \notin InFlight \cup Finished
  BY <1>3 DEF Jobs, InFlight, Finished
<1>5. Jobs' = {}
  BY <1>4 DEF Jobs
<1>6. MaxVisitors \in Nat /\ MaxQueued \in Nat /\ MaxAccepted \in Nat /\ Cardinality({}) = 0
  BY JobsAssumption, FS_EmptySet
<1>7. TypeOK'
  <2>1. status' \in [Ids -> InFlight \cup Finished \cup {"none", "gone", "lost"}]
    BY <1>1, <1>3 DEF TypeOK
  <2> QED BY <1>1, <1>2, <2>1 DEF Restart, TypeOK
<1>8. \A l \in Lanes : Waiting(l)' = {}
  BY <1>2 DEF Waiting
<1>9. LanesHoldTheirJobs'
  <2>1. current'["claude"] = 0 /\ Waiting("claude")' = {} /\ \A j \in Ids : j # 0
    BY <1>2, <1>8 DEF Lanes, Ids
  <2>2. \A j \in Ids : status'[j] # "queued" /\ status'[j] # "running"
    BY <1>4 DEF InFlight
  <2> QED BY <1>2, <1>8, <2>1, <2>2 DEF LanesHoldTheirJobs
<1>10. FirstComeFirstServed'
  BY <1>2 DEF FirstComeFirstServed
<1>11. MemoryIsBounded'
  BY <1>2, <1>5, <1>6 DEF Restart, MemoryIsBounded
<1>12. VisitorsSeeTheirJobs'
  BY <1>5 DEF Restart, VisitorsSeeTheirJobs, NobodySeesAnothersJob, CookiesKeepJobs
<1>13. NumbersAreUsedInOrder'
  <2>1. \A j \in Ids : status'[j] = "none" <=> status[j] = "none"
    BY <1>3 DEF Jobs, InFlight, Finished
  <2> QED BY <1>1, <1>5, <2>1 DEF Restart, NumbersAreUsedInOrder
<1>14. VisitorsAreInOrder'
  BY DEF Restart, VisitorsAreInOrder
<1> QED BY <1>7, <1>9, <1>10, <1>11, <1>12, <1>13, <1>14 DEF IInv, LanesAreSound

LEMMA NextSound == IInv /\ [Next]_vars => IInv'
<1> SUFFICES ASSUME IInv, [Next]_vars PROVE IInv'
  OBVIOUS
<1>1. TypeOK /\ VisitorsAreInOrder /\ MemoryIsBounded /\ NobodySeesAnothersJob
  BY DEF IInv, LanesAreSound, VisitorsSeeTheirJobs
<1>2. ASSUME NEW v \in Tokens, Open(v) PROVE IInv'
  <2>1. issued' \subseteq Tokens /\ post' \in [Posts -> [visitor : Tokens, own : BOOLEAN] \cup {NoPost}]
    BY <1>1, <1>2 DEF Open, TypeOK
  <2>2. Remember(v) /\ owned' = OwnedBy(v) /\ UNCHANGED jobVars
    BY <1>2 DEF Open
  <2> QED BY <2>1, <2>2, RememberStep
<1>3. ASSUME NEW v \in Tokens, Adopt(v) PROVE IInv'
  <2>1. issued' \subseteq Tokens /\ post' \in [Posts -> [visitor : Tokens, own : BOOLEAN] \cup {NoPost}]
    BY <1>1, <1>3 DEF Adopt, TypeOK
  <2>2. Remember(v) /\ owned' = OwnedBy(v) /\ UNCHANGED jobVars
    BY <1>3 DEF Adopt
  <2> QED BY <2>1, <2>2, RememberStep
<1>4. ASSUME NEW p \in Posts, NEW v \in Tokens, NEW own \in Cookies, Arrive(p, v, own)
      PROVE  IInv'
  <2>1. own \in BOOLEAN
    BY JobsAssumption
  <2>2. issued' \subseteq Tokens /\ post' \in [Posts -> [visitor : Tokens, own : BOOLEAN] \cup {NoPost}]
    BY <1>1, <1>4, <2>1 DEF Arrive, TypeOK
  <2>3. Remember(v) /\ owned' = OwnedBy(v) /\ UNCHANGED jobVars
    BY <1>4 DEF Arrive
  <2> QED BY <2>2, <2>3, RememberStep
<1>5. ASSUME NEW p \in Posts, Refuse(p) PROVE IInv'
  <2>1. issued' \subseteq Tokens /\ post' \in [Posts -> [visitor : Tokens, own : BOOLEAN] \cup {NoPost}]
    BY <1>1, <1>5 DEF Refuse, TypeOK
  <2>2. UNCHANGED jobVars
    BY <1>5 DEF Refuse
  <2>3. CASE UNCHANGED <<visitors, older, owned>>
    <3>1. /\ visitors' \subseteq Tokens /\ older' \in [Tokens -> SUBSET Tokens]
          /\ Cardinality(visitors') <= MaxVisitors
      BY <1>1, <2>3 DEF TypeOK, MemoryIsBounded
    <3>2. VisitorsAreInOrder'
      BY <1>1, <2>3 DEF VisitorsAreInOrder
    <3>3. \A w \in Tokens : w \notin visitors' => owned[w] = {}
      BY <1>1, <2>3 DEF NobodySeesAnothersJob
    <3> QED BY <2>1, <2>2, <2>3, <3>1, <3>2, <3>3, VisitorStep
  <2>4. CASE Remember(post[p].visitor) /\ owned' = OwnedBy(post[p].visitor)
    <3>1. post[p].visitor \in Tokens
      <4>1. post[p] # NoPost /\ post[p] \in [visitor : Tokens, own : BOOLEAN] \cup {NoPost}
        BY <1>1, <1>5 DEF Refuse, TypeOK
      <4> QED BY <4>1
    <3> QED BY <2>1, <2>2, <2>4, <3>1, RememberStep
  <2> QED BY <1>5, <2>3, <2>4 DEF Refuse
<1>6. ASSUME NEW p \in Posts, NEW offers \in Offers, Submit(p, offers) PROVE IInv'
  BY <1>6, SubmitStep
<1>7. ASSUME NEW l \in Lanes, NEW how \in Finished, Finish(l, how) PROVE IInv'
  BY <1>7, FinishStep
<1>8. CASE Restart
  BY <1>8, RestartStep
<1>9. CASE UNCHANGED vars
  <2>1. UNCHANGED jobVars /\ UNCHANGED <<visitors, older, owned, issued, post>>
    BY <1>9 DEF vars, jobVars
  <2>2. /\ visitors' \subseteq Tokens /\ older' \in [Tokens -> SUBSET Tokens]
        /\ Cardinality(visitors') <= MaxVisitors /\ issued' \subseteq Tokens
        /\ post' \in [Posts -> [visitor : Tokens, own : BOOLEAN] \cup {NoPost}]
    BY <1>1, <2>1 DEF TypeOK, MemoryIsBounded
  <2>3. VisitorsAreInOrder'
    BY <1>1, <2>1 DEF VisitorsAreInOrder
  <2>4. \A w \in Tokens : w \notin visitors' => owned[w] = {}
    BY <1>1, <2>1 DEF NobodySeesAnothersJob
  <2> QED BY <2>1, <2>2, <2>3, <2>4, VisitorStep
<1> QED BY <1>2, <1>3, <1>4, <1>5, <1>6, <1>7, <1>8, <1>9 DEF Next

LEMMA AlwaysSound == Spec => []IInv
BY InitSound, NextSound, PTL DEF Spec

\* createApp: however submits, ends of jobs, evictions and restarts fall, no job
\* is stranded, run twice or passed by a younger one of its lane, and neither
\* the queue, the jobs nor the visitors grow beyond their caps.
THEOREM LanesStaySound == Spec => []LanesAreSound
<1>1. IInv => LanesAreSound
  BY DEF IInv
<1> QED BY <1>1, AlwaysSound, PTL

\* visitors.get(visitor)?.add(job.id) and remember: a visitor sees the jobs it
\* posted and no other's, and keeps seeing each that its cookie came with,
\* however many page loads made the server forget visitors in between.
THEOREM VisitorsKeepTheirJobs == Spec => []VisitorsSeeTheirJobs
<1>1. IInv => VisitorsSeeTheirJobs
  BY DEF IInv
<1> QED BY <1>1, AlwaysSound, PTL

----------------------------------------------------------------------------
(* The jobs only move forward.                                             *)

LEMMA BoardStep == IInv /\ IInv' /\ [Next]_vars => [\E n \in 0 .. MaxAccepted : Board!Advance(n)]_(Board!board)
<1> SUFFICES ASSUME IInv, IInv', [Next]_vars
             PROVE  (\E n \in 0 .. MaxAccepted : Board!Advance(n)) \/ UNCHANGED <<accepted, status>>
  BY DEF Board!board
<1>1. /\ TypeOK /\ NumbersAreUsedInOrder /\ LanesHoldTheirJobs /\ MaxAccepted \in Nat
      /\ accepted \in 0 .. MaxAccepted
      /\ status' \in [Ids -> {"none", "gone", "lost"} \cup InFlight \cup Finished]
      /\ 0 \in 0 .. MaxAccepted
  BY JobsAssumption DEF IInv, LanesAreSound, TypeOK
<1>2. Board!Ids = Ids /\ Board!InFlight = InFlight /\ Board!Finished = Finished
  BY DEF Board!Ids, Ids, Board!InFlight, InFlight, Board!Finished, Finished
<1>3. /\ Board!Ahead("none") = {"queued", "running", "done", "gone"}
      /\ Board!Ahead("queued") = {"running", "lost"}
      /\ Board!Ahead("running") = {"done", "failed", "lost"}
      /\ \A s \in Finished : Board!Ahead(s) = {"gone", "lost"}
  BY DEF Board!Ahead, Board!Finished, Finished
<1>4. \A j \in Ids : j <= accepted \/ status[j] = "none"
  <2>1. \A j \in Ids : j \in Nat /\ accepted \in Nat
    BY <1>1 DEF Ids
  <2> QED BY <1>1, <2>1 DEF NumbersAreUsedInOrder
<1>5. ASSUME accepted' = accepted,
             \A j \in Ids : status'[j] = status[j]
                            \/ (status[j] # "none" /\ status'[j] \in Board!Ahead(status[j]))
      PROVE  Board!Advance(0)
  <2>1. accepted + 0 <= MaxAccepted /\ accepted' = accepted + 0
    BY <1>1, <1>5
  <2>2. \A j \in Ids : j <= accepted \/ j > accepted'
    BY <1>1, <1>5 DEF Ids
  <2>3. \A j \in Ids : status'[j] = status[j] \/ (j <= accepted /\ status'[j] \in Board!Ahead(status[j]))
    BY <1>4, <1>5
  <2> QED BY <1>1, <1>2, <2>1, <2>2, <2>3 DEF Board!Advance
<1>6. ASSUME NEW p \in Posts, NEW offers \in Offers, Submit(p, offers)
      PROVE  \E n \in 0 .. MaxAccepted : Board!Advance(n)
  <2> DEFINE n == Len(offers)
  <2>1. n \in Nat /\ accepted + n <= MaxAccepted /\ accepted' = accepted + n
    BY <1>6, OfferKinds, SubmitInShort
  <2> HIDE DEF n
  <2>2. n \in 0 .. MaxAccepted
    BY <1>1, <2>1
  <2>3. ASSUME NEW j \in Ids
        PROVE  IF j <= accepted \/ j > accepted'
                 THEN status'[j] = status[j] \/ (j <= accepted /\ status'[j] \in Board!Ahead(status[j]))
                 ELSE status'[j] \in Board!Ahead("none")
    <3>1. IF accepted < j /\ j <= accepted'
            THEN status'[j] \in {"queued", "running", "done", "gone"}
            ELSE \/ status'[j] = status[j]
                 \/ j <= accepted /\ status[j] \in Finished /\ status'[j] = "gone"
      BY <1>6, SubmitMovesForward
    <3>2. j \in Nat /\ accepted \in Nat /\ accepted' \in Nat
      BY <1>1, <2>1 DEF Ids
    <3> HIDE DEF Board!Ahead
    <3>3. CASE accepted < j /\ j <= accepted'
      <4>1. ~ (j <= accepted \/ j > accepted')
        BY <3>2, <3>3
      <4> QED BY <1>3, <3>1, <3>3, <4>1
    <3>4. CASE ~ (accepted < j /\ j <= accepted')
      <4>1. j <= accepted \/ j > accepted'
        BY <3>2, <3>4
      <4>2. status[j] \in Finished => Board!Ahead(status[j]) = {"gone", "lost"}
        BY <1>3
      <4> QED BY <3>1, <3>4, <4>1, <4>2
    <3> QED BY <3>3, <3>4
  <2>4. Board!Advance(n)
    BY <1>1, <1>2, <2>1, <2>3 DEF Board!Advance
  <2> QED BY <2>2, <2>4
<1>7. ASSUME NEW l \in Lanes, NEW how \in Finished, Finish(l, how)
      PROVE  Board!Advance(0)
  <2> DEFINE next == IF queue[l] = << >> THEN 0 ELSE Head(queue[l])
  <2>1. /\ current[l] # 0 /\ accepted' = accepted
        /\ status' = [j \in Ids |-> IF j = current[l] THEN how
                                    ELSE IF j = next THEN "running" ELSE status[j]]
    BY <1>7 DEF Finish
  <2>2. status[current[l]] = "running" /\ current[l] \in Ids
    BY <1>1, <2>1 DEF LanesHoldTheirJobs, TypeOK
  <2>3. next # 0 => next \in Ids /\ status[next] = "queued"
    <3> SUFFICES ASSUME queue[l] # << >>
                 PROVE  Head(queue[l]) \in Ids /\ status[Head(queue[l])] = "queued"
      OBVIOUS
    <3>1. queue[l] \in Seq(Ids)
      BY <1>1 DEF TypeOK
    <3>2. Len(queue[l]) \in Nat /\ DOMAIN queue[l] = 1 .. Len(queue[l]) /\ Len(queue[l]) # 0
      BY <3>1, LenProperties, EmptySeq
    <3>3. 1 \in DOMAIN queue[l] /\ Head(queue[l]) = queue[l][1] /\ Head(queue[l]) \in Ids
      BY <3>1, <3>2, HeadTailProperties
    <3>4. Head(queue[l]) \in Waiting(l)
      BY <3>3 DEF Waiting
    <3> QED BY <1>1, <3>3, <3>4 DEF LanesHoldTheirJobs
  <2> HIDE DEF next
  <2>4. ASSUME NEW j \in Ids
        PROVE  \/ status'[j] = status[j]
               \/ status[j] # "none" /\ status'[j] \in Board!Ahead(status[j])
    <3>1. j # 0
      BY DEF Ids
    <3>2. CASE j = current[l]
      BY <1>3, <2>1, <2>2, <3>2 DEF Finished
    <3>3. CASE j # current[l] /\ j = next
      BY <1>3, <2>1, <2>3, <3>1, <3>3
    <3>4. CASE j # current[l] /\ j # next
      BY <2>1, <3>4
    <3> QED BY <3>2, <3>3, <3>4
  <2> QED BY <1>5, <2>1, <2>4
<1>8. CASE Restart
  <2>1. accepted' = accepted /\ status' = [j \in Ids |-> IF j \in Jobs THEN "lost" ELSE status[j]]
    BY <1>8 DEF Restart
  <2>2. ASSUME NEW j \in Jobs PROVE status[j] # "none" /\ "lost" \in Board!Ahead(status[j])
    <3>1. status[j] \in InFlight \cup Finished
      BY DEF Jobs
    <3>2. CASE status[j] \in Finished
      BY <1>3, <3>2 DEF Finished
    <3>3. CASE status[j] = "queued"
      BY <1>3, <3>3
    <3>4. CASE status[j] = "running"
      BY <1>3, <3>4
    <3> QED BY <3>1, <3>2, <3>3, <3>4 DEF InFlight
  <2>3. \A j \in Ids : \/ status'[j] = status[j]
                       \/ status[j] # "none" /\ status'[j] \in Board!Ahead(status[j])
    BY <2>1, <2>2
  <2>4. Board!Advance(0)
    BY <1>5, <2>1, <2>3
  <2> QED BY <1>1, <2>4
<1>9. ASSUME NEW v \in Tokens, Open(v) \/ Adopt(v) PROVE UNCHANGED <<accepted, status>>
  BY <1>9 DEF Open, Adopt, jobVars
<1>10. ASSUME NEW p \in Posts, NEW v \in Tokens, NEW own \in Cookies, Arrive(p, v, own)
       PROVE  UNCHANGED <<accepted, status>>
  BY <1>10 DEF Arrive, jobVars
<1>11. ASSUME NEW p \in Posts, Refuse(p) PROVE UNCHANGED <<accepted, status>>
  BY <1>11 DEF Refuse, jobVars
<1>12. CASE UNCHANGED vars
  BY <1>12 DEF vars
<1>13. 0 \in 0 .. MaxAccepted
  BY <1>1
<1> QED BY <1>6, <1>7, <1>8, <1>9, <1>10, <1>11, <1>12, <1>13 DEF Next

\* What the page relies on: whatever is posted, evicted, ended or lost in a
\* restart, a job only moves forward, one that is under way ends or is lost but
\* never goes, and numbers are given out in order.
THEOREM JobServerImplementsBoard == Spec => JobsMoveForward
<1>1. Init => Board!BoardInit
  BY DEF Init, Board!BoardInit, Board!Ids, Ids
<1> QED BY <1>1, BoardStep, AlwaysSound, PTL DEF Spec, JobsMoveForward, Board!BoardSpec
=============================================================================
