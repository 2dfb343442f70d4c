----------------------------- MODULE NewsProofs -----------------------------
(***************************************************************************)
(* Proofs about News.  What the poller and the requests hold is described  *)
(* once (JobInv); on it rest three counting arguments: of the workers that *)
(* may still deliver an article, of those that may still ask Groq for it,  *)
(* and of the articles that are on record and that nobody will deliver.    *)
(***************************************************************************)
EXTENDS News, FiniteSetTheorems, WellFoundedInduction, TLAPS

-----------------------------------------------------------------------------
(* Finite sets of numbers                                                  *)

\* Of some sets of members of a finite set one is smallest: what the next two rest on.
LEMMA SmallestSet ==
  ASSUME NEW S, IsFiniteSet(S), NEW F, F \subseteq SUBSET S, F # {}
  PROVE  \E A \in F : \A B \in F : B \subseteq A => B = A
<1>1. IsWellFoundedOn(StrictSubsetOrdering(S), FiniteSubsetsOf(S))
  BY FS_StrictSubsetOrderingWellFounded
<1>2. F \subseteq FiniteSubsetsOf(S)
  BY FS_Subset DEF FiniteSubsetsOf
<1>3. PICK A \in F : \A B \in F : <<B, A>> \notin StrictSubsetOrdering(S)
  BY <1>1, <1>2, WFMin
<1>4. ASSUME NEW B \in F, B \subseteq A, B # A  PROVE FALSE
  BY <1>3, <1>4 DEF StrictSubsetOrdering
<1> QED BY <1>3, <1>4

\* A finite set of numbers that is not empty has a least one ...
LEMMA LeastExists ==
  ASSUME NEW S, S \subseteq Nat, IsFiniteSet(S), S # {}
  PROVE  \E m \in S : \A n \in S : m <= n
<1> DEFINE Below(x) == {b \in S : b < x}
<1> DEFINE family == {Below(x) : x \in S}
<1>1. family \subseteq SUBSET S /\ family # {}
  OBVIOUS
<1>2. PICK A \in family : \A B \in family : B \subseteq A => B = A
  <2> HIDE DEF family
  <2> QED BY ONLY IsFiniteSet(S), <1>1, SmallestSet
<1>3. PICK m \in S : A = Below(m)
  BY <1>2
<1>4. ASSUME NEW n \in S, n < m  PROVE FALSE
  <2>1. ASSUME NEW b \in S, b < n  PROVE b < m
    <3>1. b \in Nat /\ n \in Nat /\ m \in Nat
      OBVIOUS
    <3> QED BY <1>4, <2>1, <3>1
  <2>2. n \in Below(m) /\ n \notin Below(n) /\ Below(n) \in family
    BY <1>4
  <2>3. Below(n) \subseteq Below(m)
    BY <2>1
  <2> HIDE DEF Below, family
  <2>4. Below(n) \subseteq A /\ Below(n) # A
    BY <1>3, <2>2, <2>3
  <2> QED BY <1>2, <2>2, <2>4
<1> QED BY <1>4

\* ... and a greatest one.
LEMMA GreatestExists ==
  ASSUME NEW S, S \subseteq Nat, IsFiniteSet(S), S # {}
  PROVE  \E m \in S : \A n \in S : n <= m
<1> DEFINE Above(x) == {b \in S : b > x}
<1> DEFINE family == {Above(x) : x \in S}
<1>1. family \subseteq SUBSET S /\ family # {}
  OBVIOUS
<1>2. PICK A \in family : \A B \in family : B \subseteq A => B = A
  <2> HIDE DEF family
  <2> QED BY ONLY IsFiniteSet(S), <1>1, SmallestSet
<1>3. PICK m \in S : A = Above(m)
  BY <1>2
<1>4. ASSUME NEW n \in S, n > m  PROVE FALSE
  <2>1. ASSUME NEW b \in S, b > n  PROVE b > m
    <3>1. b \in Nat /\ n \in Nat /\ m \in Nat
      OBVIOUS
    <3> QED BY <1>4, <2>1, <3>1
  <2>2. n \in Above(m) /\ n \notin Above(n) /\ Above(n) \in family
    BY <1>4
  <2>3. Above(n) \subseteq Above(m)
    BY <2>1
  <2> HIDE DEF Above, family
  <2>4. Above(n) \subseteq A /\ Above(n) # A
    BY <1>3, <2>2, <2>3
  <2> QED BY <1>2, <2>2, <2>4
<1> QED BY <1>4

-----------------------------------------------------------------------------
(* The slices and the order of the articles                                *)

\* The first n of some articles are at most n: the oldest of them has fewer than n later.
LEMMA LatestBounded ==
  ASSUME NEW n \in Nat \ {0}, NEW S \in SUBSET Nat, IsFiniteSet(S)
  PROVE  /\ Latest(n, S) \subseteq S
         /\ IsFiniteSet(Latest(n, S))
         /\ Cardinality(Latest(n, S)) <= n
<1>1. Latest(n, S) \subseteq S
  BY DEF Latest
<1>2. IsFiniteSet(Latest(n, S))
  BY <1>1, FS_Subset
<1>3. CASE Latest(n, S) = {}
  BY <1>1, <1>2, <1>3, FS_EmptySet
<1>4. CASE Latest(n, S) # {}
  <2>1. PICK m \in Latest(n, S) : \A k \in Latest(n, S) : m <= k
    BY <1>1, <1>2, <1>4, LeastExists
  <2> DEFINE later == {b \in S : b > m}
  <2>2. later \in SUBSET S /\ IsFiniteSet(later) /\ Cardinality(later) < n
    <3>1. later \in SUBSET S /\ Cardinality(later) < n
      BY <2>1 DEF Latest
    <3> QED BY <3>1, FS_Subset
  <2>3. Latest(n, S) \ {m} \in SUBSET later
    <3> SUFFICES ASSUME NEW k \in Latest(n, S), k # m  PROVE k \in later
      OBVIOUS
    <3>1. k \in Nat /\ m \in Nat /\ m <= k /\ k \in S
      BY <1>1, <2>1
    <3> QED BY <3>1
  <2>4. Cardinality(Latest(n, S) \ {m}) <= Cardinality(later)
    BY <2>2, <2>3, FS_Subset
  <2>5. Cardinality(Latest(n, S) \ {m}) = Cardinality(Latest(n, S)) - 1
    BY <1>2, <2>1, FS_RemoveElement
  <2>6. Cardinality(Latest(n, S)) \in Nat /\ Cardinality(later) \in Nat
    BY <1>2, <2>2, FS_CardinalityType
  <2> QED BY <1>1, <1>2, <2>2, <2>4, <2>5, <2>6
<1> QED BY <1>3, <1>4

\* Articles are finitely many.
LEMMA ArticlesFinite == Articles \in SUBSET Nat /\ IsFiniteSet(Articles)
BY ArticlesAssumption, FS_Interval DEF Articles

\* Of pairs that are left, some can be next.
LEMMA ForemostIsThere ==
  ASSUME NEW left \in SUBSET Pairs, left # {}, NEW t
  PROVE  Foremost(left, t) # {} /\ Foremost(left, t) \subseteq left
<1> DEFINE firsts == {p \in left : \A q \in left : q[1] = p[1] => q[2] <= p[2]}
<1>1. PICK p \in left : TRUE
  OBVIOUS
<1> DEFINE numbers == {a \in Articles : <<p[1], a>> \in left}
<1>2. p \in Pairs /\ p[2] \in Articles /\ p = <<p[1], p[2]>>
  BY <1>1 DEF Pairs
<1>3. numbers \in SUBSET Nat /\ IsFiniteSet(numbers) /\ numbers # {}
  <2>1. numbers \in SUBSET Articles /\ numbers # {}
    BY <1>1, <1>2
  <2> QED BY <2>1, ArticlesFinite, FS_Subset
<1>4. PICK m \in numbers : \A n \in numbers : n <= m
  BY <1>3, GreatestExists
<1>5. <<p[1], m>> \in firsts
  <2> SUFFICES ASSUME NEW q \in left, q[1] = p[1]  PROVE q[2] <= m
    BY <1>4
  <2>1. q[2] \in numbers
    BY DEF Pairs
  <2> QED BY <1>4, <2>1
<1> QED BY <1>5 DEF Foremost

-----------------------------------------------------------------------------
(* What the workers hold                                                   *)

\* What a worker is working on, will work on and has built.
Held(j) == j.page \cup j.todo \cup ({j.now} \ {None})

\* A worker that is not idle works on a pair it has not met before, and its articles are
\* published ones.
JobShape(j, n) ==
  /\ j.pc = "idle" => j = Idle
  /\ j.pc # "idle" => j.now # None
  /\ j.now \notin j.todo \cup j.page
  /\ \A p \in Held(j) : p[2] \in 1..n

\* A request holds LoadLimit articles at most, all of one ticker, and those it has built
\* are on record.
RequestShape(j, ids) ==
  /\ j.pc \notin {"broadcast", "mark"}
  /\ j.todo \cap j.page = {}
  /\ \A p, q \in Held(j) : p[1] = q[1]
  /\ \A p \in j.page : p[2] \in ids
  /\ IsFiniteSet(Held(j)) /\ Cardinality(Held(j)) <= LoadLimit

JobInv == /\ \A w \in Workers : JobShape(job[w], published)
          /\ \A l \in Loads : RequestShape(job[l], broadcastIds)
          /\ job[Poller].page = {}

TypeInv == TypeOK /\ JobInv

\* The idle worker is one.
LEMMA IdleShape ==
  ASSUME NEW n, NEW ids
  PROVE  /\ Idle \in Jobs /\ Idle.pc = "idle" /\ Idle.now = None /\ Idle.todo = {} /\ Idle.page = {}
         /\ Held(Idle) = {} /\ JobShape(Idle, n) /\ RequestShape(Idle, ids)
<1>1. Idle \in Jobs /\ Idle.pc = "idle" /\ Idle.now = None /\ Idle.todo = {} /\ Idle.page = {}
  BY DEF Idle, Jobs
<1>2. Held(Idle) = {}
  BY <1>1 DEF Held
<1>3. JobShape(Idle, n)
  BY <1>1, <1>2 DEF JobShape
<1>4. IsFiniteSet({}) /\ Cardinality({}) = 0 /\ LoadLimit \in Nat
  BY FS_EmptySet, LimitsAssumption
<1>5. RequestShape(Idle, ids)
  BY <1>1, <1>2, <1>4 DEF RequestShape
<1> QED BY <1>1, <1>2, <1>3, <1>5

\* Pairs are not None, and the poller is no request.
LEMMA Distinct == None \notin Pairs /\ Poller \in Workers /\ Loads = Workers \ {Poller}
BY WorkersAssumption DEF Pairs, Workers

\* What the poller goes on with: an article that is not on record, or the next round.
LEMMA OnwardTakes ==
  ASSUME NEW todo \in SUBSET Pairs, NEW t, NEW ids, NEW next \in Onward(todo, t, ids)
  PROVE  /\ next \in Jobs /\ next.page = {}
         /\ \/ next = Idle
            \/ /\ next.pc = "cache" /\ next.now \in todo /\ next.now[2] \notin ids
               /\ next.todo \subseteq todo /\ next.now \notin next.todo
<1> DEFINE left == {p \in todo : p[2] \notin ids}
<1>1. CASE left = {}
  BY <1>1, IdleShape DEF Onward
<1>2. CASE left # {}
  <2>1. PICK p \in Foremost(left, t) : next = [Idle EXCEPT !.pc = "cache", !.now = p, !.todo = left \ {p}]
    BY <1>2 DEF Onward
  <2>2. p \in left
    <3>1. left \in SUBSET Pairs
      OBVIOUS
    <3> HIDE DEF left
    <3> QED BY <1>2, <2>1, <3>1, ForemostIsThere
  <2>3. next = [pc |-> "cache", now |-> p, todo |-> left \ {p}, page |-> {}]
    BY <2>1 DEF Idle
  <2> QED BY <2>2, <2>3 DEF Jobs
<1> QED BY <1>1, <1>2

\* What a request goes on with: one of the pairs it has left.
LEMMA TurnTakes ==
  ASSUME NEW l \in Loads, NEW todo \in SUBSET Pairs, todo # {}, NEW page \in SUBSET Pairs,
         Turn(l, todo, page)
  PROVE  \E j \in Jobs : /\ job' = [job EXCEPT ![l] = j]
                         /\ j.pc = "cache" /\ j.page = page /\ j.now \in todo
                         /\ j.todo \subseteq todo /\ j.now \notin j.todo
<1> DEFINE first == CHOOSE p \in todo : p \in Foremost(todo, None)
<1> DEFINE j == [pc |-> "cache", now |-> first, todo |-> todo \ Foremost(todo, None), page |-> page]
<1>1. first \in todo /\ first \in Foremost(todo, None)
  BY ForemostIsThere
<1>2. job' = [job EXCEPT ![l] = j]
  BY DEF Turn
<1>3. j \in Jobs
  <2> HIDE DEF first
  <2> QED BY <1>1 DEF Jobs
<1> QED BY <1>1, <1>2, <1>3

-----------------------------------------------------------------------------
(* One worker's step                                                       *)

JobsTyped == /\ job \in [Workers -> Jobs]
             /\ \A w \in Workers : /\ job[w].pc = "idle" <=> job[w].now = None
                                   /\ job[w].now \notin job[w].todo \cup job[w].page
             /\ \A l \in Loads : job[l].pc \notin {"broadcast", "mark"}

\* Worker w goes over to job j, and no article is taken off the record.
Moves(w, j) == /\ j \in Jobs
               /\ job' = [job EXCEPT ![w] = j]
               /\ JobShape(j, published)
               /\ w \in Loads => RequestShape(j, broadcastIds')
               /\ w = Poller => j.page = {}
               /\ broadcastIds \subseteq broadcastIds' /\ published' = published

\* The jobs of the others are what they were.
LEMMA JobsKept ==
  ASSUME TypeInv, NEW w \in Workers, NEW j, Moves(w, j)
  PROVE  JobInv' /\ JobsTyped' /\ job'[w] = j /\ \A v \in Workers \ {w} : job'[v] = job[v]
<1>1. job' \in [Workers -> Jobs] /\ job'[w] = j /\ \A v \in Workers \ {w} : job'[v] = job[v]
  BY DEF Moves, TypeInv, TypeOK
<1>2. \A v \in Workers : JobShape(job'[v], published')
  BY <1>1 DEF Moves, TypeInv, JobInv
<1>3. ASSUME NEW l \in Loads  PROVE RequestShape(job'[l], broadcastIds')
  <2>1. CASE l = w
    BY <1>1, <2>1 DEF Moves
  <2>2. CASE l # w
    <3>1. job'[l] = job[l] /\ RequestShape(job[l], broadcastIds)
      BY <1>1, <2>2, Distinct DEF TypeInv, JobInv
    <3>2. broadcastIds \subseteq broadcastIds'
      BY DEF Moves
    <3> QED BY <3>1, <3>2 DEF RequestShape
  <2> QED BY <2>1, <2>2
<1>4. job'[Poller].page = {}
  BY <1>1, Distinct DEF Moves, TypeInv, JobInv
<1>5. JobInv'
  BY <1>2, <1>3, <1>4 DEF JobInv
<1>6. ASSUME NEW v \in Workers
      PROVE  (job'[v].pc = "idle" <=> job'[v].now = None) /\ job'[v].now \notin job'[v].todo \cup job'[v].page
  BY <1>2, IdleShape DEF JobShape
<1>7. \A l \in Loads : job'[l].pc \notin {"broadcast", "mark"}
  BY <1>3 DEF RequestShape
<1>8. JobsTyped'
  BY <1>1, <1>6, <1>7 DEF JobsTyped
<1> QED BY <1>1, <1>5, <1>8

\* What a worker that is not idle works on is a pair, and its article a published one.
LEMMA NowIsPair ==
  ASSUME TypeInv, NEW w \in Workers, job[w].pc # "idle"
  PROVE  /\ job[w] \in Jobs /\ job[w].now \in Pairs /\ job[w].now[2] \in Articles
         /\ job[w].now[2] \in 1..published /\ job[w].now \in Held(job[w])
         /\ job[w].todo \in SUBSET Pairs /\ job[w].page \in SUBSET Pairs
         /\ job[w].now \notin job[w].todo \cup job[w].page
<1>1. job[w] \in Jobs /\ JobShape(job[w], published)
  BY DEF TypeInv, TypeOK, JobInv
<1>2. job[w].now # None
  BY <1>1 DEF JobShape
<1>3. job[w].now \in Pairs /\ job[w].todo \in SUBSET Pairs /\ job[w].page \in SUBSET Pairs
  BY <1>1, <1>2 DEF Jobs
<1>4. job[w].now \in Held(job[w])
  BY <1>2 DEF Held
<1>5. job[w].now[2] \in Articles
  BY <1>3 DEF Pairs
<1> QED BY <1>1, <1>3, <1>4, <1>5 DEF JobShape

\* A worker that only goes to another point of its work holds what it held.
LEMMA PcMoves ==
  ASSUME TypeInv, NEW w \in Workers, job[w].pc # "idle",
         NEW x \in {"cache", "groq", "store", "broadcast", "mark"},
         w \in Loads => x \notin {"broadcast", "mark"},
         job' = [job EXCEPT ![w].pc = x], broadcastIds' = broadcastIds, published' = published
  PROVE  /\ Moves(w, [job[w] EXCEPT !.pc = x])
         /\ JobInv' /\ JobsTyped'
         /\ job'[w].pc = x /\ job'[w].now = job[w].now /\ job'[w].todo = job[w].todo
         /\ job'[w].page = job[w].page
         /\ \A v \in Workers \ {w} : job'[v] = job[v]
<1> DEFINE j == [job[w] EXCEPT !.pc = x]
<1>1. job[w] \in Jobs /\ JobShape(job[w], published) /\ job \in [Workers -> Jobs]
  BY DEF TypeInv, TypeOK, JobInv
<1>2. j \in Jobs /\ j.pc = x /\ j.now = job[w].now /\ j.todo = job[w].todo /\ j.page = job[w].page
  BY <1>1 DEF Jobs
<1>3. job' = [job EXCEPT ![w] = j]
  BY <1>1
<1> HIDE DEF j
<1>4. Held(j) = Held(job[w])
  BY <1>2 DEF Held
<1>5. JobShape(j, published)
  BY <1>1, <1>2, <1>4 DEF JobShape
<1>6. ASSUME w \in Loads  PROVE RequestShape(j, broadcastIds')
  <2>1. RequestShape(job[w], broadcastIds)
    BY <1>6 DEF TypeInv, JobInv
  <2> QED BY <1>2, <1>4, <1>6, <2>1 DEF RequestShape
<1>7. w = Poller => j.page = {}
  BY <1>2 DEF TypeInv, JobInv
<1>8. Moves(w, j)
  BY <1>2, <1>3, <1>5, <1>6, <1>7 DEF Moves
<1>9. JobInv' /\ JobsTyped' /\ job'[w] = j /\ \A v \in Workers \ {w} : job'[v] = job[v]
  BY <1>8, JobsKept
<1> QED BY <1>2, <1>8, <1>9 DEF j

\* The articles of a round are published ones.
LEMMA BatchPublished ==
  Batch \in SUBSET Pairs /\ \A p \in Batch : p[2] \in 1..published
<1> SUFFICES ASSUME NEW p \in Batch  PROVE p[2] \in 1..published
  BY DEF Batch
<1> DEFINE fetched == Latest(FetchLimit, 1..published)
<1>1. p[2] \in Latest(PerTicker, Tagged(p[1], fetched))
  BY DEF Batch
<1>2. p[2] \in fetched
  <2> HIDE DEF fetched
  <2> QED BY <1>1 DEF Latest, Tagged
<1> QED BY <1>2 DEF Latest

\* The poller goes on with `next`, which is nothing or an article that `ids` has not.
PollerGoes(next, ids) ==
  /\ Moves(Poller, next)
  /\ next = Idle \/ (next.pc = "cache" /\ next.now[2] \notin ids)

\* It does so at the start of a round ...
LEMMA PollGoes ==
  ASSUME TypeInv, NEW next \in Onward(Batch, None, broadcastIds),
         job' = [job EXCEPT ![Poller] = next], broadcastIds' = broadcastIds, published' = published
  PROVE  PollerGoes(next, broadcastIds)
<1>1. /\ next \in Jobs /\ next.page = {}
      /\ \/ next = Idle
         \/ /\ next.pc = "cache" /\ next.now \in Batch /\ next.now[2] \notin broadcastIds
            /\ next.todo \subseteq Batch /\ next.now \notin next.todo
  BY BatchPublished, OnwardTakes
<1>2. next.now \notin next.todo \cup next.page
  BY <1>1, IdleShape
<1>3. \A p \in Held(next) : p[2] \in 1..published
  BY <1>1, IdleShape, BatchPublished DEF Held
<1>4. JobShape(next, published)
  <2>1. CASE next = Idle
    BY <2>1, IdleShape
  <2>2. CASE next # Idle
    BY <1>1, <1>2, <1>3, <2>2, BatchPublished, Distinct DEF JobShape
  <2> QED BY <2>1, <2>2
<1> QED BY <1>1, <1>4, Distinct DEF PollerGoes, Moves

\* ... and from one article to the next.
LEMMA PollerGoesOn ==
  ASSUME TypeInv, job[Poller].pc # "idle", NEW ids, PollGoesOn(ids),
         broadcastIds \subseteq broadcastIds', published' = published
  PROVE  \E next : PollerGoes(next, ids)
<1> DEFINE todo == job[Poller].todo
<1>1. todo \in SUBSET Pairs /\ \A p \in todo : p[2] \in 1..published
  BY NowIsPair, Distinct DEF TypeInv, JobInv, JobShape, Held
<1>2. PICK next \in Onward(todo, job[Poller].now[1], ids) : job' = [job EXCEPT ![Poller] = next]
  BY DEF PollGoesOn
<1> HIDE DEF todo
<1>3. /\ next \in Jobs /\ next.page = {}
      /\ \/ next = Idle
         \/ /\ next.pc = "cache" /\ next.now \in todo /\ next.now[2] \notin ids
            /\ next.todo \subseteq todo /\ next.now \notin next.todo
  BY <1>1, OnwardTakes
<1>4. next.now \notin next.todo \cup next.page
  BY <1>3, IdleShape
<1>5. \A p \in Held(next) : p[2] \in 1..published
  BY <1>1, <1>3, IdleShape DEF Held
<1>6. JobShape(next, published)
  <2>1. CASE next = Idle
    BY <2>1, IdleShape
  <2>2. CASE next # Idle
    BY <1>1, <1>3, <1>4, <1>5, <2>2, Distinct DEF JobShape
  <2> QED BY <2>1, <2>2
<1> QED BY <1>2, <1>3, <1>6, Distinct DEF PollerGoes, Moves

\* A request answers: its page, with what it has just built, is delivered.
Answers(l) ==
  LET page == job[l].page \cup {job[l].now}
  IN /\ times' = [a \in Articles |-> IF <<job[l].now[1], a>> \in page THEN times[a] + 1
                                     ELSE times[a]]
     /\ UNCHANGED unheard

\* A request puts an article on record and goes on with j, or answers.
Builds(l, j) ==
  /\ Moves(l, j)
  /\ broadcastIds' = broadcastIds \cup {job[l].now[2]}
  /\ \/ /\ j.pc = "cache" /\ j.page = job[l].page \cup {job[l].now}
        /\ Held(j) \subseteq Held(job[l])
        /\ UNCHANGED reached
     \/ j = Idle /\ job[l].todo = {} /\ Answers(l)

\* That is what LoadBuilt does.
LEMMA LoadBuilds ==
  ASSUME TypeInv, NEW l \in Loads, job[l].pc # "idle", LoadBuilt(l), published' = published
  PROVE  \E j : Builds(l, j)
<1> DEFINE page == job[l].page \cup {job[l].now}
<1>0. l \in Workers
  BY Distinct
<1>1. /\ job[l] \in Jobs /\ job[l].now \in Pairs /\ job[l].now \in Held(job[l])
      /\ job[l].todo \in SUBSET Pairs /\ page \in SUBSET Pairs
      /\ job[l].now \notin job[l].todo \cup job[l].page
  BY <1>0, NowIsPair
<1>2. JobShape(job[l], published) /\ RequestShape(job[l], broadcastIds)
  BY <1>0 DEF TypeInv, JobInv
<1>3. broadcastIds' = broadcastIds \cup {job[l].now[2]}
  BY DEF LoadBuilt
<1>4. CASE job[l].todo # {}
  <2>1. Turn(l, job[l].todo, page) /\ UNCHANGED reached
    BY <1>4 DEF LoadBuilt
  <2>2. PICK j \in Jobs : /\ job' = [job EXCEPT ![l] = j]
                          /\ j.pc = "cache" /\ j.page = page /\ j.now \in job[l].todo
                          /\ j.todo \subseteq job[l].todo /\ j.now \notin j.todo
    <3> HIDE DEF page
    <3> QED BY <1>1, <1>4, <2>1, TurnTakes
  <2>3. Held(j) \subseteq Held(job[l])
    BY <1>1, <2>2, Distinct DEF Held
  <2>4. job[l].todo \cap page = {}
    BY <1>1, <1>2 DEF RequestShape
  <2>5. JobShape(j, published)
    BY <1>1, <1>2, <2>2, <2>3, <2>4, Distinct DEF JobShape
  <2>6. IsFiniteSet(Held(j)) /\ Cardinality(Held(j)) <= LoadLimit
    <3>1. IsFiniteSet(Held(job[l])) /\ Cardinality(Held(job[l])) <= LoadLimit
      BY <1>2 DEF RequestShape
    <3>2. IsFiniteSet(Held(j)) /\ Cardinality(Held(j)) <= Cardinality(Held(job[l]))
      BY <2>3, <3>1, FS_Subset
    <3>3. Cardinality(Held(j)) \in Nat /\ Cardinality(Held(job[l])) \in Nat /\ LoadLimit \in Nat
      BY <3>1, <3>2, FS_CardinalityType, LimitsAssumption
    <3> QED BY <3>1, <3>2, <3>3
  <2>7. \A p \in j.page : p[2] \in broadcastIds'
    BY <1>2, <1>3, <2>2 DEF RequestShape
  <2>8. RequestShape(j, broadcastIds')
    <3>1. \A p, q \in Held(j) : p[1] = q[1]
      BY <1>2, <2>3 DEF RequestShape
    <3>2. j.todo \cap j.page = {}
      BY <2>2, <2>4
    <3> QED BY <2>2, <2>6, <2>7, <3>1, <3>2 DEF RequestShape
  <2>9. Moves(l, j)
    BY <1>3, <2>2, <2>5, <2>8, Distinct DEF Moves
  <2> QED BY <1>3, <2>1, <2>2, <2>3, <2>9 DEF Builds
<1>5. CASE job[l].todo = {}
  <2>1. job' = [job EXCEPT ![l] = Idle] /\ Answers(l)
    BY <1>5 DEF LoadBuilt, Answers
  <2>2. Moves(l, Idle)
    BY <1>3, <2>1, IdleShape, Distinct DEF Moves
  <2> QED BY <1>3, <1>5, <2>1, <2>2 DEF Builds
<1> QED BY <1>4, <1>5

\* A summary is there: the poller goes to its broadcast, a request has built an item.
LEMMA SummarisedSteps ==
  ASSUME TypeInv, NEW w \in Workers, job[w].pc # "idle", Summarised(w), published' = published
  PROVE  \/ /\ w = Poller /\ job' = [job EXCEPT ![w].pc = "broadcast"]
            /\ UNCHANGED <<broadcastIds, reached>>
         \/ w \in Loads /\ \E j : Builds(w, j)
<1>1. CASE w = Poller
  BY <1>1 DEF Summarised
<1>2. CASE w # Poller
  <2>1. w \in Loads /\ LoadBuilt(w)
    BY <1>2, Distinct DEF Summarised
  <2> QED BY <2>1, LoadBuilds
<1> QED BY <1>1, <1>2

\* A request that starts takes LoadLimit articles at most, none of them on record.
LEMMA LoadStarts ==
  ASSUME TypeInv, NEW l \in Loads, NEW t \in Tickers, NEW before \in 1..published,
         LoadMore(l, t, before)
  PROVE  \E j : /\ Moves(l, j) /\ j.pc = "cache" /\ j.page = {}
                /\ \A p \in Held(j) : p[2] \notin broadcastIds
<1> DEFINE candidates == Latest(LoadLimit * Multiplier, Tagged(t, 1..before))
           fresh == Latest(LoadLimit, candidates \ broadcastIds)
           todo == {t} \X fresh
<1>1. published \in Nat /\ before \in Nat /\ 1..before \subseteq 1..published
      /\ published <= MaxArticles /\ MaxArticles \in Nat
  BY ArticlesAssumption DEF TypeInv, TypeOK
<1>2. candidates \subseteq 1..before
  BY DEF Latest, Tagged
<1>3. IsFiniteSet(candidates \ broadcastIds) /\ candidates \ broadcastIds \in SUBSET Nat
  <2>1. IsFiniteSet(1..before) /\ candidates \ broadcastIds \subseteq 1..before /\ 1..before \subseteq Nat
    BY <1>1, <1>2, FS_Interval
  <2> HIDE DEF candidates
  <2> QED BY <2>1, FS_Subset
<1>4. /\ fresh \subseteq candidates \ broadcastIds /\ IsFiniteSet(fresh)
      /\ Cardinality(fresh) <= LoadLimit
  <2>1. LoadLimit \in Nat \ {0}
    BY LimitsAssumption
  <2> HIDE DEF candidates
  <2> QED BY <1>3, <2>1, LatestBounded
<1>5. fresh # {} /\ Turn(l, todo, {}) /\ UNCHANGED <<published, broadcastIds>>
  BY DEF LoadMore
<1> HIDE DEF candidates
<1>6. /\ IsFiniteSet(todo) /\ Cardinality(todo) = Cardinality(fresh)
      /\ Cardinality(fresh) \in Nat
  <2> HIDE DEF fresh
  <2>1. IsFiniteSet({t}) /\ Cardinality({t}) = 1
    BY FS_Singleton
  <2>2. IsFiniteSet(todo) /\ Cardinality(todo) = 1 * Cardinality(fresh)
    BY <1>4, <2>1, FS_Product
  <2>3. Cardinality(fresh) \in Nat
    BY <1>4, FS_CardinalityType
  <2> QED BY <2>2, <2>3
<1> HIDE DEF fresh
<1>7. fresh \subseteq 1..published /\ 1..published \subseteq Articles /\ fresh \cap broadcastIds = {}
  <2>1. 1..published \subseteq Articles
    BY <1>1 DEF Articles
  <2>2. fresh \subseteq 1..published
    BY <1>1, <1>2, <1>4, Zenon
  <2>3. fresh \cap broadcastIds = {}
    BY <1>4
  <2> QED BY <2>1, <2>2, <2>3
<1>8. todo \in SUBSET Pairs /\ todo # {}
  <2>1. fresh \subseteq Articles
    BY <1>7, Zenon
  <2>2. PICK a \in fresh : TRUE
    BY <1>5
  <2>3. <<t, a>> \in todo
    OBVIOUS
  <2>4. \A p \in todo : p \in Pairs
    BY <2>1 DEF Pairs
  <2> QED BY <2>3, <2>4
<1>9. \A p \in todo : p[1] = t /\ p[2] \in 1..published /\ p[2] \notin broadcastIds
  BY <1>7
<1> HIDE DEF todo
<1>10. PICK j \in Jobs : /\ job' = [job EXCEPT ![l] = j]
                         /\ j.pc = "cache" /\ j.page = {} /\ j.now \in todo
                         /\ j.todo \subseteq todo /\ j.now \notin j.todo
  <2>1. Turn(l, todo, {})
    BY <1>5 DEF todo
  <2> DEFINE page == {}
  <2>2. page \in SUBSET Pairs /\ Turn(l, todo, page)
    BY <2>1
  <2> HIDE DEF page
  <2>3. \E j \in Jobs : /\ job' = [job EXCEPT ![l] = j]
                        /\ j.pc = "cache" /\ j.page = page /\ j.now \in todo
                        /\ j.todo \subseteq todo /\ j.now \notin j.todo
    BY <1>8, <2>2, TurnTakes
  <2> QED BY <2>3 DEF page
<1>11. Held(j) \subseteq todo
  BY <1>10 DEF Held
<1>12. JobShape(j, published)
  BY <1>8, <1>9, <1>10, <1>11, Distinct DEF JobShape
<1>13. IsFiniteSet(Held(j)) /\ Cardinality(Held(j)) <= LoadLimit
  <2>1. IsFiniteSet(Held(j)) /\ Cardinality(Held(j)) <= Cardinality(todo)
    BY <1>6, <1>11, FS_Subset
  <2>2. Cardinality(Held(j)) \in Nat /\ LoadLimit \in Nat
    BY <2>1, FS_CardinalityType, LimitsAssumption
  <2> QED BY <1>4, <1>6, <2>1, <2>2
<1>14. RequestShape(j, broadcastIds')
  BY <1>9, <1>10, <1>11, <1>13 DEF RequestShape
<1>15. Moves(l, j)
  BY <1>5, <1>10, <1>12, <1>14, Distinct DEF Moves
<1> QED BY <1>9, <1>10, <1>11, <1>15

-----------------------------------------------------------------------------
(* Type correctness                                                        *)

CountsTyped == /\ calls \in [Articles -> Nat] /\ times \in [Articles -> Nat]
               /\ unheard \subseteq Articles
               /\ {failures, lost, raises, restarts} \subseteq Nat
               /\ failures + lost + raises + restarts <= MaxMishaps

IdsTyped == /\ published \in 0..MaxArticles
            /\ broadcastIds \subseteq 1..published /\ cached \subseteq 1..published

\* TypeOK in three parts.
LEMMA TypeParts == TypeOK <=> IdsTyped /\ JobsTyped /\ CountsTyped
BY DEF TypeOK, IdsTyped, JobsTyped, CountsTyped

\* Nothing is at work when the server starts.
LEMMA InitTyped == Init => TypeInv
<1> SUFFICES ASSUME Init  PROVE TypeInv
  OBVIOUS
<1>1. \A w \in Workers : job[w] = Idle
  BY DEF Init
<1>2. job \in [Workers -> Jobs]
  BY IdleShape DEF Init
<1>3. JobInv /\ JobsTyped
  BY <1>1, <1>2, IdleShape, Distinct DEF JobInv, JobsTyped
<1>4. IdsTyped
  BY ArticlesAssumption DEF Init, IdsTyped
<1>5. CountsTyped
  BY LimitsAssumption DEF Init, CountsTyped
<1> QED BY <1>3, <1>4, <1>5, TypeParts DEF TypeInv

\* A step that moves one worker, and puts on record published articles only.
LEMMA MoveTyped ==
  ASSUME TypeInv, NEW w \in Workers, NEW j, Moves(w, j),
         broadcastIds' \subseteq 1..published, cached' \subseteq 1..published, CountsTyped'
  PROVE  TypeInv'
<1>1. JobInv' /\ JobsTyped'
  BY JobsKept
<1>2. IdsTyped'
  BY TypeParts DEF Moves, TypeInv, IdsTyped
<1> QED BY <1>1, <1>2, TypeParts, PTL DEF TypeInv

\* A mishap is within their bound.
LEMMA MishapCounted ==
  ASSUME CountsTyped, MishapsLeft
  PROVE  /\ {failures, lost, raises, restarts} \subseteq Nat
         /\ failures + lost + raises + restarts + 1 <= MaxMishaps
BY LimitsAssumption DEF CountsTyped, MishapsLeft

\* Articles that reach the user are counted in Nat.
LEMMA AnswersTyped ==
  ASSUME TypeInv, NEW l \in Loads, job[l].pc # "idle", Answers(l)
  PROVE  times' \in [Articles -> Nat] /\ unheard' \subseteq Articles
<1>1. job[l].now \in Pairs /\ job[l].page \in SUBSET Pairs
  BY NowIsPair, Distinct
<1>2. times \in [Articles -> Nat] /\ unheard \subseteq Articles
  BY DEF TypeInv, TypeOK
<1> QED BY <1>1, <1>2 DEF Answers

\* A worker's own steps keep the types.
LEMMA WorkTyped ==
  ASSUME TypeInv, NEW w \in Workers, WorkStep(w)
  PROVE  TypeInv'
<1>1. /\ job[w].pc # "idle" /\ job[w].pc \in {"cache", "groq", "store"}
      /\ published' = published /\ UNCHANGED budgets
  BY DEF WorkStep, ReadCache, Summarise, StoreSummary
<1>2. job[w].now[2] \in Articles /\ job[w].now[2] \in 1..published
  BY <1>1, NowIsPair
<1>3. IdsTyped /\ CountsTyped /\ broadcastIds \subseteq 1..published
  BY TypeParts DEF TypeInv, IdsTyped
<1>4. cached' \subseteq 1..published
  BY <1>2, <1>3 DEF IdsTyped, WorkStep, ReadCache, Summarise, StoreSummary
<1>5. calls' \in [Articles -> Nat]
  BY <1>2, <1>3 DEF CountsTyped, WorkStep, ReadCache, Summarise, StoreSummary
<1>6. \/ \E x \in {"groq", "store"} : job' = [job EXCEPT ![w].pc = x] /\ UNCHANGED <<broadcastIds, reached>>
      \/ Summarised(w)
  BY DEF WorkStep, ReadCache, Summarise, StoreSummary
<1>7. ASSUME NEW x \in {"groq", "store", "broadcast"}, x = "broadcast" => w = Poller,
             job' = [job EXCEPT ![w].pc = x], UNCHANGED <<broadcastIds, reached>>
      PROVE  TypeInv'
  <2>1. CountsTyped'
    BY <1>1, <1>3, <1>5, <1>7 DEF CountsTyped, budgets, reached
  <2>2. Moves(w, [job[w] EXCEPT !.pc = x])
    BY <1>1, <1>7, PcMoves, Distinct
  <2> QED BY <1>3, <1>4, <1>7, <2>1, <2>2, MoveTyped
<1>8. ASSUME w \in Loads, NEW j, Builds(w, j)
      PROVE  TypeInv'
  <2>1. times' \in [Articles -> Nat] /\ unheard' \subseteq Articles
    BY <1>1, <1>3, <1>8, AnswersTyped DEF Builds, CountsTyped, reached
  <2>2. CountsTyped'
    BY <1>1, <1>3, <1>5, <2>1 DEF CountsTyped, budgets
  <2>3. broadcastIds' \subseteq 1..published
    BY <1>2, <1>3, <1>8 DEF Builds
  <2> QED BY <1>4, <1>8, <2>2, <2>3, MoveTyped DEF Builds
<1> QED BY <1>1, <1>6, <1>7, <1>8, SummarisedSteps

\* The steps that move no worker, or all of them.
LEMMA WorldTyped ==
  ASSUME TypeInv, Publish \/ Restart \/ (\E a \in Articles : Expire(a)) \/ UNCHANGED vars
  PROVE  TypeInv'
<1>1. IdsTyped /\ JobsTyped /\ CountsTyped /\ JobInv
  BY TypeParts DEF TypeInv
<1>2. CASE Publish
  <2>1. published \in Nat /\ published' = published + 1 /\ published' <= MaxArticles
        /\ MaxArticles \in Nat /\ 1..published \subseteq 1..published'
    BY <1>1, <1>2, ArticlesAssumption DEF Publish, IdsTyped
  <2>2. UNCHANGED <<broadcastIds, cached, job, calls, reached, budgets>>
    BY <1>2 DEF Publish
  <2>3. IdsTyped'
    BY <1>1, <2>1, <2>2 DEF IdsTyped
  <2>4. JobsTyped' /\ CountsTyped'
    BY <1>1, <2>2 DEF JobsTyped, CountsTyped, reached, budgets
  <2>5. ASSUME NEW w \in Workers  PROVE JobShape(job[w], published')
    BY <1>1, <2>1 DEF JobInv, JobShape
  <2>6. JobInv'
    BY <1>1, <2>2, <2>5 DEF JobInv
  <2> QED BY <2>3, <2>4, <2>6, TypeParts, PTL DEF TypeInv
<1>3. CASE Restart
  <2>1. CountsTyped'
    BY <1>1, <1>3, MishapCounted DEF Restart, CountsTyped, reached
  <2>2. IdsTyped'
    BY <1>1, <1>3 DEF Restart, IdsTyped
  <2>3. \A w \in Workers : job'[w] = Idle
    BY <1>3 DEF Restart
  <2>4. job' \in [Workers -> Jobs]
    BY <1>3, IdleShape DEF Restart
  <2>5. JobInv' /\ JobsTyped'
    BY <2>3, <2>4, IdleShape, Distinct DEF JobInv, JobsTyped
  <2> QED BY <2>1, <2>2, <2>5, TypeParts, PTL DEF TypeInv
<1>4. ASSUME NEW a \in Articles, Expire(a)  PROVE TypeInv'
  <2>1. CountsTyped'
    BY <1>1, <1>4 DEF Expire, CountsTyped, reached, budgets
  <2>2. IdsTyped'
    BY <1>1, <1>4 DEF Expire, IdsTyped
  <2>3. JobInv' /\ JobsTyped'
    BY <1>1, <1>4 DEF Expire, JobInv, JobsTyped
  <2> QED BY <2>1, <2>2, <2>3, TypeParts, PTL DEF TypeInv
<1>5. CASE UNCHANGED vars
  <2>1. IdsTyped' /\ CountsTyped'
    BY <1>1, <1>5 DEF vars, reached, budgets, IdsTyped, CountsTyped
  <2>2. JobInv' /\ JobsTyped'
    BY <1>1, <1>5 DEF vars, JobInv, JobsTyped
  <2> QED BY <2>1, <2>2, TypeParts, PTL DEF TypeInv
<1> QED BY <1>2, <1>3, <1>4, <1>5

\* The poller's other steps keep them.
LEMMA PollerTyped ==
  ASSUME TypeInv, Poll \/ Broadcast \/ BroadcastToNobody \/ Mark \/ BroadcastRaises \/ PollFails
  PROVE  TypeInv'
<1>1. IdsTyped /\ CountsTyped /\ Poller \in Workers /\ broadcastIds \subseteq 1..published
  BY TypeParts, Distinct DEF TypeInv, IdsTyped
<1>2. cached' \subseteq 1..published /\ published' = published
  BY <1>1 DEF IdsTyped, Poll, Broadcast, BroadcastToNobody, Mark, BroadcastRaises, PollFails
<1>3. CASE Poll
  <2>1. PICK next \in Onward(Batch, None, broadcastIds) : job' = [job EXCEPT ![Poller] = next]
    BY <1>3 DEF Poll
  <2>2. broadcastIds' = broadcastIds /\ CountsTyped'
    BY <1>1, <1>3 DEF Poll, CountsTyped, reached, budgets
  <2>3. Moves(Poller, next)
    BY <1>2, <2>1, <2>2, PollGoes DEF PollerGoes
  <2> QED BY <1>1, <1>2, <2>2, <2>3, MoveTyped
<1>4. CASE Broadcast
  <2>1. job[Poller].pc # "idle" /\ job' = [job EXCEPT ![Poller].pc = "mark"]
        /\ broadcastIds' = broadcastIds
    BY <1>4 DEF Broadcast
  <2>2. job[Poller].now \in Pairs /\ job[Poller].now[2] \in Articles
    BY <1>1, <2>1, NowIsPair
  <2>3. CountsTyped'
    BY <1>1, <1>4, <2>2 DEF Broadcast, CountsTyped, budgets
  <2>4. Moves(Poller, [job[Poller] EXCEPT !.pc = "mark"])
    BY <1>1, <1>2, <2>1, PcMoves, Distinct
  <2> QED BY <1>1, <1>2, <2>1, <2>3, <2>4, MoveTyped
<1>5. CASE Mark \/ BroadcastToNobody
  <2>1. job[Poller].pc # "idle" /\ broadcastIds' = broadcastIds \cup {job[Poller].now[2]}
        /\ PollGoesOn(broadcastIds')
    BY <1>5 DEF Mark, BroadcastToNobody
  <2>2. broadcastIds' \subseteq 1..published /\ job[Poller].now[2] \in Articles
    BY <1>1, <2>1, NowIsPair
  <2>3. CountsTyped'
    BY <1>1, <1>5, <2>2 DEF Mark, BroadcastToNobody, CountsTyped, reached, budgets
  <2>4. PICK next : Moves(Poller, next)
    BY <1>2, <2>1, PollerGoesOn DEF PollerGoes
  <2> QED BY <1>1, <1>2, <2>2, <2>3, <2>4, MoveTyped
<1>6. CASE BroadcastRaises
  <2>1. job[Poller].pc # "idle" /\ broadcastIds' = broadcastIds /\ PollGoesOn(broadcastIds)
    BY <1>6 DEF BroadcastRaises
  <2>2. job[Poller].now \in Pairs /\ job[Poller].now[2] \in Articles
    BY <1>1, <2>1, NowIsPair
  <2>3. times' \in [Articles -> Nat] /\ unheard' \subseteq Articles
    BY <1>1, <1>6, <2>2 DEF BroadcastRaises, CountsTyped, reached
  <2>4. CountsTyped'
    BY <1>1, <1>6, <2>3, MishapCounted DEF BroadcastRaises, CountsTyped
  <2>5. PICK next : Moves(Poller, next)
    BY <1>2, <2>1, PollerGoesOn DEF PollerGoes
  <2> QED BY <1>1, <1>2, <2>1, <2>4, <2>5, MoveTyped
<1>7. CASE PollFails
  <2>1. job[Poller].pc # "idle" /\ broadcastIds' = broadcastIds /\ PollGoesOn(broadcastIds)
    BY <1>7 DEF PollFails
  <2>2. CountsTyped'
    BY <1>1, <1>7, MishapCounted DEF PollFails, CountsTyped, reached
  <2>3. PICK next : Moves(Poller, next)
    BY <1>2, <2>1, PollerGoesOn DEF PollerGoes
  <2> QED BY <1>1, <1>2, <2>1, <2>2, <2>3, MoveTyped
<1> QED BY <1>3, <1>4, <1>5, <1>6, <1>7

\* A request that fails is idle again.
LEMMA LoadFailsMoves ==
  ASSUME TypeInv, NEW l \in Loads, LoadFails(l)
  PROVE  Moves(l, Idle)
BY IdleShape, Distinct DEF LoadFails, Moves

\* So do the start of a request and its failure.
LEMMA RequestTyped ==
  ASSUME TypeInv, NEW l \in Loads,
         LoadFails(l) \/ \E t \in Tickers, before \in 1..published : LoadMore(l, t, before)
  PROVE  TypeInv'
<1>1. IdsTyped /\ CountsTyped /\ l \in Workers /\ broadcastIds \subseteq 1..published
  BY TypeParts, Distinct DEF TypeInv, IdsTyped
<1>2. cached' \subseteq 1..published /\ broadcastIds' = broadcastIds
  BY <1>1 DEF IdsTyped, LoadFails, LoadMore
<1>3. CASE LoadFails(l)
  <2>1. CountsTyped'
    BY <1>1, <1>3, MishapCounted DEF LoadFails, CountsTyped, reached
  <2> QED BY <1>1, <1>2, <1>3, <2>1, LoadFailsMoves, MoveTyped
<1>4. ASSUME NEW t \in Tickers, NEW before \in 1..published, LoadMore(l, t, before)  PROVE TypeInv'
  <2>1. CountsTyped'
    BY <1>1, <1>4 DEF LoadMore, CountsTyped, reached, budgets
  <2>2. PICK j : Moves(l, j)
    BY <1>4, LoadStarts
  <2> QED BY <1>1, <1>2, <2>1, <2>2, MoveTyped
<1> QED BY <1>3, <1>4

\* The disjuncts of Next, by who moves.
LEMMA NextCases ==
  ASSUME [Next]_vars
  PROVE  \/ \E w \in Workers : WorkStep(w)
         \/ Poll \/ Broadcast \/ BroadcastToNobody \/ Mark \/ BroadcastRaises \/ PollFails
         \/ \E l \in Loads : \/ LoadFails(l)
                             \/ \E t \in Tickers, before \in 1..published : LoadMore(l, t, before)
         \/ Publish \/ Restart \/ (\E a \in Articles : Expire(a)) \/ UNCHANGED vars
BY Distinct DEF Next, PollerStep

\* Every step keeps the types and what the workers hold.
LEMMA TypeStep ==
  ASSUME TypeInv, [Next]_vars
  PROVE  TypeInv'
BY NextCases, WorkTyped, PollerTyped, RequestTyped, WorldTyped

\* What the workers hold, in every state of every instance.
THEOREM JobsHold == Spec => []TypeInv
<1>1. Init => TypeInv
  BY InitTyped
<1>2. TypeInv /\ [Next]_vars => TypeInv'
  BY TypeStep
<1> QED BY <1>1, <1>2, PTL DEF Spec

\* Every variable keeps to its values; what is worked on is a published article's pair,
\* and not also still to do.
THEOREM NewsTypeCorrect == Spec => []TypeOK
<1>1. TypeInv => TypeOK
  BY DEF TypeInv
<1> QED BY <1>1, JobsHold, PTL

-----------------------------------------------------------------------------
(* What is on record is delivered                                          *)

\* An article that is on record, that no request will show, and that has not reached the
\* user though somebody was there.
Unseen(a) == /\ a \in broadcastIds /\ times[a] = 0 /\ a \notin unheard
             /\ \A l \in Loads : \A p \in job[l].page : p[2] # a

\* What the poller is about to put on record has been shown, if there was anybody.
Heard(a) == times[a] > 0 \/ a \in unheard
MarkInv == job[Poller].pc = "mark" => Heard(job[Poller].now[2])

SeenInv == SeenIsDelivered /\ MarkInv

\* The set SeenIsDelivered counts.
UnseenSet == {a \in Articles : Unseen(a)}
UnseenFew == Cardinality(UnseenSet) <= (LoadLimit - 1) * lost

\* It is finite, and the property bounds its size.
LEMMA UnseenCounted ==
  ASSUME TypeInv
  PROVE  /\ IsFiniteSet(UnseenSet) /\ Cardinality(UnseenSet) \in Nat
         /\ SeenIsDelivered <=> Cardinality(UnseenSet) <= (LoadLimit - 1) * lost
<1> DEFINE paged == {p[2] : p \in UNION {job[l].page : l \in Loads}}
<1>1. broadcastIds \subseteq Articles
  BY ArticlesAssumption DEF TypeInv, TypeOK, Articles
<1>2. {a \in broadcastIds \ (paged \cup unheard) : times[a] = 0} = UnseenSet
  BY <1>1 DEF UnseenSet, Unseen
<1>3. IsFiniteSet(UnseenSet)
  BY ArticlesFinite, FS_Subset DEF UnseenSet
<1>4. Cardinality(UnseenSet) \in Nat
  BY <1>3, FS_CardinalityType
<1> QED BY <1>2, <1>3, <1>4 DEF SeenIsDelivered

\* The same of any state, so of the next one.
LEMMA UnseenBound ==
  TypeInv => (SeenIsDelivered <=> UnseenFew)
BY UnseenCounted DEF UnseenFew

\* While no article becomes unseen the bound stays, as failures only add to it.
LEMMA SeenKept ==
  ASSUME TypeInv, TypeInv', SeenIsDelivered, \A a \in Articles : Unseen(a)' => Unseen(a),
         lost' = lost
  PROVE  SeenIsDelivered'
<1>1. UnseenSet' \in SUBSET UnseenSet
  BY DEF UnseenSet
<1>2. IsFiniteSet(UnseenSet) /\ Cardinality(UnseenSet) \in Nat
      /\ Cardinality(UnseenSet) <= (LoadLimit - 1) * lost
  BY UnseenCounted
<1>3. Cardinality(UnseenSet') <= Cardinality(UnseenSet) /\ Cardinality(UnseenSet') \in Nat
  BY <1>1, <1>2, FS_Subset, FS_CardinalityType
<1>4. SeenIsDelivered' <=> Cardinality(UnseenSet') <= (LoadLimit - 1) * lost'
  <2>1. SeenIsDelivered' <=> UnseenFew'
    BY UnseenBound, PTL
  <2> QED BY <2>1 DEF UnseenFew
<1>5. (LoadLimit - 1) * lost \in Int
  BY LimitsAssumption DEF TypeInv, TypeOK
<1> QED BY <1>2, <1>3, <1>4, <1>5

\* The articles of a request's page are fewer than it may hold: it is working on one more.
LEMMA PageBounded ==
  ASSUME TypeInv, NEW l \in Loads, job[l].pc # "idle"
  PROVE  LET built == {p[2] : p \in job[l].page}
         IN IsFiniteSet(built) /\ Cardinality(built) \in Nat /\ Cardinality(built) <= LoadLimit - 1
<1> DEFINE page == job[l].page
           built == {p[2] : p \in page}
           f == [p \in page |-> p[2]]
<1>1. /\ job[l].now \in Held(job[l]) /\ job[l].now \notin page /\ page \subseteq Held(job[l])
      /\ IsFiniteSet(Held(job[l])) /\ Cardinality(Held(job[l])) <= LoadLimit
  <2>1. l \in Workers /\ RequestShape(job[l], broadcastIds)
    BY Distinct DEF TypeInv, JobInv
  <2>2. job[l].now \in Held(job[l]) /\ job[l].now \notin page
    BY <2>1, NowIsPair
  <2> QED BY <2>1, <2>2 DEF RequestShape, Held
<1> DEFINE rest == Held(job[l]) \ {job[l].now}
<1>2. IsFiniteSet(rest) /\ Cardinality(rest) = Cardinality(Held(job[l])) - 1
  BY <1>1, FS_RemoveElement
<1>3. page \in SUBSET rest
  BY <1>1
<1>4. IsFiniteSet(page) /\ Cardinality(page) <= Cardinality(rest)
  <2> HIDE DEF page, rest
  <2> QED BY <1>2, <1>3, FS_Subset
<1>5. f \in Surjection(page, built)
  BY DEF Surjection
<1>6. IsFiniteSet(built) /\ Cardinality(built) <= Cardinality(page)
  <2> HIDE DEF f, built, page
  <2> QED BY <1>4, <1>5, FS_Surjection
<1>7. /\ Cardinality(page) \in Nat /\ Cardinality(built) \in Nat /\ Cardinality(rest) \in Nat
      /\ Cardinality(Held(job[l])) \in Nat /\ LoadLimit \in Nat
  <2> HIDE DEF page, built, rest
  <2> QED BY <1>1, <1>2, <1>4, <1>6, FS_CardinalityType, LimitsAssumption
<1> HIDE DEF page, built, rest
<1>8. IsFiniteSet(built) /\ Cardinality(built) \in Nat /\ Cardinality(built) <= LoadLimit - 1
  BY <1>1, <1>2, <1>4, <1>6, <1>7
<1> QED BY <1>8 DEF built, page

\* One more step of a bound that is a product.
LEMMA OneMore ==
  ASSUME NEW k \in Int, NEW n \in Nat
  PROVE  k * (n + 1) = k * n + k /\ k * n \in Int
OBVIOUS

\* A request that fails takes the articles of its page along, fewer than LoadLimit.
LEMMA SeenWhenLoadFails ==
  ASSUME TypeInv, TypeInv', SeenIsDelivered, NEW l \in Loads, LoadFails(l)
  PROVE  SeenIsDelivered'
<1> DEFINE built == {p[2] : p \in job[l].page}
<1>1. /\ job[l].pc # "idle" /\ lost' = lost + 1 /\ UNCHANGED <<broadcastIds, times, unheard>>
      /\ \A k \in Loads \ {l} : job'[k] = job[k]
  <2>1. Moves(l, Idle) /\ l \in Workers
    BY LoadFailsMoves, Distinct
  <2>2. \A k \in Workers \ {l} : job'[k] = job[k]
    BY <2>1, JobsKept
  <2> QED BY <2>2, Distinct DEF LoadFails, reached
<1>2. UnseenSet' \subseteq UnseenSet \cup built
  <2> SUFFICES ASSUME NEW a \in Articles, Unseen(a)', a \notin built  PROVE Unseen(a)
    BY DEF UnseenSet
  <2>1. \A p \in job[l].page : p[2] # a
    OBVIOUS
  <2> QED BY <1>1, <2>1 DEF Unseen
<1>3. IsFiniteSet(built) /\ Cardinality(built) \in Nat /\ Cardinality(built) <= LoadLimit - 1
  BY <1>1, PageBounded
<1> HIDE DEF built
<1>4. IsFiniteSet(UnseenSet) /\ Cardinality(UnseenSet) \in Nat
      /\ Cardinality(UnseenSet) <= (LoadLimit - 1) * lost
  BY UnseenCounted
<1>5. IsFiniteSet(UnseenSet \cup built)
      /\ Cardinality(UnseenSet \cup built) <= Cardinality(UnseenSet) + Cardinality(built)
  <2>1. IsFiniteSet(UnseenSet \cup built)
        /\ Cardinality(UnseenSet \cup built)
             = Cardinality(UnseenSet) + Cardinality(built) - Cardinality(UnseenSet \cap built)
    BY <1>3, <1>4, FS_Union
  <2>2. Cardinality(UnseenSet \cap built) \in Nat
    BY <1>4, FS_Intersection, FS_CardinalityType
  <2> QED BY <1>3, <1>4, <2>1, <2>2
<1>6. Cardinality(UnseenSet') <= Cardinality(UnseenSet \cup built)
      /\ Cardinality(UnseenSet') \in Nat /\ Cardinality(UnseenSet \cup built) \in Nat
  BY <1>2, <1>5, FS_Subset, FS_CardinalityType
<1>7. SeenIsDelivered' <=> Cardinality(UnseenSet') <= (LoadLimit - 1) * lost'
  <2>1. SeenIsDelivered' <=> UnseenFew'
    BY UnseenBound, PTL
  <2> QED BY <2>1 DEF UnseenFew
<1>8. LoadLimit - 1 \in Int /\ lost \in Nat
  BY LimitsAssumption DEF TypeInv, TypeOK
<1>9. (LoadLimit - 1) * (lost + 1) = (LoadLimit - 1) * lost + (LoadLimit - 1)
      /\ (LoadLimit - 1) * lost \in Int
  BY <1>8, OneMore
<1> QED BY <1>1, <1>3, <1>4, <1>5, <1>6, <1>7, <1>8, <1>9

\* A request's own step makes no article unseen: what it puts on record is in its page, and
\* its page is shown before it is forgotten.
LEMMA SeenWhenBuilt ==
  ASSUME TypeInv, NEW l \in Loads, job[l].pc # "idle", NEW j, Builds(l, j),
         NEW a \in Articles, Unseen(a)'
  PROVE  Unseen(a)
<1>1. /\ job'[l] = j /\ \A k \in Loads \ {l} : job'[k] = job[k]
      /\ l \in Workers
  <2>1. Moves(l, j) /\ l \in Workers
    BY Distinct DEF Builds
  <2>2. job'[l] = j /\ \A k \in Workers \ {l} : job'[k] = job[k]
    BY <2>1, JobsKept
  <2> QED BY <2>1, <2>2, Distinct
<1>2. job[l].now \in Pairs /\ job[l].now \in Held(job[l]) /\ job[l].page \in SUBSET Pairs
      /\ RequestShape(job[l], broadcastIds) /\ times \in [Articles -> Nat]
  BY <1>1, NowIsPair DEF TypeInv, JobInv, TypeOK
<1>3. \A k \in Loads \ {l} : \A p \in job[k].page : p[2] # a
  BY <1>1 DEF Unseen
<1>4. a \in broadcastIds \cup {job[l].now[2]} /\ times'[a] = 0
  BY DEF Unseen, Builds
<1>5. CASE j.pc = "cache" /\ j.page = job[l].page \cup {job[l].now} /\ UNCHANGED reached
  <2>1. \A p \in j.page : p[2] # a
    BY <1>1 DEF Unseen
  <2> QED BY <1>3, <1>4, <1>5, <2>1 DEF Unseen, reached
<1>6. CASE Answers(l)
  <2> DEFINE page == job[l].page \cup {job[l].now}
  <2>1. <<job[l].now[1], a>> \notin page /\ times[a] = 0
    <3>1. times'[a] = IF <<job[l].now[1], a>> \in page THEN times[a] + 1 ELSE times[a]
      BY <1>6 DEF Answers
    <3>2. times[a] \in Nat
      BY <1>2
    <3> QED BY <1>4, <3>1, <3>2
  <2>2. ASSUME NEW p \in page  PROVE p[2] # a
    <3>1. p[1] = job[l].now[1]
      BY <1>2 DEF RequestShape, Held
    <3>2. p = <<p[1], p[2]>>
      BY <1>2 DEF Pairs
    <3> QED BY <2>1, <3>1, <3>2
  <2>3. unheard' = unheard
    BY <1>6 DEF Answers
  <2> QED BY <1>3, <1>4, <2>1, <2>2, <2>3 DEF Unseen
<1> QED BY <1>5, <1>6 DEF Builds

\* A step of the poller, or of the world, leaves the pages alone.
LEMMA SeenElsewhere ==
  ASSUME TypeInv, \A l \in Loads : job'[l].page = job[l].page, NEW a \in Articles,
         times'[a] \in Nat, times[a] \in Nat, times[a] <= times'[a],
         unheard \subseteq unheard', a \in broadcastIds' => a \in broadcastIds \/ Heard(a)',
         Unseen(a)'
  PROVE  Unseen(a)
BY DEF Unseen, Heard

\* The poller's place once it has gone on.
LEMMA PollerPlace ==
  ASSUME TypeInv, NEW next, NEW ids, PollerGoes(next, ids)
  PROVE  job'[Poller].pc # "mark" /\ \A l \in Loads : job'[l] = job[l]
<1>1. job'[Poller] = next /\ \A v \in Workers \ {Poller} : job'[v] = job[v]
  BY JobsKept, Distinct DEF PollerGoes
<1> QED BY <1>1, IdleShape, Distinct DEF PollerGoes

\* Every step keeps what is on record delivered.
LEMMA SeenStep ==
  ASSUME TypeInv, TypeInv', SeenInv, [Next]_vars
  PROVE  SeenInv'
<1>0. /\ times \in [Articles -> Nat] /\ times' \in [Articles -> Nat] /\ Poller \in Workers
      /\ lost \in Nat /\ lost' \in Nat
  BY Distinct DEF TypeInv, TypeOK
<1>1. ASSUME NEW w \in Workers, WorkStep(w)  PROVE SeenInv'
  <2>1. job[w].pc # "idle" /\ published' = published /\ lost' = lost
    BY <1>1 DEF WorkStep, ReadCache, Summarise, StoreSummary, budgets
  <2>2. \/ \E x \in {"groq", "store"} : job' = [job EXCEPT ![w].pc = x] /\ UNCHANGED <<broadcastIds, reached>>
        \/ Summarised(w)
    BY <1>1 DEF WorkStep, ReadCache, Summarise, StoreSummary
  <2>3. ASSUME NEW x \in {"groq", "store", "broadcast"}, x = "broadcast" => w = Poller,
               job' = [job EXCEPT ![w].pc = x], UNCHANGED <<broadcastIds, reached>>
        PROVE  SeenInv'
    <3>1. /\ job'[w].pc = x /\ job'[w].page = job[w].page
          /\ \A v \in Workers \ {w} : job'[v] = job[v]
      BY <2>1, <2>3, PcMoves, Distinct
    <3>2. \A l \in Loads : job'[l].page = job[l].page
      BY <3>1, Distinct
    <3>3. MarkInv'
      BY <1>0, <2>3, <3>1 DEF SeenInv, MarkInv, Heard, reached
    <3>4. \A a \in Articles : Unseen(a)' => Unseen(a)
      BY <2>3, <3>2 DEF Unseen, reached
    <3> QED BY <2>1, <3>3, <3>4, SeenKept DEF SeenInv
  <2>4. ASSUME w \in Loads, NEW j, Builds(w, j)  PROVE SeenInv'
    <3>1. \A v \in Workers \ {w} : job'[v] = job[v]
      BY <2>4, JobsKept DEF Builds
    <3>2. job'[Poller] = job[Poller]
      BY <1>0, <2>4, <3>1, Distinct
    <3>3. \A a \in Articles : times[a] <= times'[a]
      <4> SUFFICES ASSUME NEW a \in Articles  PROVE times[a] <= times'[a]
        OBVIOUS
      <4>1. times[a] \in Nat
        BY <1>0
      <4>2. times'[a] \in {times[a], times[a] + 1}
        BY <2>4 DEF Builds, Answers, reached
      <4> QED BY <4>1, <4>2
    <3>4. MarkInv'
      <4> SUFFICES ASSUME job[Poller].pc = "mark"  PROVE Heard(job[Poller].now[2])'
        BY <3>2 DEF MarkInv, Heard
      <4>1. job[Poller].now[2] \in Articles /\ Heard(job[Poller].now[2])
        BY <1>0, NowIsPair DEF SeenInv, MarkInv
      <4>2. unheard' = unheard
        BY <2>4 DEF Builds, Answers, reached
      <4> QED BY <1>0, <3>2, <3>3, <4>1, <4>2 DEF Heard
    <3>5. \A a \in Articles : Unseen(a)' => Unseen(a)
      BY <2>1, <2>4, SeenWhenBuilt
    <3> QED BY <2>1, <3>4, <3>5, SeenKept DEF SeenInv
  <2> QED BY <2>1, <2>2, <2>3, <2>4, SummarisedSteps
<1>2. ASSUME NEW next, NEW ids, PollerGoes(next, ids), lost' = lost,
             \A a \in Articles : times[a] <= times'[a], unheard \subseteq unheard',
             \A a \in Articles : a \in broadcastIds' => a \in broadcastIds \/ Heard(a)'
      PROVE  SeenInv'
  <2>1. job'[Poller].pc # "mark" /\ \A l \in Loads : job'[l] = job[l]
    BY <1>2, PollerPlace
  <2>2. \A a \in Articles : Unseen(a)' => Unseen(a)
    BY <1>0, <1>2, <2>1, SeenElsewhere
  <2> QED BY <1>2, <2>1, <2>2, SeenKept DEF SeenInv, MarkInv
<1>3. CASE Poll
  <2>1. PICK next \in Onward(Batch, None, broadcastIds) : job' = [job EXCEPT ![Poller] = next]
    BY <1>3 DEF Poll
  <2>2. UNCHANGED <<published, broadcastIds, times, unheard, lost>>
    BY <1>3 DEF Poll, reached, budgets
  <2>3. PollerGoes(next, broadcastIds)
    BY <2>1, <2>2, PollGoes
  <2> QED BY <1>0, <1>2, <2>2, <2>3
<1>4. CASE Broadcast
  <2>1. /\ job[Poller].pc # "idle" /\ job' = [job EXCEPT ![Poller].pc = "mark"]
        /\ UNCHANGED <<published, broadcastIds, lost>>
        /\ \/ times' = [times EXCEPT ![job[Poller].now[2]] = @ + 1] /\ UNCHANGED unheard
           \/ unheard' = unheard \cup {job[Poller].now[2]} /\ UNCHANGED times
    BY <1>4 DEF Broadcast, budgets
  <2>2. /\ job'[Poller].now = job[Poller].now
        /\ \A v \in Workers \ {Poller} : job'[v] = job[v]
    BY <1>0, <2>1, PcMoves, Distinct
  <2>3. job[Poller].now[2] \in Articles
    BY <1>0, <2>1, NowIsPair
  <2>4. MarkInv'
    BY <1>0, <2>1, <2>2, <2>3 DEF MarkInv, Heard
  <2>5. (\A a \in Articles : times[a] <= times'[a]) /\ unheard \subseteq unheard'
    BY <1>0, <2>1, <2>3
  <2>6. \A a \in Articles : Unseen(a)' => Unseen(a)
    BY <1>0, <2>1, <2>2, <2>5, Distinct, SeenElsewhere
  <2> QED BY <2>1, <2>4, <2>6, SeenKept DEF SeenInv
<1>5. CASE Mark \/ BroadcastToNobody
  <2> DEFINE a == job[Poller].now[2]
  <2>1. /\ job[Poller].pc # "idle" /\ broadcastIds' = broadcastIds \cup {a}
        /\ PollGoesOn(broadcastIds') /\ UNCHANGED <<published, times, lost>>
    BY <1>5 DEF Mark, BroadcastToNobody, reached, budgets
  <2>2. \/ job[Poller].pc = "mark" /\ unheard' = unheard
        \/ unheard' = unheard \cup {a}
    BY <1>5 DEF Mark, BroadcastToNobody, reached
  <2>4. unheard \subseteq unheard' /\ \A b \in Articles : times[b] <= times'[b]
    BY <1>0, <2>1, <2>2
  <2>5. times'[a] > 0 \/ a \in unheard'
    BY <2>1, <2>2 DEF SeenInv, MarkInv, Heard
  <2>6. \A b \in Articles : b \in broadcastIds' => b \in broadcastIds \/ Heard(b)'
    BY <2>1, <2>5 DEF Heard
  <2>3. PICK next : PollerGoes(next, broadcastIds')
    BY <2>1, PollerGoesOn
  <2> QED BY <1>2, <2>1, <2>3, <2>4, <2>6
<1>6. CASE BroadcastRaises \/ PollFails
  <2>1. /\ job[Poller].pc # "idle" /\ PollGoesOn(broadcastIds)
        /\ UNCHANGED <<published, broadcastIds, lost>>
    BY <1>6 DEF BroadcastRaises, PollFails
  <2>2. job[Poller].now[2] \in Articles
    BY <1>0, <2>1, NowIsPair
  <2>3. (\A a \in Articles : times[a] <= times'[a]) /\ unheard \subseteq unheard'
    BY <1>0, <1>6, <2>2 DEF BroadcastRaises, PollFails, reached
  <2>4. PICK next : PollerGoes(next, broadcastIds)
    BY <2>1, PollerGoesOn
  <2> QED BY <1>2, <2>1, <2>3, <2>4
<1>7. ASSUME NEW l \in Loads, NEW j, Moves(l, j), UNCHANGED reached  PROVE MarkInv'
  <2>1. job'[Poller] = job[Poller]
    BY <1>0, <1>7, JobsKept, Distinct
  <2> QED BY <1>7, <2>1 DEF SeenInv, MarkInv, Heard, reached
<1>8. ASSUME NEW l \in Loads, LoadFails(l)  PROVE SeenInv'
  <2>1. SeenIsDelivered'
    BY <1>8, SeenWhenLoadFails DEF SeenInv
  <2>2. UNCHANGED reached
    BY <1>8 DEF LoadFails
  <2> QED BY <1>7, <1>8, <2>1, <2>2, LoadFailsMoves DEF SeenInv
<1>9. ASSUME NEW l \in Loads, NEW t \in Tickers, NEW before \in 1..published, LoadMore(l, t, before)
      PROVE  SeenInv'
  <2>1. PICK j : Moves(l, j) /\ j.page = {}
    BY <1>9, LoadStarts
  <2>2. job[l].pc = "idle" /\ UNCHANGED <<broadcastIds, reached, lost>>
    BY <1>9 DEF LoadMore, budgets
  <2>3. job[l].page = {} /\ l \in Workers
    BY <2>2, IdleShape, Distinct DEF TypeInv, JobInv, JobShape
  <2>4. \A k \in Loads : job'[k].page = job[k].page
    BY <2>1, <2>3, JobsKept, Distinct
  <2>5. \A a \in Articles : Unseen(a)' => Unseen(a)
    BY <2>2, <2>4 DEF Unseen, reached
  <2> QED BY <1>7, <2>1, <2>2, <2>5, SeenKept DEF SeenInv
<1>10. CASE Restart
  <2>1. broadcastIds' = {} /\ lost' = lost /\ job'[Poller] = Idle
    BY <1>0, <1>10 DEF Restart
  <2>2. MarkInv'
    BY <2>1, IdleShape DEF MarkInv
  <2>3. \A a \in Articles : Unseen(a)' => Unseen(a)
    BY <2>1 DEF Unseen
  <2> QED BY <2>1, <2>2, <2>3, SeenKept DEF SeenInv
<1>11. CASE Publish \/ (\E a \in Articles : Expire(a)) \/ UNCHANGED vars
  <2>1. UNCHANGED <<broadcastIds, job, times, unheard, lost>>
    BY <1>11 DEF Publish, Expire, vars, reached, budgets
  <2>2. MarkInv'
    BY <2>1 DEF SeenInv, MarkInv, Heard
  <2>3. \A a \in Articles : Unseen(a)' => Unseen(a)
    BY <2>1 DEF Unseen
  <2> QED BY <2>1, <2>2, <2>3, SeenKept DEF SeenInv
<1> QED BY <1>1, <1>3, <1>4, <1>5, <1>6, <1>8, <1>9, <1>10, <1>11, NextCases

\* An article on record, and so never sent again, has reached the user or is in a page that
\* will, but for fewer than LoadLimit for each request that failed, and for those broadcast
\* while there was nobody to take them.
THEOREM SeenHolds == Spec => []SeenIsDelivered
<1>1. Init => SeenInv
  <2> SUFFICES ASSUME Init  PROVE SeenInv
    OBVIOUS
  <2>1. TypeInv /\ broadcastIds = {} /\ lost = 0 /\ job[Poller] = Idle
    BY InitTyped, Distinct DEF Init
  <2>2. MarkInv
    BY <2>1, IdleShape DEF MarkInv
  <2>3. UnseenSet = {}
    BY <2>1 DEF UnseenSet, Unseen
  <2>4. Cardinality(UnseenSet) = 0 /\ (LoadLimit - 1) * lost = 0
    BY <2>1, <2>3, FS_EmptySet, LimitsAssumption
  <2> QED BY <2>1, <2>2, <2>4, UnseenCounted DEF SeenInv
<1>2. TypeInv /\ TypeInv' /\ SeenInv /\ [Next]_vars => SeenInv'
  BY SeenStep
<1>3. SeenInv => SeenIsDelivered
  BY DEF SeenInv
<1> QED BY <1>1, <1>2, <1>3, JobsHold, PTL DEF Spec

-----------------------------------------------------------------------------
(* Counting workers                                                        *)

\* What is left to each worker is counted against a bound: it stays below it when fewer
\* workers have something left, when one of them uses it up, and when one is given it back
\* and the bound grows.
LEMMA Credit ==
  ASSUME NEW S \in SUBSET Workers, NEW T \in SUBSET Workers,
         NEW n \in Nat, NEW m \in Nat, NEW b \in Int, NEW c \in Int,
         n + Cardinality(S) <= b,
         \/ T \subseteq S /\ m + b <= n + c
         \/ b <= c /\ m = n + 1 /\ \E w \in S : T \subseteq S \ {w}
         \/ m = n /\ b + 1 <= c /\ \E w \in Workers : T \subseteq S \cup {w}
         \/ m = n /\ b + Cardinality(Workers) <= c
  PROVE  m + Cardinality(T) <= c
<1>1. IsFiniteSet(Workers)
  BY WorkersAssumption, FS_AddElement DEF Workers
<1>2. IsFiniteSet(S) /\ IsFiniteSet(T)
  BY <1>1, FS_Subset
<1>3. /\ Cardinality(S) \in Nat /\ Cardinality(T) \in Nat /\ Cardinality(Workers) \in Nat
      /\ Cardinality(T) <= Cardinality(Workers)
  BY <1>1, <1>2, FS_CardinalityType, FS_Subset
<1>4. CASE T \subseteq S /\ m + b <= n + c
  <2>1. Cardinality(T) <= Cardinality(S)
    BY <1>2, <1>4, FS_Subset
  <2> QED BY <1>3, <1>4, <2>1
<1>5. ASSUME b <= c, m = n + 1, NEW w \in S, T \subseteq S \ {w}  PROVE m + Cardinality(T) <= c
  <2>1. IsFiniteSet(S \ {w}) /\ Cardinality(S \ {w}) = Cardinality(S) - 1
    BY <1>2, FS_RemoveElement
  <2>2. Cardinality(T) <= Cardinality(S \ {w})
    BY <1>5, <2>1, FS_Subset
  <2> QED BY <1>3, <1>5, <2>1, <2>2
<1>6. ASSUME m = n, b + 1 <= c, NEW w \in Workers, T \subseteq S \cup {w}
      PROVE  m + Cardinality(T) <= c
  <2>0. /\ IsFiniteSet(S \cup {w})
        /\ Cardinality(S \cup {w}) = IF w \in S THEN Cardinality(S) ELSE Cardinality(S) + 1
    BY <1>2, FS_AddElement
  <2>1. IsFiniteSet(S \cup {w}) /\ Cardinality(S \cup {w}) <= Cardinality(S) + 1
    <3> DEFINE both == S \cup {w}
    <3> HIDE DEF both
    <3>1. IsFiniteSet(both) /\ Cardinality(both) = IF w \in S THEN Cardinality(S) ELSE Cardinality(S) + 1
      BY <2>0 DEF both
    <3>2. Cardinality(both) <= Cardinality(S) + 1
      BY <1>3, <3>1
    <3> QED BY <3>1, <3>2 DEF both
  <2>2. Cardinality(T) <= Cardinality(S \cup {w}) /\ Cardinality(S \cup {w}) \in Nat
    BY <1>6, <2>1, FS_Subset, FS_CardinalityType
  <2> QED BY <1>3, <1>6, <2>1, <2>2
<1>7. CASE m = n /\ b + Cardinality(Workers) <= c
  BY <1>3, <1>7
<1> QED BY <1>4, <1>5, <1>6, <1>7

\* The workers' share of the bounds ...
Share == Cardinality(Workers) * (1 + restarts)

\* ... is a whole number that a restart, and nothing else, raises by their number.
LEMMA ShareTyped ==
  ASSUME TypeInv, TypeInv'
  PROVE  /\ Share \in Nat /\ Share' \in Nat /\ Cardinality(Workers) \in Nat
         /\ Cardinality(Workers) <= Share'
         /\ restarts' = restarts => Share' = Share
         /\ restarts' = restarts + 1 => Share' = Share + Cardinality(Workers)
<1>1. restarts \in Nat /\ restarts' \in Nat
  BY DEF TypeInv, TypeOK
<1>2. Cardinality(Workers) \in Nat
  BY WorkersAssumption, FS_AddElement, FS_CardinalityType DEF Workers
<1>3. ASSUME NEW k \in Nat, NEW n \in Nat  PROVE k * (1 + n) \in Nat /\ k <= k * (1 + n)
  <2>1. k * n \in Nat
    OBVIOUS
  <2>2. k * (1 + n) = k * n + k
    OBVIOUS
  <2> QED BY <2>1, <2>2
<1>4. ASSUME NEW k \in Nat, NEW n \in Nat  PROVE k * (1 + (n + 1)) = k * (1 + n) + k
  OBVIOUS
<1> QED BY <1>1, <1>2, <1>3, <1>4 DEF Share

-----------------------------------------------------------------------------
(* Repeats                                                                 *)

\* Worker w may still bring article a to the user before the next restart: it is at work
\* on it, or may yet begin.
MayDeliver(w, a) ==
  \/ /\ w = Poller
     /\ a \notin broadcastIds => ~(job[w].pc = "mark" /\ job[w].now[2] = a)
     /\ a \in broadcastIds => job[w].pc \notin {"idle", "mark"} /\ job[w].now[2] = a
  \/ w \in Loads /\ (a \in broadcastIds => \E p \in Held(job[w]) : p[2] = a)

Due(a) == {w \in Workers : MayDeliver(w, a)}

RepeatsInv == \A a \in Articles : times[a] + Cardinality(Due(a)) <= Share + raises

\* A request's own step.
LEMMA RepeatsWhenBuilt ==
  ASSUME TypeInv, NEW l \in Loads, job[l].pc # "idle", NEW j, Builds(l, j), NEW a \in Articles
  PROVE  \/ Due(a)' \subseteq Due(a) /\ times'[a] = times[a]
         \/ times'[a] = times[a] + 1 /\ l \in Due(a) /\ Due(a)' \subseteq Due(a) \ {l}
<1>1. /\ job'[l] = j /\ \A v \in Workers \ {l} : job'[v] = job[v]
      /\ l \in Workers /\ l # Poller /\ Poller \in Workers
  <2>1. Moves(l, j) /\ l \in Workers
    BY Distinct DEF Builds
  <2> QED BY <2>1, JobsKept, Distinct
<1>2. /\ job[l].now \in Pairs /\ job[l].now \in Held(job[l])
      /\ RequestShape(job[l], broadcastIds)
  BY <1>1, NowIsPair DEF TypeInv, JobInv
<1>3. broadcastIds' = broadcastIds \cup {job[l].now[2]}
  BY DEF Builds
<1>4. ASSUME NEW v \in Workers \ {l}, MayDeliver(v, a)'  PROVE MayDeliver(v, a)
  BY <1>1, <1>3, <1>4 DEF MayDeliver
<1>5. CASE Held(j) \subseteq Held(job[l]) /\ UNCHANGED reached
  <2>1. MayDeliver(l, a)' => MayDeliver(l, a)
    BY <1>1, <1>3, <1>5 DEF MayDeliver
  <2> QED BY <1>4, <1>5, <2>1 DEF Due, reached
<1>6. CASE j = Idle /\ Answers(l)
  <2> DEFINE page == job[l].page \cup {job[l].now}
  <2>1. times'[a] = IF <<job[l].now[1], a>> \in page THEN times[a] + 1 ELSE times[a]
    BY <1>6 DEF Answers
  <2>2. Held(j) = {}
    BY <1>6, IdleShape
  <2>3. CASE <<job[l].now[1], a>> \in page
    <3>1. <<job[l].now[1], a>> \in Held(job[l]) /\ a \in broadcastIds'
      BY <1>2, <1>3, <2>3 DEF RequestShape, Held
    <3>2. MayDeliver(l, a) /\ ~MayDeliver(l, a)'
      BY <1>1, <2>2, <3>1 DEF MayDeliver
    <3> QED BY <1>1, <1>4, <2>1, <2>3, <3>2 DEF Due
  <2>4. CASE <<job[l].now[1], a>> \notin page
    <3>1. MayDeliver(l, a)' => MayDeliver(l, a)
      BY <1>1, <1>3, <2>2 DEF MayDeliver
    <3> QED BY <1>4, <2>1, <2>4, <3>1 DEF Due
  <2> QED BY <2>3, <2>4
<1> QED BY <1>5, <1>6 DEF Builds

\* One article's count, after a step that uses nothing up or one worker's turn.
LEMMA RepeatsKept ==
  ASSUME TypeInv, TypeInv', RepeatsInv, NEW a \in Articles,
         \/ /\ Due(a)' \subseteq Due(a) /\ restarts' = restarts
            /\ times'[a] + raises <= times[a] + raises'
         \/ /\ times'[a] = times[a] + 1 /\ UNCHANGED <<raises, restarts>>
            /\ \E w \in Due(a) : Due(a)' \subseteq Due(a) \ {w}
         \/ times'[a] = times[a] /\ raises' = raises /\ restarts' = restarts + 1
  PROVE  times'[a] + Cardinality(Due(a)') <= Share' + raises'
<1>1. /\ times[a] \in Nat /\ times'[a] \in Nat /\ raises \in Nat /\ raises' \in Nat
  BY DEF TypeInv, TypeOK
<1>2. /\ Share \in Nat /\ Share' \in Nat /\ Cardinality(Workers) \in Nat
      /\ restarts' = restarts => Share' = Share
      /\ restarts' = restarts + 1 => Share' = Share + Cardinality(Workers)
  BY ShareTyped
<1>3. Due(a) \in SUBSET Workers /\ Due(a)' \in SUBSET Workers
  BY DEF Due
<1>4. times[a] + Cardinality(Due(a)) <= Share + raises
  BY DEF RepeatsInv
<1> DEFINE S == Due(a)
           T == Due(a)'
           n == times[a]
           m == times'[a]
           b == Share + raises
           c == Share' + raises'
<1>5. S \in SUBSET Workers /\ T \in SUBSET Workers /\ n \in Nat /\ m \in Nat /\ b \in Int /\ c \in Int
  BY <1>1, <1>2, <1>3
<1>6. n + Cardinality(S) <= b
  BY <1>4
<1>7. \/ T \subseteq S /\ m + b <= n + c
      \/ b <= c /\ m = n + 1 /\ \E w \in S : T \subseteq S \ {w}
      \/ m = n /\ b + Cardinality(Workers) <= c
  <2>1. CASE T \subseteq S /\ restarts' = restarts /\ times'[a] + raises <= times[a] + raises'
    <3>1. ASSUME NEW x \in Nat, NEW y \in Nat, NEW r \in Nat, NEW q \in Nat, NEW h \in Nat, x + r <= y + q
          PROVE  x + (h + r) <= y + (h + q)
      BY <3>1
    <3>2. m + b <= n + c
      BY <1>1, <1>2, <2>1, <3>1
    <3> QED BY <2>1, <3>2
  <2>2. CASE /\ times'[a] = times[a] + 1 /\ UNCHANGED <<raises, restarts>>
             /\ \E w \in S : T \subseteq S \ {w}
    <3> HIDE DEF S, T
    <3> QED BY <1>1, <1>2, <2>2
  <2>3. CASE times'[a] = times[a] /\ raises' = raises /\ restarts' = restarts + 1
    BY <1>1, <1>2, <2>3
  <2> QED BY <2>1, <2>2, <2>3
<1> HIDE DEF S, T, n, m, b, c
<1>8. m + Cardinality(T) <= c
  BY <1>5, <1>6, <1>7, Credit
<1> QED BY <1>8 DEF T, m, c

\* The poller takes up nothing that is on record, and what it leaves is on record or not
\* yet delivered.
LEMMA RepeatsWhenPollerGoes ==
  ASSUME TypeInv, NEW next, PollerGoes(next, broadcastIds'), NEW a \in Articles,
         a \notin broadcastIds' => ~(job[Poller].pc = "mark" /\ job[Poller].now[2] = a)
  PROVE  Due(a)' \subseteq Due(a)
<1>1. /\ job'[Poller] = next /\ \A v \in Workers \ {Poller} : job'[v] = job[v]
      /\ broadcastIds \subseteq broadcastIds' /\ Poller \notin Loads
  BY JobsKept, Distinct DEF PollerGoes, Moves
<1>2. ASSUME MayDeliver(Poller, a)'  PROVE MayDeliver(Poller, a)
  <2>1. a \notin broadcastIds'
    BY <1>1, <1>2, IdleShape DEF MayDeliver, PollerGoes
  <2> QED BY <1>1, <2>1 DEF MayDeliver
<1>3. ASSUME NEW v \in Workers \ {Poller}, MayDeliver(v, a)'  PROVE MayDeliver(v, a)
  BY <1>1, <1>3, Distinct DEF MayDeliver
<1> QED BY <1>2, <1>3 DEF Due

\* A step that leaves the record alone and gives no worker anything on record.
LEMMA RepeatsElsewhere ==
  ASSUME TypeInv, NEW w \in Workers, \A v \in Workers \ {w} : job'[v] = job[v],
         broadcastIds' = broadcastIds, NEW a \in Articles, MayDeliver(w, a)' => MayDeliver(w, a)
  PROVE  Due(a)' \subseteq Due(a)
<1>1. ASSUME NEW v \in Workers \ {w}, MayDeliver(v, a)'  PROVE MayDeliver(v, a)
  BY <1>1 DEF MayDeliver
<1> QED BY <1>1 DEF Due

\* Every step keeps the count of every article.
LEMMA RepeatsStep ==
  ASSUME TypeInv, TypeInv', RepeatsInv, [Next]_vars
  PROVE  RepeatsInv'
<1> SUFFICES ASSUME NEW a \in Articles
             PROVE  times'[a] + Cardinality(Due(a)') <= Share' + raises'
  BY DEF RepeatsInv
<1> DEFINE Goal == times'[a] + Cardinality(Due(a)') <= Share' + raises'
<1>0. /\ times \in [Articles -> Nat] /\ times[a] \in Nat /\ times'[a] \in Nat
      /\ raises \in Nat /\ raises' \in Nat
      /\ Poller \in Workers /\ Poller \notin Loads
  BY Distinct DEF TypeInv, TypeOK
<1>1. ASSUME Due(a)' \subseteq Due(a), UNCHANGED <<times, raises, restarts>>
      PROVE  Goal
  BY <1>0, <1>1, RepeatsKept
<1>2. ASSUME NEW w \in Workers, WorkStep(w)  PROVE Goal
  <2>1. job[w].pc # "idle" /\ job[w].pc # "mark" /\ published' = published /\ UNCHANGED <<raises, restarts>>
    BY <1>2 DEF WorkStep, ReadCache, Summarise, StoreSummary, budgets
  <2>2. \/ \E x \in {"groq", "store"} : job' = [job EXCEPT ![w].pc = x] /\ UNCHANGED <<broadcastIds, reached>>
        \/ Summarised(w)
    BY <1>2 DEF WorkStep, ReadCache, Summarise, StoreSummary
  <2>3. ASSUME NEW x \in {"groq", "store", "broadcast"}, x = "broadcast" => w = Poller,
               job' = [job EXCEPT ![w].pc = x], UNCHANGED <<broadcastIds, reached>>
        PROVE  Goal
    <3>1. /\ job'[w].pc = x /\ job'[w].now = job[w].now /\ job'[w].todo = job[w].todo
          /\ job'[w].page = job[w].page
          /\ \A v \in Workers \ {w} : job'[v] = job[v]
      BY <2>1, <2>3, PcMoves, Distinct
    <3>2. MayDeliver(w, a)' => MayDeliver(w, a)
      BY <2>1, <2>3, <3>1 DEF MayDeliver, Held
    <3> QED BY <1>1, <2>1, <2>3, <3>1, <3>2, RepeatsElsewhere DEF reached
  <2>4. ASSUME w \in Loads, NEW j, Builds(w, j)  PROVE Goal
    <3>1. \/ Due(a)' \subseteq Due(a) /\ times'[a] = times[a]
          \/ times'[a] = times[a] + 1 /\ w \in Due(a) /\ Due(a)' \subseteq Due(a) \ {w}
      BY <2>1, <2>4, RepeatsWhenBuilt
    <3> QED BY <1>0, <2>1, <3>1, RepeatsKept
  <2> QED BY <2>1, <2>2, <2>3, <2>4, SummarisedSteps
<1>3. CASE Poll
  <2>1. PICK next \in Onward(Batch, None, broadcastIds) : job' = [job EXCEPT ![Poller] = next]
    BY <1>3 DEF Poll
  <2>2. job[Poller].pc # "mark" /\ UNCHANGED <<published, broadcastIds, times, raises, restarts>>
    BY <1>3 DEF Poll, reached, budgets
  <2>3. PollerGoes(next, broadcastIds')
    BY <2>1, <2>2, PollGoes
  <2> QED BY <1>1, <2>2, <2>3, RepeatsWhenPollerGoes
<1>4. CASE Broadcast
  <2>1. /\ job[Poller].pc = "broadcast" /\ job' = [job EXCEPT ![Poller].pc = "mark"]
        /\ UNCHANGED <<published, broadcastIds, raises, restarts>>
        /\ \/ times' = [times EXCEPT ![job[Poller].now[2]] = @ + 1]
           \/ UNCHANGED times
    BY <1>4 DEF Broadcast, budgets
  <2>2. /\ job'[Poller].pc = "mark" /\ job'[Poller].now = job[Poller].now
        /\ \A v \in Workers \ {Poller} : job'[v] = job[v]
    BY <1>0, <2>1, PcMoves, Distinct
  <2>3. CASE job[Poller].now[2] = a
    <3>1. MayDeliver(Poller, a) /\ ~MayDeliver(Poller, a)'
      BY <1>0, <2>1, <2>2, <2>3 DEF MayDeliver
    <3>2. Due(a)' \subseteq Due(a)
      BY <1>0, <2>1, <2>2, <3>1, RepeatsElsewhere
    <3>3. Poller \in Due(a) /\ Due(a)' \subseteq Due(a) \ {Poller}
      BY <1>0, <3>1, <3>2 DEF Due
    <3>4. times'[a] \in {times[a], times[a] + 1}
      BY <1>0, <2>1, <2>3
    <3> QED BY <1>0, <2>1, <3>2, <3>3, <3>4, RepeatsKept
  <2>4. CASE job[Poller].now[2] # a
    <3>1. MayDeliver(Poller, a)' => MayDeliver(Poller, a)
      BY <1>0, <2>1, <2>2, <2>4 DEF MayDeliver
    <3>2. Due(a)' \subseteq Due(a)
      BY <1>0, <2>1, <2>2, <3>1, RepeatsElsewhere
    <3>3. times'[a] = times[a]
      BY <1>0, <2>1, <2>4
    <3> QED BY <1>0, <2>1, <3>2, <3>3, RepeatsKept
  <2> QED BY <2>3, <2>4
<1>5. CASE Mark \/ BroadcastToNobody
  <2>1. /\ job[Poller].pc # "idle" /\ broadcastIds' = broadcastIds \cup {job[Poller].now[2]}
        /\ PollGoesOn(broadcastIds') /\ UNCHANGED <<published, times, raises, restarts>>
    BY <1>5 DEF Mark, BroadcastToNobody, reached, budgets
  <2>2. PICK next : PollerGoes(next, broadcastIds')
    BY <2>1, PollerGoesOn
  <2> QED BY <1>1, <2>1, <2>2, RepeatsWhenPollerGoes
<1>6. CASE BroadcastRaises \/ PollFails
  <2>1. /\ job[Poller].pc \notin {"idle", "mark"} /\ PollGoesOn(broadcastIds)
        /\ UNCHANGED <<published, broadcastIds, restarts>>
    BY <1>6 DEF BroadcastRaises, PollFails
  <2>2. job[Poller].now[2] \in Articles
    BY <1>0, <2>1, NowIsPair
  <2>3. times'[a] + raises <= times[a] + raises'
    <3>1. CASE BroadcastRaises
      <4>1. raises' = raises + 1 /\ times'[a] \in {times[a], times[a] + 1}
        BY <1>0, <2>2, <3>1 DEF BroadcastRaises, reached
      <4> QED BY <1>0, <4>1
    <3>2. CASE PollFails
      BY <1>0, <3>2 DEF PollFails, reached
    <3> QED BY <1>6, <3>1, <3>2
  <2>4. PICK next : PollerGoes(next, broadcastIds')
    BY <2>1, PollerGoesOn
  <2>5. Due(a)' \subseteq Due(a)
    BY <2>1, <2>4, RepeatsWhenPollerGoes
  <2> QED BY <2>1, <2>3, <2>5, RepeatsKept
<1>7. ASSUME NEW l \in Loads, LoadFails(l)  PROVE Goal
  <2>1. UNCHANGED <<broadcastIds, times, raises, restarts>>
    BY <1>7 DEF LoadFails, reached
  <2>2. job'[l] = Idle /\ l \in Workers /\ \A v \in Workers \ {l} : job'[v] = job[v]
    BY <1>7, LoadFailsMoves, JobsKept, Distinct
  <2>3. MayDeliver(l, a)' => MayDeliver(l, a)
    BY <1>0, <2>1, <2>2, IdleShape DEF MayDeliver
  <2> QED BY <1>1, <2>1, <2>2, <2>3, RepeatsElsewhere
<1>8. ASSUME NEW l \in Loads, NEW t \in Tickers, NEW before \in 1..published, LoadMore(l, t, before)
      PROVE  Goal
  <2>1. UNCHANGED <<broadcastIds, times, raises, restarts>>
    BY <1>8 DEF LoadMore, reached, budgets
  <2>2. PICK j : Moves(l, j) /\ \A p \in Held(j) : p[2] \notin broadcastIds
    BY <1>8, LoadStarts
  <2>3. job'[l] = j /\ l \in Workers /\ \A v \in Workers \ {l} : job'[v] = job[v]
    BY <2>2, JobsKept, Distinct
  <2>4. MayDeliver(l, a)' => MayDeliver(l, a)
    BY <1>0, <2>1, <2>2, <2>3 DEF MayDeliver
  <2> QED BY <1>1, <2>1, <2>3, <2>4, RepeatsElsewhere
<1>9. CASE Restart
  BY <1>0, <1>9, RepeatsKept DEF Restart, reached
<1>10. CASE Publish \/ (\E b \in Articles : Expire(b)) \/ UNCHANGED vars
  <2>1. UNCHANGED <<broadcastIds, job, times, raises, restarts>>
    BY <1>10 DEF Publish, Expire, vars, reached, budgets
  <2>2. Due(a)' \subseteq Due(a)
    BY <2>1 DEF Due, MayDeliver
  <2> QED BY <1>1, <2>1, <2>2
<1> QED BY <1>2, <1>3, <1>4, <1>5, <1>6, <1>7, <1>8, <1>9, <1>10, NextCases

\* However often an article is polled, tagged or asked for, it reaches the user at most once
\* from each worker between two restarts, and once more for each broadcast that raised.
THEOREM RepeatsHold == Spec => []RepeatsBounded
<1>1. Init => RepeatsInv
  <2> SUFFICES ASSUME Init, NEW a \in Articles
               PROVE  times[a] + Cardinality(Due(a)) <= Share + raises
    BY DEF RepeatsInv
  <2>1. times[a] = 0 /\ raises = 0 /\ restarts = 0
    BY DEF Init
  <2>2. IsFiniteSet(Workers)
    BY WorkersAssumption, FS_AddElement DEF Workers
  <2>3. Cardinality(Due(a)) <= Cardinality(Workers) /\ Cardinality(Due(a)) \in Nat
        /\ Cardinality(Workers) \in Nat
    BY <2>2, FS_Subset, FS_CardinalityType DEF Due
  <2>4. Share = Cardinality(Workers)
    BY <2>1, <2>3 DEF Share
  <2> QED BY <2>1, <2>3, <2>4
<1>2. TypeInv /\ TypeInv' /\ RepeatsInv /\ [Next]_vars => RepeatsInv'
  BY RepeatsStep
<1>3. TypeInv /\ RepeatsInv => RepeatsBounded
  <2> SUFFICES ASSUME TypeInv, RepeatsInv, NEW a \in Articles
               PROVE  times[a] <= Cardinality(Workers) * (1 + restarts) + raises
    BY DEF RepeatsBounded
  <2>1. times[a] + Cardinality(Due(a)) <= Share + raises
    BY DEF RepeatsInv
  <2>2. Cardinality(Due(a)) \in Nat
    <3>1. IsFiniteSet(Workers) /\ Due(a) \subseteq Workers
      BY WorkersAssumption, FS_AddElement DEF Due, Workers
    <3> QED BY <3>1, FS_Subset, FS_CardinalityType
  <2>3. times[a] \in Nat /\ raises \in Nat /\ Share \in Int
    <3>1. restarts \in Nat /\ times[a] \in Nat /\ raises \in Nat
      BY DEF TypeInv, TypeOK
    <3>2. Cardinality(Workers) \in Nat
      BY WorkersAssumption, FS_AddElement, FS_CardinalityType DEF Workers
    <3> QED BY <3>1, <3>2 DEF Share
  <2>4. times[a] <= Share + raises
    BY <2>1, <2>2, <2>3
  <2> QED BY <2>4 DEF Share
<1> QED BY <1>1, <1>2, <1>3, JobsHold, PTL DEF Spec

-----------------------------------------------------------------------------
(* Groq's calls                                                            *)

\* Worker w may still ask Groq about article a before its summary expires or w fails: with
\* the summary cached only if it has already missed it, without unless it has just asked.
MayCall(w, a) == /\ a \in cached => job[w].pc = "groq" /\ job[w].now[2] = a
                 /\ a \notin cached => ~(job[w].pc = "store" /\ job[w].now[2] = a)

Callers(a) == {w \in Workers : MayCall(w, a)}

CallsInv == \A a \in Articles : calls[a] + Cardinality(Callers(a)) <= Share + failures + lost

\* One article's count, after a step that uses nothing up, one worker's call, a failure or
\* a restart.
LEMMA CallsKept ==
  ASSUME TypeInv, TypeInv', CallsInv, NEW a \in Articles,
         \/ /\ Callers(a)' \subseteq Callers(a)
            /\ UNCHANGED <<failures, lost, restarts>> /\ calls'[a] = calls[a]
         \/ /\ calls'[a] = calls[a] + 1 /\ UNCHANGED <<failures, lost, restarts>>
            /\ \E w \in Callers(a) : Callers(a)' \subseteq Callers(a) \ {w}
         \/ /\ calls'[a] = calls[a] /\ failures' + lost' = failures + lost + 1
            /\ restarts' = restarts
            /\ \E w \in Workers : Callers(a)' \subseteq Callers(a) \cup {w}
         \/ /\ calls'[a] = calls[a] /\ UNCHANGED <<failures, lost>>
            /\ restarts' = restarts + 1
  PROVE  calls'[a] + Cardinality(Callers(a)') <= Share' + failures' + lost'
<1>1. /\ calls[a] \in Nat /\ calls'[a] \in Nat
      /\ failures \in Nat /\ failures' \in Nat /\ lost \in Nat /\ lost' \in Nat
  BY DEF TypeInv, TypeOK
<1>2. /\ Share \in Nat /\ Share' \in Nat /\ Cardinality(Workers) \in Nat
      /\ restarts' = restarts => Share' = Share
      /\ restarts' = restarts + 1 => Share' = Share + Cardinality(Workers)
  BY ShareTyped
<1>3. Callers(a) \in SUBSET Workers /\ Callers(a)' \in SUBSET Workers
  BY DEF Callers
<1> DEFINE S == Callers(a)
           T == Callers(a)'
           n == calls[a]
           m == calls'[a]
           b == Share + failures + lost
           c == Share' + failures' + lost'
<1>4. n + Cardinality(S) <= b
  BY DEF CallsInv
<1>5. S \in SUBSET Workers /\ T \in SUBSET Workers /\ n \in Nat /\ m \in Nat /\ b \in Int /\ c \in Int
  BY <1>1, <1>2, <1>3
<1>6. \/ T \subseteq S /\ m + b <= n + c
      \/ b <= c /\ m = n + 1 /\ \E w \in S : T \subseteq S \ {w}
      \/ m = n /\ b + 1 <= c /\ \E w \in Workers : T \subseteq S \cup {w}
      \/ m = n /\ b + Cardinality(Workers) <= c
  <2>1. CASE T \subseteq S /\ UNCHANGED <<failures, lost, restarts>> /\ calls'[a] = calls[a]
    <3>1. m + b <= n + c
      BY <1>1, <1>2, <2>1
    <3> QED BY <2>1, <3>1
  <2>2. CASE /\ calls'[a] = calls[a] + 1 /\ UNCHANGED <<failures, lost, restarts>>
             /\ \E w \in S : T \subseteq S \ {w}
    <3>1. b <= c /\ m = n + 1
      BY <1>1, <1>2, <2>2
    <3> QED BY <2>2, <3>1
  <2>3. CASE /\ calls'[a] = calls[a] /\ failures' + lost' = failures + lost + 1
             /\ restarts' = restarts
             /\ \E w \in Workers : T \subseteq S \cup {w}
    <3>1. b + 1 <= c /\ m = n
      BY <1>1, <1>2, <2>3
    <3> QED BY <2>3, <3>1
  <2>4. CASE calls'[a] = calls[a] /\ UNCHANGED <<failures, lost>> /\ restarts' = restarts + 1
    BY <1>1, <1>2, <2>4
  <2> QED BY <2>1, <2>2, <2>3, <2>4
<1> HIDE DEF S, T, n, m, b, c
<1>7. m + Cardinality(T) <= c
  BY <1>4, <1>5, <1>6, Credit
<1> QED BY <1>7 DEF T, m, c

\* What a step of one worker does to the callers, the others and the cache being as before.
LEMMA CallersElsewhere ==
  ASSUME TypeInv, NEW w \in Workers, \A v \in Workers \ {w} : job'[v] = job[v],
         cached' = cached, NEW a \in Articles
  PROVE  /\ Callers(a)' \subseteq Callers(a) \cup {w}
         /\ (MayCall(w, a)' => MayCall(w, a)) => Callers(a)' \subseteq Callers(a)
         /\ ~MayCall(w, a)' => Callers(a)' \subseteq Callers(a) \ {w}
<1>1. ASSUME NEW v \in Workers \ {w}, MayCall(v, a)'  PROVE MayCall(v, a)
  BY <1>1 DEF MayCall
<1> QED BY <1>1 DEF Callers

\* A worker that begins, or is done with, an article is not about to ask about one.
LEMMA NotCalling ==
  ASSUME TypeInv, NEW w \in Workers, \A v \in Workers \ {w} : job'[v] = job[v],
         job'[w].pc \in {"idle", "cache", "broadcast", "mark"}, NEW a \in Articles,
         \/ cached' = cached /\ job[w].pc # "store"
         \/ job[w].pc = "store" /\ cached' = cached \cup {job[w].now[2]}
  PROVE  Callers(a)' \subseteq Callers(a)
<1>1. ASSUME NEW v \in Workers, MayCall(v, a)'  PROVE MayCall(v, a)
  <2>1. CASE v = w
    BY <1>1, <2>1 DEF MayCall
  <2>2. CASE v # w
    <3>1. job'[v] = job[v]
      BY <2>2
    <3> QED BY <1>1, <3>1 DEF MayCall
  <2> QED BY <2>1, <2>2
<1> QED BY <1>1 DEF Callers

\* A worker's own step.
LEMMA CallsWhenWorking ==
  ASSUME TypeInv, TypeInv', CallsInv, NEW w \in Workers, WorkStep(w), NEW a \in Articles
  PROVE  calls'[a] + Cardinality(Callers(a)') <= Share' + failures' + lost'
<1>1. job[w].pc # "idle" /\ published' = published /\ UNCHANGED <<failures, lost, restarts>>
  BY DEF WorkStep, ReadCache, Summarise, StoreSummary, budgets
<1>2. job[w].now[2] \in Articles /\ calls \in [Articles -> Nat]
  BY <1>1, NowIsPair DEF TypeInv, TypeOK
<1>3. ASSUME Summarised(w), UNCHANGED calls,
             \/ cached' = cached /\ job[w].pc # "store"
             \/ job[w].pc = "store" /\ cached' = cached \cup {job[w].now[2]}
      PROVE  calls'[a] + Cardinality(Callers(a)') <= Share' + failures' + lost'
  <2>1. CASE w = Poller /\ job' = [job EXCEPT ![w].pc = "broadcast"] /\ UNCHANGED <<broadcastIds, reached>>
    <3>1. job'[w].pc = "broadcast" /\ \A v \in Workers \ {w} : job'[v] = job[v]
      BY <1>1, <2>1, PcMoves, Distinct
    <3>2. Callers(a)' \subseteq Callers(a)
      BY <1>3, <3>1, NotCalling
    <3> QED BY <1>1, <1>3, <3>2, CallsKept
  <2>2. ASSUME w \in Loads, NEW j, Builds(w, j)
        PROVE  calls'[a] + Cardinality(Callers(a)') <= Share' + failures' + lost'
    <3>1. job'[w] = j /\ \A v \in Workers \ {w} : job'[v] = job[v]
      BY <2>2, JobsKept DEF Builds
    <3>2. job'[w].pc \in {"idle", "cache"}
      BY <2>2, <3>1, IdleShape DEF Builds
    <3>3. Callers(a)' \subseteq Callers(a)
      BY <1>3, <3>1, <3>2, NotCalling
    <3> QED BY <1>1, <1>3, <3>3, CallsKept
  <2> QED BY <1>1, <1>3, <2>1, <2>2, SummarisedSteps
<1>4. CASE ReadCache(w)
  <2>1. job[w].pc = "cache" /\ cached' = cached /\ UNCHANGED calls
    BY <1>4 DEF ReadCache
  <2>2. CASE job[w].now[2] \in cached
    BY <1>3, <1>4, <2>1, <2>2 DEF ReadCache
  <2>3. CASE job[w].now[2] \notin cached
    <3>1. job' = [job EXCEPT ![w].pc = "groq"] /\ broadcastIds' = broadcastIds
      BY <1>4, <2>3 DEF ReadCache
    <3>2. /\ job'[w].pc = "groq" /\ job'[w].now = job[w].now
          /\ \A v \in Workers \ {w} : job'[v] = job[v]
      BY <1>1, <3>1, PcMoves
    <3>3. MayCall(w, a)' => MayCall(w, a)
      BY <2>1, <2>3, <3>2 DEF MayCall
    <3> QED BY <1>1, <2>1, <3>2, <3>3, CallersElsewhere, CallsKept
  <2> QED BY <2>2, <2>3
<1>5. CASE Summarise(w)
  <2>1. /\ job[w].pc = "groq" /\ cached' = cached /\ job' = [job EXCEPT ![w].pc = "store"]
        /\ calls' = [calls EXCEPT ![job[w].now[2]] = @ + 1] /\ broadcastIds' = broadcastIds
    BY <1>5 DEF Summarise
  <2>2. /\ job'[w].pc = "store" /\ job'[w].now = job[w].now
        /\ \A v \in Workers \ {w} : job'[v] = job[v]
    BY <1>1, <2>1, PcMoves
  <2>3. CASE job[w].now[2] = a
    <3>1. MayCall(w, a) /\ ~MayCall(w, a)'
      BY <2>1, <2>2, <2>3 DEF MayCall
    <3>2. w \in Callers(a) /\ Callers(a)' \subseteq Callers(a) \ {w}
      BY <2>1, <2>2, <3>1, CallersElsewhere DEF Callers
    <3>3. calls'[a] = calls[a] + 1
      BY <1>2, <2>1, <2>3
    <3> QED BY <1>1, <3>2, <3>3, CallsKept
  <2>4. CASE job[w].now[2] # a
    <3>1. MayCall(w, a)' => MayCall(w, a)
      BY <2>1, <2>2, <2>4 DEF MayCall
    <3>2. Callers(a)' \subseteq Callers(a) /\ calls'[a] = calls[a]
      BY <1>2, <2>1, <2>2, <2>4, <3>1, CallersElsewhere
    <3> QED BY <1>1, <3>2, CallsKept
  <2> QED BY <2>3, <2>4
<1>6. CASE StoreSummary(w)
  BY <1>3, <1>6 DEF StoreSummary
<1> QED BY <1>4, <1>5, <1>6 DEF WorkStep

\* The poller gone on, or one that was not storing a summary.
LEMMA CallersWhenPollerGoes ==
  ASSUME TypeInv, NEW next, NEW ids, PollerGoes(next, ids), cached' = cached, NEW a \in Articles
  PROVE  /\ Callers(a)' \subseteq Callers(a) \cup {Poller}
         /\ job[Poller].pc # "store" => Callers(a)' \subseteq Callers(a)
<1>1. job'[Poller] = next /\ \A v \in Workers \ {Poller} : job'[v] = job[v]
  BY JobsKept, Distinct DEF PollerGoes
<1>2. job'[Poller].pc \in {"idle", "cache"}
  BY <1>1, IdleShape DEF PollerGoes
<1> QED BY <1>1, <1>2, CallersElsewhere, NotCalling, Distinct

\* Every step keeps the count of every article.
LEMMA CallsStep ==
  ASSUME TypeInv, TypeInv', CallsInv, [Next]_vars
  PROVE  CallsInv'
<1> SUFFICES ASSUME NEW a \in Articles
             PROVE  calls'[a] + Cardinality(Callers(a)') <= Share' + failures' + lost'
  BY DEF CallsInv
<1> DEFINE Goal == calls'[a] + Cardinality(Callers(a)') <= Share' + failures' + lost'
<1>0. /\ calls \in [Articles -> Nat] /\ Poller \in Workers
      /\ failures \in Nat /\ lost \in Nat /\ failures' \in Nat /\ lost' \in Nat
  BY Distinct DEF TypeInv, TypeOK
<1>1. ASSUME Callers(a)' \subseteq Callers(a), UNCHANGED <<calls, failures, lost, restarts>>
      PROVE  Goal
  BY <1>1, CallsKept
<1>2. ASSUME NEW w \in Workers, WorkStep(w)  PROVE Goal
  BY <1>2, CallsWhenWorking
<1>3. CASE Poll
  <2>1. PICK next \in Onward(Batch, None, broadcastIds) : job' = [job EXCEPT ![Poller] = next]
    BY <1>3 DEF Poll
  <2>2. /\ job[Poller].pc # "store"
        /\ UNCHANGED <<published, broadcastIds, cached, calls, failures, lost, restarts>>
    BY <1>3 DEF Poll, budgets
  <2>3. PollerGoes(next, broadcastIds)
    BY <2>1, <2>2, PollGoes
  <2> QED BY <1>1, <2>2, <2>3, CallersWhenPollerGoes
<1>4. CASE Broadcast
  <2>1. /\ job[Poller].pc = "broadcast" /\ job' = [job EXCEPT ![Poller].pc = "mark"]
        /\ UNCHANGED <<published, broadcastIds, cached, calls, failures, lost, restarts>>
    BY <1>4 DEF Broadcast, budgets
  <2>2. job'[Poller].pc = "mark" /\ \A v \in Workers \ {Poller} : job'[v] = job[v]
    BY <1>0, <2>1, PcMoves, Distinct
  <2>3. Callers(a)' \subseteq Callers(a)
    BY <1>0, <2>1, <2>2, NotCalling
  <2> QED BY <1>1, <2>1, <2>3
<1>5. CASE Mark \/ BroadcastToNobody \/ BroadcastRaises
  <2>1. /\ job[Poller].pc \in {"mark", "broadcast"} /\ \E ids : PollGoesOn(ids)
        /\ broadcastIds \subseteq broadcastIds'
        /\ UNCHANGED <<published, cached, calls, failures, lost, restarts>>
    BY <1>5 DEF Mark, BroadcastToNobody, BroadcastRaises, budgets
  <2>2. PICK next, ids : PollerGoes(next, ids)
    BY <2>1, PollerGoesOn
  <2> QED BY <1>1, <2>1, <2>2, CallersWhenPollerGoes
<1>6. CASE PollFails
  <2>1. /\ job[Poller].pc # "idle" /\ PollGoesOn(broadcastIds) /\ failures' = failures + 1
        /\ UNCHANGED <<published, broadcastIds, cached, calls, lost, restarts>>
    BY <1>6 DEF PollFails
  <2>2. PICK next : PollerGoes(next, broadcastIds)
    BY <2>1, PollerGoesOn
  <2>3. Callers(a)' \subseteq Callers(a) \cup {Poller}
    BY <2>1, <2>2, CallersWhenPollerGoes
  <2>4. failures' + lost' = failures + lost + 1
    BY <1>0, <2>1
  <2> QED BY <1>0, <2>1, <2>3, <2>4, CallsKept
<1>7. ASSUME NEW l \in Loads, LoadFails(l)  PROVE Goal
  <2>1. UNCHANGED <<cached, calls, failures, restarts>> /\ lost' = lost + 1
    BY <1>7 DEF LoadFails
  <2>2. l \in Workers /\ \A v \in Workers \ {l} : job'[v] = job[v]
    BY <1>7, LoadFailsMoves, JobsKept, Distinct
  <2>3. Callers(a)' \subseteq Callers(a) \cup {l}
    BY <2>1, <2>2, CallersElsewhere
  <2>4. failures' + lost' = failures + lost + 1
    BY <1>0, <2>1
  <2> QED BY <2>1, <2>2, <2>3, <2>4, CallsKept
<1>8. ASSUME NEW l \in Loads, NEW t \in Tickers, NEW before \in 1..published, LoadMore(l, t, before)
      PROVE  Goal
  <2>1. job[l].pc = "idle" /\ UNCHANGED <<cached, calls, failures, lost, restarts>>
    BY <1>8 DEF LoadMore, budgets
  <2>2. PICK j : Moves(l, j) /\ j.pc = "cache"
    BY <1>8, LoadStarts
  <2>3. job'[l] = j /\ l \in Workers /\ \A v \in Workers \ {l} : job'[v] = job[v]
    BY <2>2, JobsKept, Distinct
  <2>4. Callers(a)' \subseteq Callers(a)
    BY <2>1, <2>2, <2>3, NotCalling
  <2> QED BY <1>1, <2>1, <2>4
<1>9. CASE Restart
  BY <1>9, CallsKept DEF Restart
<1>10. ASSUME NEW b \in Articles, Expire(b)  PROVE Goal
  <2>1. UNCHANGED <<job, failures, lost, restarts>> /\ cached' = cached \ {b}
        /\ calls' = [calls EXCEPT ![b] = 0]
    BY <1>10 DEF Expire, budgets
  <2>2. CASE a = b
    <3>1. calls'[a] = 0
      BY <1>0, <2>1, <2>2
    <3>2. IsFiniteSet(Workers) /\ Callers(a)' \subseteq Workers
      BY WorkersAssumption, FS_AddElement DEF Callers, Workers
    <3>3. Cardinality(Callers(a)') <= Cardinality(Workers) /\ Cardinality(Callers(a)') \in Nat
      BY <3>2, FS_Subset, FS_CardinalityType
    <3>4. Cardinality(Workers) <= Share' /\ Share' \in Nat /\ Cardinality(Workers) \in Nat
      BY ShareTyped
    <3> QED BY <1>0, <3>1, <3>3, <3>4
  <2>3. CASE a # b
    <3>1. Callers(a)' \subseteq Callers(a) /\ calls'[a] = calls[a]
      BY <1>0, <2>1, <2>3 DEF Callers, MayCall
    <3> QED BY <2>1, <3>1, CallsKept
  <2> QED BY <2>2, <2>3
<1>11. CASE Publish \/ UNCHANGED vars
  <2>1. UNCHANGED <<cached, job, calls, failures, lost, restarts>>
    BY <1>11 DEF Publish, vars, budgets
  <2>2. Callers(a)' \subseteq Callers(a)
    BY <2>1 DEF Callers, MayCall
  <2> QED BY <1>1, <2>1, <2>2
<1> QED BY <1>2, <1>3, <1>4, <1>5, <1>6, <1>7, <1>8, <1>9, <1>10, <1>11, NextCases

\* The cache does its work: until a summary expires each worker asks Groq for it once at
\* most, again after a restart, and once more for each exception.
THEOREM CallsHold == Spec => []CallsBounded
<1>1. Init => CallsInv
  <2> SUFFICES ASSUME Init, NEW a \in Articles
               PROVE  calls[a] + Cardinality(Callers(a)) <= Share + failures + lost
    BY DEF CallsInv
  <2>1. calls[a] = 0 /\ failures = 0 /\ lost = 0 /\ restarts = 0
    BY DEF Init
  <2>2. IsFiniteSet(Workers)
    BY WorkersAssumption, FS_AddElement DEF Workers
  <2>3. Cardinality(Callers(a)) <= Cardinality(Workers) /\ Cardinality(Callers(a)) \in Nat
        /\ Cardinality(Workers) \in Nat
    BY <2>2, FS_Subset, FS_CardinalityType DEF Callers
  <2>4. Share = Cardinality(Workers)
    BY <2>1, <2>3 DEF Share
  <2> QED BY <2>1, <2>3, <2>4
<1>2. TypeInv /\ TypeInv' /\ CallsInv /\ [Next]_vars => CallsInv'
  BY CallsStep
<1>3. TypeInv /\ CallsInv => CallsBounded
  <2> SUFFICES ASSUME TypeInv, CallsInv, NEW a \in Articles
               PROVE  calls[a] <= Cardinality(Workers) * (1 + restarts) + failures + lost
    BY DEF CallsBounded
  <2>1. calls[a] + Cardinality(Callers(a)) <= Share + failures + lost
    BY DEF CallsInv
  <2>2. IsFiniteSet(Workers) /\ Callers(a) \subseteq Workers
    BY WorkersAssumption, FS_AddElement DEF Callers, Workers
  <2>3. Cardinality(Callers(a)) \in Nat /\ Cardinality(Workers) \in Nat
    BY <2>2, FS_Subset, FS_CardinalityType
  <2>4. calls[a] \in Nat /\ failures \in Nat /\ lost \in Nat /\ restarts \in Nat
    BY DEF TypeInv, TypeOK
  <2>5. Share \in Int
    BY <2>3, <2>4 DEF Share
  <2>6. calls[a] <= Share + failures + lost
    BY <2>1, <2>3, <2>4, <2>5
  <2> QED BY <2>6 DEF Share
<1> QED BY <1>1, <1>2, <1>3, JobsHold, PTL DEF Spec
=============================================================================
