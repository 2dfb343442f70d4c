----------------------------- MODULE ChartProofs -----------------------------
(***************************************************************************)
(* Proofs about the rest of the page.  In the news panel, no article the   *)
(* server has on record is missing, the tabs agree and the charts mark the *)
(* news where they should; on the analytics page, the waterfall balances   *)
(* and the sections agree.  For any number of tickers, articles, ticks and *)
(* snapshots.  The facts about the lists that a filter leaves are shared   *)
(* with the dashboard's proofs.                                            *)
(***************************************************************************)
EXTENDS DashboardProofs, NewsPanel, Analytics, NaturalsInduction, WellFoundedInduction

-----------------------------------------------------------------------------
(* Induction: a property is no parameter of a lemma the provers take, so   *)
(* one shows that the set of its counterexamples is empty, since this set  *)
(* would have a least or a smallest member.                                *)

\* A set of naturals has a least member.
LEMMA Least ==
  ASSUME NEW T, T \subseteq Nat, T # {}
  PROVE  \E n \in T : \A m \in T : n <= m
<1>1. IsWellFoundedOn(OpToRel(<, Nat), Nat)
  BY NatLessThanWellFounded
<1>2. PICK n \in T : \A m \in T : <<m, n>> \notin OpToRel(<, Nat)
  BY <1>1, WFMin
<1>3. \A m \in T : ~(m < n)
  BY <1>2 DEF OpToRel
<1> QED
  BY <1>3

\* Of the sets of C, one has no other of them inside it.
LEMMA Smallest ==
  ASSUME NEW T, IsFiniteSet(T), NEW C, C \subseteq SUBSET T, C # {}
  PROVE  \E s \in C : \A u \in C : u \subseteq s => u = s
<1> DEFINE N == {Cardinality(s) : s \in C}
<1>1. \A s \in C : IsFiniteSet(s) /\ Cardinality(s) \in Nat
  BY FS_Subset, FS_CardinalityType
<1>2. N \subseteq Nat /\ N # {}
  BY <1>1
<1>3. PICK n \in N : \A m \in N : n <= m
  BY <1>2, Least
<1>4. PICK s \in C : Cardinality(s) = n
  OBVIOUS
<1>5. ASSUME NEW u \in C, u \subseteq s, u # s PROVE FALSE
  <2>1. Cardinality(u) < Cardinality(s)
    BY <1>1, <1>5, FS_Subset, FS_CardinalityType
  <2>2. Cardinality(u) \in N
    OBVIOUS
  <2> QED
    BY <1>1, <1>3, <1>4, <2>1, <2>2
<1> QED
  BY <1>5

-----------------------------------------------------------------------------
(* Lists that are filtered, concatenated or without duplicates.            *)

\* Nth counts upwards, and comes to the last position if that one is kept.
LEMMA NthOrder ==
  ASSUME NEW n \in Nat, NEW I, I \subseteq 1..n
  PROVE  /\ \A k, l \in 1..Cardinality(I) : k < l => Nth(I, k) < Nth(I, l)
         /\ n \in I => Cardinality(I) >= 1 /\ Nth(I, Cardinality(I)) = n
<1> DEFINE Upto(i) == {j \in I : j <= i}
           m == Cardinality(I)
<1>1. /\ m \in Nat
      /\ \A k \in 1..m : Nth(I, k) \in I
      /\ \A i \in I : \E k \in 1..m : Nth(I, k) = i
  <2>1. m \in 0..n
    BY NthFacts
  <2>2. m \in Nat
    BY <2>1
  <2> QED
    BY <2>2, NthFacts
<1>0. \A i \in I : i \in Nat /\ i <= n
  OBVIOUS
<1>2. IsFiniteSet(I)
  <2>1. IsFiniteSet(1..n)
    BY FS_Interval
  <2> QED
    BY <2>1, FS_Subset
<1>3. \A k \in 1..m : Cardinality(Upto(Nth(I, k))) = k
  BY NthFacts
<1> HIDE DEF m
<1>4. ASSUME NEW k \in 1..m, NEW l \in 1..m, k < l PROVE Nth(I, k) < Nth(I, l)
  <2>a. Nth(I, k) \in I /\ Nth(I, l) \in I
    BY <1>1
  <2>b. k \in Nat /\ l \in Nat
    BY <1>1
  <2>1. Nth(I, k) \in Nat /\ Nth(I, l) \in Nat /\ k \in Nat /\ l \in Nat
    BY <1>0, <2>a, <2>b
  <2>2. SUFFICES ASSUME Nth(I, l) <= Nth(I, k) PROVE FALSE
    BY <2>1
  <2>3. Upto(Nth(I, l)) \subseteq Upto(Nth(I, k))
    <3>1. ASSUME NEW j \in I, j <= Nth(I, l) PROVE j <= Nth(I, k)
      BY <1>0, <2>1, <2>2, <3>1
    <3> QED
      BY <3>1
  <2>4. IsFiniteSet(Upto(Nth(I, k)))
    BY <1>2, FS_Subset
  <2>5. Cardinality(Upto(Nth(I, l))) <= Cardinality(Upto(Nth(I, k)))
    BY <2>3, <2>4, FS_Subset
  <2> QED
    BY <1>3, <1>4, <2>1, <2>5
<1>5. ASSUME n \in I PROVE m >= 1 /\ Nth(I, m) = n
  <2>1. PICK k \in 1..m : Nth(I, k) = n
    BY <1>1, <1>5
  <2>2. m \in 1..m
    BY <1>1, <2>1
  <2>3. k < m => n < Nth(I, m)
    BY <1>4, <2>1, <2>2
  <2>4. Nth(I, m) \in I
    BY <1>1, <2>2
  <2>5. Nth(I, m) <= n /\ Nth(I, m) \in Nat
    BY <1>0, <2>4
  <2>6. k = m
    BY <1>1, <2>3, <2>5
  <2> QED
    BY <1>1, <2>1, <2>6
<1> QED
  BY <1>4, <1>5 DEF m

\* What is kept keeps its order; if the last element is kept it is the last.
LEMMA KeepLast ==
  ASSUME NEW S, NEW s \in Seq(S), NEW I, I \subseteq DOMAIN s, Len(s) \in I
  PROVE  Keep(s, I) # <<>> /\ Last(Keep(s, I)) = Last(s)
<1>1. Len(s) \in Nat /\ I \subseteq 1..Len(s)
  OBVIOUS
<1>2. Cardinality(I) >= 1 /\ Nth(I, Cardinality(I)) = Len(s) /\ Cardinality(I) \in Nat
  BY <1>1, NthOrder, NthFacts
<1>3. /\ Keep(s, I) \in Seq(S) /\ Len(Keep(s, I)) = Cardinality(I)
      /\ \A k \in 1..Cardinality(I) : Keep(s, I)[k] = s[Nth(I, k)]
  BY KeepFacts
<1>4. Keep(s, I)[Cardinality(I)] = s[Len(s)]
  BY <1>2, <1>3
<1> QED
  BY <1>2, <1>3, <1>4 DEF Last

\* Keep leaves the elements at the positions it is given, and no others.
LEMMA KeepRange ==
  ASSUME NEW S, NEW s \in Seq(S), NEW I, I \subseteq DOMAIN s
  PROVE  /\ Keep(s, I) \in Seq(S)
         /\ Range(Keep(s, I)) = {s[i] : i \in I}
<1>1. /\ Keep(s, I) \in Seq(S) /\ Len(Keep(s, I)) = Cardinality(I)
      /\ \A k \in 1..Cardinality(I) : Nth(I, k) \in I /\ Keep(s, I)[k] = s[Nth(I, k)]
      /\ \A i \in I : \E k \in 1..Cardinality(I) : Nth(I, k) = i
  BY KeepFacts
<1>2. DOMAIN Keep(s, I) = 1..Cardinality(I)
  BY <1>1
<1> HIDE DEF Keep, Nth
<1>3. ASSUME NEW i \in I PROVE s[i] \in Range(Keep(s, I))
  BY <1>1, <1>2 DEF Range
<1>4. ASSUME NEW x \in Range(Keep(s, I)) PROVE x \in {s[i] : i \in I}
  BY <1>1, <1>2 DEF Range
<1> QED
  BY <1>1, <1>3, <1>4

\* Distinct leaves each element of a list once.
LEMMA DistinctFacts ==
  ASSUME NEW S, NEW s \in Seq(S)
  PROVE  /\ Distinct(s) \in Seq(S)
         /\ Range(Distinct(s)) = Range(s)
         /\ IsInjective(Distinct(s))
<1> DEFINE I == {i \in DOMAIN s : \A j \in 1..(i - 1) : s[j] # s[i]}
<1>1. DOMAIN s = 1..Len(s) /\ Len(s) \in Nat
  OBVIOUS
<1>2. I \subseteq DOMAIN s
  OBVIOUS
<1>3. Distinct(s) = Keep(s, I)
  BY DEF Distinct
<1>4. Keep(s, I) \in Seq(S) /\ Range(Keep(s, I)) = {s[i] : i \in I}
  BY <1>2, KeepRange
<1>5. ASSUME NEW i \in DOMAIN s PROVE \E k \in I : s[k] = s[i]
  <2> DEFINE T == {k \in DOMAIN s : s[k] = s[i]}
  <2>1. T \subseteq Nat /\ T # {}
    BY <1>1
  <2>2. PICK k \in T : \A j \in T : k <= j
    BY <2>1, Least
  <2>3. \A j \in 1..(k - 1) : j \in DOMAIN s /\ ~(k <= j)
    BY <1>1
  <2>4. k \in I
    BY <2>2, <2>3
  <2> QED
    BY <2>4
<1>6. Range(s) = {s[i] : i \in I}
  BY <1>2, <1>5 DEF Range
<1>7. \A i, j \in I : s[i] = s[j] => i = j
  <2> SUFFICES ASSUME NEW i \in I, NEW j \in I, s[i] = s[j], i < j PROVE FALSE
    BY <1>1
  <2>1. i \in 1..(j - 1)
    BY <1>1
  <2> QED
    BY <2>1
<1>8. IsInjective(Keep(s, I))
  <2> HIDE DEF I
  <2>1. /\ Len(Keep(s, I)) = Cardinality(I)
        /\ \A k \in 1..Cardinality(I) : Nth(I, k) \in I /\ Keep(s, I)[k] = s[Nth(I, k)]
        /\ \A k, l \in 1..Cardinality(I) : Nth(I, k) = Nth(I, l) => k = l
    BY <1>2, KeepFacts
  <2>2. DOMAIN Keep(s, I) = 1..Cardinality(I)
    BY <1>4, <2>1
  <2> QED
    BY <1>7, <2>1, <2>2 DEF IsInjective
<1> QED
  BY <1>3, <1>4, <1>6, <1>8

\* The elements of two lists one after the other.
LEMMA ConcatRange ==
  ASSUME NEW S, NEW s \in Seq(S), NEW t \in Seq(S)
  PROVE  s \o t \in Seq(S) /\ Range(s \o t) = Range(s) \cup Range(t)
<1>1. /\ s \o t \in Seq(S) /\ Len(s \o t) = Len(s) + Len(t)
      /\ \A k \in 1..(Len(s) + Len(t)) :
           (s \o t)[k] = IF k <= Len(s) THEN s[k] ELSE t[k - Len(s)]
  BY ConcatProperties
<1>2. /\ DOMAIN s = 1..Len(s) /\ DOMAIN t = 1..Len(t) /\ Len(s) \in Nat /\ Len(t) \in Nat
      /\ DOMAIN (s \o t) = 1..(Len(s) + Len(t))
  BY <1>1
<1> DEFINE u == s \o t
<1> HIDE DEF u
<1>3. ASSUME NEW k \in 1..Len(s) PROVE s[k] \in Range(u)
  <2>1. k \in 1..(Len(s) + Len(t)) /\ k <= Len(s)
    BY <1>2
  <2> QED
    BY <1>1, <1>2, <2>1 DEF Range, u
<1>4. ASSUME NEW k \in 1..Len(t) PROVE t[k] \in Range(u)
  <2>1. k + Len(s) \in 1..(Len(s) + Len(t)) /\ ~(k + Len(s) <= Len(s)) /\ (k + Len(s)) - Len(s) = k
    BY <1>2
  <2> QED
    BY <1>1, <1>2, <2>1 DEF Range, u
<1>5. ASSUME NEW k \in DOMAIN u PROVE u[k] \in Range(s) \cup Range(t)
  <2>1. CASE k <= Len(s)
    <3>1. k \in DOMAIN s /\ u[k] = s[k]
      BY <1>1, <1>2, <2>1 DEF u
    <3> QED
      BY <3>1 DEF Range
  <2>2. CASE ~(k <= Len(s))
    <3>1. k - Len(s) \in DOMAIN t /\ u[k] = t[k - Len(s)]
      BY <1>1, <1>2, <2>2 DEF u
    <3> QED
      BY <3>1 DEF Range
  <2> QED
    BY <2>1, <2>2
<1>6. Range(u) \subseteq Range(s) \cup Range(t)
  BY <1>5 DEF Range
<1>7. Range(s) \subseteq Range(u) /\ Range(t) \subseteq Range(u)
  BY <1>2, <1>3, <1>4 DEF Range
<1> QED
  BY <1>1, <1>6, <1>7 DEF u

\* FlattenSeq is a loop: each turn appends a list to what the one before it gave.
LEMMA FlattenRange ==
  ASSUME NEW S, NEW seqs \in Seq(Seq(S))
  PROVE  /\ FlattenSeq(seqs) \in Seq(S)
         /\ Range(FlattenSeq(seqs)) = UNION {Range(seqs[i]) : i \in DOMAIN seqs}
<1> DEFINE n == Len(seqs)
           Turn(f, i) == IF i = 1 THEN seqs[i] ELSE f[i - 1] \o seqs[i]
           Loop(f, m) == f = [i \in 1..m |-> Turn(f, i)]
           Right(f, i) == f[i] \in Seq(S) /\ Range(f[i]) = UNION {Range(seqs[j]) : j \in 1..i}
<1>1. n \in Nat /\ DOMAIN seqs = 1..n /\ \A i \in 1..n : seqs[i] \in Seq(S)
  OBVIOUS
<1>2. \A m \in 0..n : \E f : Loop(f, m)
  <2> DEFINE T == {m \in 0..n : ~ \E f : Loop(f, m)}
  <2> HIDE DEF Loop
  <2> SUFFICES ASSUME T # {} PROVE FALSE
    OBVIOUS
  <2>1. T \subseteq Nat
    BY <1>1
  <2>2. PICK m \in T : \A k \in T : m <= k
    BY <2>1, Least
  <2>3. CASE m = 0
    <3>1. Loop([i \in 1..0 |-> 0], 0)
      BY DEF Loop
    <3> QED
      BY <2>3, <3>1
  <2>4. CASE m # 0
    <3>1. m - 1 \in 0..n /\ ~(m <= m - 1) /\ m \in Nat
      BY <1>1, <2>4
    <3>2. PICK f : Loop(f, m - 1)
      BY <2>2, <3>1
    <3> DEFINE g == [i \in 1..m |-> IF i < m THEN f[i] ELSE Turn(f, m)]
    <3>3. ASSUME NEW i \in 1..m PROVE g[i] = Turn(g, i)
      <4>1. CASE i < m
        <5>1. i \in 1..(m - 1)
          BY <3>1, <4>1
        <5>2. f[i] = Turn(f, i)
          BY <3>2, <5>1 DEF Loop
        <5>3. i # 1 => i - 1 \in 1..m /\ i - 1 < m
          BY <3>1, <4>1
        <5> QED
          BY <4>1, <5>2, <5>3
      <4>2. CASE ~(i < m)
        <5>1. i = m /\ (i # 1 => i - 1 \in 1..m /\ i - 1 < m)
          BY <3>1, <4>2
        <5> QED
          BY <4>2, <5>1
      <4> QED
        BY <4>1, <4>2
    <3>4. g = [i \in 1..m |-> g[i]]
      OBVIOUS
    <3> HIDE DEF g
    <3>5. [i \in 1..m |-> g[i]] = [i \in 1..m |-> Turn(g, i)]
      BY <3>3
    <3> HIDE DEF Turn
    <3>6. Loop(g, m)
      BY <3>4, <3>5 DEF Loop
    <3> QED
      BY <3>6
  <2> QED
    BY <2>3, <2>4
<1> DEFINE flatten == CHOOSE f : Loop(f, n)
<1>3. Loop(flatten, n)
  <2> HIDE DEF Loop
  <2>1. \E f : Loop(f, n)
    BY <1>1, <1>2
  <2> QED
    BY <2>1
<1>4. \A i \in 1..n : Right(flatten, i)
  <2> DEFINE T == {i \in 1..n : ~Right(flatten, i)}
  <2> SUFFICES ASSUME T # {} PROVE FALSE
    OBVIOUS
  <2>1. T \subseteq Nat
    BY <1>1
  <2>2. PICK i \in T : \A k \in T : i <= k
    BY <2>1, Least
  <2>3. flatten[i] = Turn(flatten, i) /\ seqs[i] \in Seq(S) /\ i \in 1..n
    <3> HIDE DEF flatten, Turn
    <3> QED
      BY <1>1, <1>3
  <2> HIDE DEF flatten
  <2>4. CASE i = 1
    <3>1. UNION {Range(seqs[j]) : j \in 1..i} = Range(seqs[i])
      BY <2>4
    <3> QED
      BY <2>3, <2>4, <3>1
  <2>5. CASE i # 1
    <3>1. i - 1 \in 1..n /\ ~(i <= i - 1) /\ 1..i = (1..(i - 1)) \cup {i}
      BY <1>1, <2>5
    <3>2. Right(flatten, i - 1)
      BY <2>2, <3>1
    <3>3. flatten[i] = flatten[i - 1] \o seqs[i]
      BY <2>3, <2>5
    <3>4. flatten[i] \in Seq(S) /\ Range(flatten[i]) = Range(flatten[i - 1]) \cup Range(seqs[i])
      BY <2>3, <3>2, <3>3, ConcatRange
    <3> DEFINE Upto(k) == UNION {Range(seqs[j]) : j \in 1..k}
    <3>5. Upto(i) = Upto(i - 1) \cup Range(seqs[i])
      BY <3>1, Zenon
    <3> HIDE DEF Upto
    <3>6. Range(flatten[i - 1]) = Upto(i - 1)
      BY <3>2 DEF Upto
    <3>7. Range(flatten[i]) = Upto(i)
      BY <3>4, <3>5, <3>6
    <3> QED
      BY <3>4, <3>7 DEF Upto
  <2> QED
    BY <2>4, <2>5
<1>5. CASE n = 0
  <2>1. seqs = <<>> /\ FlattenSeq(seqs) = seqs
    BY <1>5 DEF FlattenSeq
  <2>2. <<>> \in Seq(S) /\ Range(<<>>) = {} /\ DOMAIN seqs = {}
    BY <2>1 DEF Range
  <2> QED
    BY <2>1, <2>2
<1>6. CASE n # 0
  <2>1. FlattenSeq(seqs) = flatten[n]
    BY <1>6 DEF FlattenSeq
  <2>0. n \in 1..n
    BY <1>1, <1>6
  <2> HIDE DEF flatten, Right
  <2>2. Right(flatten, n)
    BY <1>4, <2>0
  <2> USE DEF Right
  <2> QED
    BY <1>1, <2>1, <2>2
<1> QED
  BY <1>5, <1>6

-----------------------------------------------------------------------------
(* The invariant of the news panel.                                        *)

Asks == [pc : {"idle", "sent", "picked"}, ticker : Tickers \cup {All}, before : Nat, items : Seq(Items)]

\* A request is for a ticker, and what it has picked is that ticker's.
Sound(asked) == /\ asked \in Asks
                /\ asked.pc # "idle" => asked.ticker \in Tickers
                /\ \A i \in DOMAIN asked.items : asked.items[i][1] = asked.ticker

AskRight == Sound(request) /\ Sound(abandoned) /\ loading = (request.pc # "idle")

LoadedRight == /\ loadedMore \in [Tickers -> Seq(Items)]
               /\ \A t \in Tickers : \A i \in DOMAIN loadedMore[t] : loadedMore[t][i][1] = t

ListsInv ==
  /\ clock \in 0..MaxClock /\ onRecord \subseteq Articles /\ gone \subseteq Items
  /\ items \in Seq(Items) /\ Len(items) <= MaxItems
  /\ selectedTicker \in Tickers \cup {All}
  /\ error \in {"none", "nothing older", "try again"}
  /\ AskRight /\ LoadedRight

\* What is on the page: live items and loaded ones.
Loaded == UNION {Range(loadedMore[t]) : t \in Tickers}
OnPage == Range(items) \cup Loaded

\* An article on record is on the page or gone.
RecordInv == \A a \in onRecord : \E t \in Tickers : <<t, a>> \in gone \cup OnPage

\* The live items of one ticker.
LEMMA NewsByTickerFacts ==
  ASSUME ListsInv, NEW t
  PROVE  /\ NewsByTicker(t) \in Seq(Items)
         /\ Range(NewsByTicker(t)) = {x \in Range(items) : x[1] = t}
<1> DEFINE I == {i \in DOMAIN items : items[i][1] = t}
<1>1. items \in Seq(Items) /\ I \subseteq DOMAIN items
  BY DEF ListsInv
<1>2. NewsByTicker(t) = Keep(items, I)
  BY DEF NewsByTicker
<1>3. Keep(items, I) \in Seq(Items) /\ Range(Keep(items, I)) = {items[i] : i \in I}
  BY <1>1, KeepRange
<1>4. {items[i] : i \in I} = {x \in Range(items) : x[1] = t}
  BY DEF Range
<1> QED
  BY <1>2, <1>3, <1>4

\* The lists of loaded items, in the order of the tickers, are all of them.
LEMMA LoadedFacts ==
  ASSUME ListsInv
  PROVE  LET all == FlattenSeq([i \in DOMAIN Order |-> loadedMore[Order[i]]])
         IN all \in Seq(Items) /\ Range(all) = Loaded
<1> DEFINE seqs == [i \in DOMAIN Order |-> loadedMore[Order[i]]]
<1>1. IsFiniteSet(Tickers) /\ loadedMore \in [Tickers -> Seq(Items)]
  BY PanelAssumption DEF ListsInv, LoadedRight
<1>2. Order \in Seq(Tickers) /\ \A t \in Tickers : \E k \in DOMAIN Order : Order[k] = t
  BY <1>1, SetToSeqFacts DEF Order
<1>3. DOMAIN Order = 1..Len(Order) /\ Len(Order) \in Nat /\ \A k \in DOMAIN Order : Order[k] \in Tickers
  BY <1>2
<1>4. seqs \in Seq(Seq(Items)) /\ DOMAIN seqs = DOMAIN Order
  <2>1. \A k \in 1..Len(Order) : loadedMore[Order[k]] \in Seq(Items)
    BY <1>1, <1>3
  <2>2. seqs = [k \in 1..Len(Order) |-> loadedMore[Order[k]]]
    BY <1>3
  <2> QED
    BY <1>3, <2>1, <2>2
<1>5. FlattenSeq(seqs) \in Seq(Items) /\ Range(FlattenSeq(seqs)) = UNION {Range(seqs[i]) : i \in DOMAIN seqs}
  <2> HIDE DEF seqs
  <2> QED
    BY <1>4, FlattenRange
<1>6. {Range(seqs[i]) : i \in DOMAIN seqs} = {Range(loadedMore[t]) : t \in Tickers}
  <2>1. ASSUME NEW i \in DOMAIN seqs PROVE \E t \in Tickers : seqs[i] = loadedMore[t]
    BY <1>3, <1>4
  <2>2. ASSUME NEW t \in Tickers PROVE \E i \in DOMAIN seqs : seqs[i] = loadedMore[t]
    BY <1>2, <1>4
  <2> HIDE DEF seqs
  <2> QED
    BY <2>1, <2>2
<1> QED
  BY <1>5, <1>6 DEF Loaded

\* What each tab lists.
LEMMA VisibleFacts ==
  ASSUME ListsInv
  PROVE  /\ \A tab \in Tickers \cup {All} : Visible(tab) \in Seq(Items) /\ IsInjective(Visible(tab))
         /\ Range(Visible(All)) = OnPage
         /\ \A t \in Tickers :
              Range(Visible(t)) = {x \in Range(items) : x[1] = t} \cup Range(loadedMore[t])
<1>1. Filtered(All) \in Seq(Items) /\ Range(Filtered(All)) = OnPage
  <2> DEFINE all == FlattenSeq([i \in DOMAIN Order |-> loadedMore[Order[i]]])
  <2>1. all \in Seq(Items) /\ Range(all) = Loaded
    BY LoadedFacts
  <2>2. Filtered(All) = items \o all
    BY DEF Filtered
  <2>3. items \in Seq(Items)
    BY DEF ListsInv
  <2> HIDE DEF all
  <2> QED
    BY <2>1, <2>2, <2>3, ConcatRange DEF OnPage
<1>2. ASSUME NEW t \in Tickers
      PROVE  /\ Filtered(t) \in Seq(Items)
             /\ Range(Filtered(t)) = {x \in Range(items) : x[1] = t} \cup Range(loadedMore[t])
  <2>1. t # All /\ loadedMore[t] \in Seq(Items)
    BY PanelAssumption DEF ListsInv, LoadedRight
  <2> QED
    BY <2>1, NewsByTickerFacts, ConcatRange DEF Filtered
<1>3. \A tab \in Tickers \cup {All} : Filtered(tab) \in Seq(Items)
  BY <1>1, <1>2
<1> QED
  BY <1>1, <1>2, <1>3, DistinctFacts DEF Visible

\* A list loaded for a ticker is about it.
LEMMA LoadedOwn ==
  ASSUME ListsInv
  PROVE  \A t \in Tickers : \A x \in Range(loadedMore[t]) : x[1] = t
BY DEF ListsInv, LoadedRight, Range

\* The tabs agree whatever the lists hold.
LEMMA TabsFollow == ListsInv => TabsAgree
<1> SUFFICES ASSUME ListsInv PROVE TabsAgree
  OBVIOUS
<1>1. Range(Visible(All)) = UNION {Range(Visible(t)) : t \in Tickers}
  <2>1. ASSUME NEW x \in OnPage PROVE \E t \in Tickers : x \in Range(Visible(t))
    <3>1. CASE x \in Range(items)
      <4>0. items \in Seq(Items) /\ \E i \in DOMAIN items : x = items[i]
        BY <3>1 DEF ListsInv, Range
      <4>1. x \in Items
        BY <4>0
      <4>2. x[1] \in Tickers
        BY <4>1 DEF Items
      <4> QED
        BY <3>1, <4>2, VisibleFacts
    <3>2. CASE x \in Loaded
      BY <3>2, VisibleFacts DEF Loaded
    <3> QED
      BY <2>1, <3>1, <3>2 DEF OnPage
  <2>2. ASSUME NEW t \in Tickers, NEW x \in Range(Visible(t)) PROVE x \in OnPage
    BY <2>2, VisibleFacts DEF OnPage, Loaded
  <2>3. Range(Visible(All)) = OnPage
    BY VisibleFacts
  <2> QED
    BY <2>1, <2>2, <2>3
<1>2. \A tab \in Tickers \cup {All} : IsInjective(Visible(tab))
  BY VisibleFacts
<1>3. ASSUME NEW t \in Tickers, NEW i \in DOMAIN Visible(t) PROVE Visible(t)[i][1] = t
  <2>1. Visible(t)[i] \in Range(Visible(t))
    BY DEF Range
  <2> QED
    BY <2>1, VisibleFacts, LoadedOwn
<1> QED
  BY <1>1, <1>2, <1>3 DEF TabsAgree

\* The elements of a list.
LEMMA RangeIn ==
  ASSUME NEW S, NEW s \in Seq(S)
  PROVE  Range(s) \subseteq S
BY DEF Range

\* A new item comes first; of the others, only those beyond MaxItems leave.
LEMMA PrependFacts ==
  ASSUME ListsInv, NEW x \in Items
  PROVE  /\ Prepend(x) \in Seq(Items) /\ Len(Prepend(x)) <= MaxItems
         /\ x \in Range(Prepend(x))
<1> DEFINE s == <<x>> \o items
           n == IF Len(s) < MaxItems THEN Len(s) ELSE MaxItems
<1>1. items \in Seq(Items) /\ MaxItems \in Nat /\ MaxItems # 0
  BY PanelAssumption DEF ListsInv
<1>2. /\ <<x>> \in Seq(Items) /\ Len(<<x>>) = 1 /\ <<x>>[1] = x
  OBVIOUS
<1>3. s \in Seq(Items) /\ Len(s) = 1 + Len(items) /\ s[1] = x
  <2>1. /\ s \in Seq(Items) /\ Len(s) = Len(<<x>>) + Len(items)
        /\ \A k \in 1..(Len(<<x>>) + Len(items)) :
             s[k] = IF k <= Len(<<x>>) THEN <<x>>[k] ELSE items[k - Len(<<x>>)]
    BY <1>1, <1>2, ConcatProperties
  <2>2. Len(items) \in Nat /\ 1 \in 1..(1 + Len(items))
    BY <1>1
  <2> QED
    BY <1>2, <2>1, <2>2
<1>4. Prepend(x) = SubSeq(s, 1, n)
  BY DEF Prepend
<1>5. n \in Nat /\ 1 <= n /\ n <= Len(s) /\ n <= MaxItems
  BY <1>1, <1>3
<1> HIDE DEF s, n
<1>6. \A k \in 1..n : s[k] \in Items
  BY <1>3, <1>5
<1>7. /\ SubSeq(s, 1, n) \in Seq(Items) /\ Len(SubSeq(s, 1, n)) = n
      /\ \A k \in 1..n : SubSeq(s, 1, n)[k] = s[k]
  BY <1>5, <1>6, SubSeqProperties
<1>8. 1 \in DOMAIN SubSeq(s, 1, n) /\ SubSeq(s, 1, n)[1] = x
  BY <1>3, <1>5, <1>7
<1> QED
  BY <1>4, <1>5, <1>7, <1>8 DEF Range

\* A broadcast puts its article on record, and on the page or among those gone.
LEMMA BroadcastKeeps ==
  ASSUME ListsInv, RecordInv, NEW t \in Tickers, NEW a \in Articles, Broadcast(t, a)
  PROVE  ListsInv' /\ RecordInv'
<1>1. <<t, a>> \in Items
  BY DEF Items
<1>2. /\ onRecord' = onRecord \cup {a}
      /\ UNCHANGED <<clock, request, abandoned, selectedTicker, loadedMore, loading, error>>
      /\ \/ items' = Prepend(<<t, a>>) /\ gone' = gone \cup (Range(items) \ Range(items'))
         \/ gone' = gone \cup {<<t, a>>} /\ UNCHANGED items
  BY DEF Broadcast, loadVars
<1>3. /\ items' \in Seq(Items) /\ Len(items') <= MaxItems
      /\ <<t, a>> \in gone' \cup Range(items')
      /\ gone \cup Range(items) \subseteq gone' \cup Range(items')
      /\ gone' \subseteq Items
  <2>1. Range(items) \subseteq Items /\ gone \subseteq Items /\ items \in Seq(Items) /\ Len(items) <= MaxItems
    BY RangeIn DEF ListsInv
  <2>2. CASE items' = Prepend(<<t, a>>) /\ gone' = gone \cup (Range(items) \ Range(items'))
    BY <1>1, <2>1, <2>2, PrependFacts
  <2>3. CASE gone' = gone \cup {<<t, a>>} /\ UNCHANGED items
    BY <1>1, <2>1, <2>3
  <2> QED
    BY <1>2, <2>2, <2>3
<1>4. ListsInv'
  BY <1>2, <1>3 DEF ListsInv, AskRight, Sound, LoadedRight
<1>5. Loaded' = Loaded
  BY <1>2 DEF Loaded
<1>6. RecordInv'
  BY <1>2, <1>3, <1>5 DEF RecordInv, OnPage
<1> QED
  BY <1>4, <1>6

\* The button asks for the ticker of its tab.
LEMMA LoadKeeps ==
  ASSUME ListsInv, RecordInv, HandleLoadMore
  PROVE  ListsInv' /\ RecordInv'
<1>1. /\ Screen.button = "enabled" /\ loading' = TRUE /\ error' = "none"
      /\ request' = [NoRequest EXCEPT !.pc = "sent", !.ticker = selectedTicker,
                        !.before = IF Screen.empty THEN 0 ELSE Last(Screen.list)[2]]
      /\ UNCHANGED <<clock, onRecord, gone, abandoned, items, selectedTicker, loadedMore>>
  BY DEF HandleLoadMore, recordVars
<1>2. selectedTicker # All /\ loading = FALSE
  <2>1. Screen.button = IF selectedTicker = All THEN "none" ELSE IF loading THEN "disabled" ELSE "enabled"
    BY DEF Screen
  <2>2. loading \in BOOLEAN
    BY DEF ListsInv, AskRight
  <2> QED
    BY <1>1, <2>1, <2>2
<1>3. selectedTicker \in Tickers
  BY <1>2 DEF ListsInv
<1> DEFINE before == IF Screen.empty THEN 0 ELSE Last(Screen.list)[2]
<1>4. before \in Nat
  <2>1. Screen.list = Visible(selectedTicker) /\ Screen.empty = (Visible(selectedTicker) = <<>>)
    BY DEF Screen
  <2>2. Visible(selectedTicker) \in Seq(Items)
    BY <1>3, VisibleFacts
  <2>3. CASE Visible(selectedTicker) = <<>>
    BY <2>1, <2>3
  <2>4. CASE Visible(selectedTicker) # <<>>
    <3>1. Last(Visible(selectedTicker)) \in Items
      BY <2>2, <2>4 DEF Last
    <3>2. Last(Visible(selectedTicker))[2] \in Nat
      <4>1. \A x \in Items : x[2] \in Articles
        BY DEF Items
      <4>2. Articles \subseteq 1..MaxClock
        BY PanelAssumption DEF Times
      <4>3. Last(Visible(selectedTicker))[2] \in 1..MaxClock
        BY <3>1, <4>1, <4>2
      <4> QED
        BY <4>3
    <3> QED
      BY <2>1, <2>4, <3>2
  <2> QED
    BY <2>3, <2>4
<1>5. request' = [pc |-> "sent", ticker |-> selectedTicker, before |-> before, items |-> <<>>]
  BY <1>1 DEF NoRequest
<1> HIDE DEF before
<1>6. AskRight'
  <2>1. request' \in Asks
    BY <1>3, <1>4, <1>5 DEF Asks
  <2>2. request'.pc = "sent" /\ request'.ticker = selectedTicker /\ DOMAIN request'.items = {}
    BY <1>5
  <2>3. loading' = (request'.pc # "idle")
    BY <1>1, <2>2
  <2>4. Sound(request')
    BY <1>3, <2>1, <2>2 DEF Sound
  <2>5. Sound(abandoned')
    BY <1>1 DEF ListsInv, AskRight
  <2> QED
    BY <2>3, <2>4, <2>5, Zenon DEF AskRight
<1>7. ListsInv'
  BY <1>1, <1>6 DEF ListsInv, LoadedRight
<1> QED
  BY <1>1, <1>7 DEF RecordInv, OnPage, Loaded

\* What the server picks for a request is the request's ticker's.
LEMMA PickedSound ==
  ASSUME ListsInv, NEW asked, Sound(asked), asked.pc = "sent"
  PROVE  Sound(Picked(asked)) /\ Picked(asked).pc = "picked"
<1> DEFINE fresh == Candidates(asked.ticker, asked.before) \ onRecord
           size == Cardinality(fresh)
           n == IF size < LoadLimit THEN size ELSE LoadLimit
           latest == [i \in 1..n |-> Nth(fresh, size + 1 - i)]
           picked == [i \in 1..n |-> <<asked.ticker, latest[i]>>]
<1>1. Picked(asked) = [asked EXCEPT !.pc = "picked", !.items = picked]
  BY DEF Picked
<1>2. asked \in Asks /\ asked.ticker \in Tickers
  BY DEF Sound
<1>3. fresh \subseteq Articles /\ fresh \subseteq 1..MaxClock /\ MaxClock \in Nat /\ LoadLimit \in Nat
  BY PanelAssumption DEF Candidates, Times
<1> HIDE DEF fresh
<1>4. size \in Nat /\ \A k \in 1..size : Nth(fresh, k) \in fresh
  <2>1. /\ Cardinality(fresh) \in 0..MaxClock
        /\ \A k \in 1..Cardinality(fresh) : Nth(fresh, k) \in fresh
    BY <1>3, NthFacts
  <2> QED
    BY <1>3, <2>1
<1>5. n \in Nat /\ \A i \in 1..n : size + 1 - i \in 1..size
  BY <1>3, <1>4
<1>6. \A i \in 1..n : latest[i] \in Articles
  BY <1>3, <1>4, <1>5
<1> HIDE DEF latest, n
<1>7. picked \in Seq(Items) /\ \A i \in DOMAIN picked : picked[i][1] = asked.ticker
  <2>1. \A i \in 1..n : <<asked.ticker, latest[i]>> \in Items
    BY <1>2, <1>6 DEF Items
  <2> QED
    BY <1>5, <2>1
<1> HIDE DEF picked
<1>8. /\ Picked(asked) \in Asks /\ Picked(asked).pc = "picked"
      /\ Picked(asked).ticker = asked.ticker /\ Picked(asked).items = picked
  BY <1>1, <1>2, <1>7 DEF Asks
<1> QED
  BY <1>2, <1>7, <1>8 DEF Sound

\* The server picks articles it does not have on record.
LEMMA PickKeeps ==
  ASSUME ListsInv, RecordInv, Pick
  PROVE  ListsInv' /\ RecordInv'
<1>1. /\ request.pc = "sent" /\ request' = Picked(request)
      /\ UNCHANGED <<clock, onRecord, gone, abandoned, items, selectedTicker, loadedMore, loading, error>>
  BY DEF Pick, recordVars, panelVars
<1>2. Sound(request) /\ Sound(abandoned) /\ loading = TRUE
  BY <1>1 DEF ListsInv, AskRight
<1>3. Sound(request') /\ request'.pc = "picked"
  BY <1>1, <1>2, PickedSound
<1>4. AskRight'
  BY <1>1, <1>2, <1>3 DEF AskRight
<1>5. ListsInv'
  BY <1>1, <1>4 DEF ListsInv, LoadedRight
<1> QED
  BY <1>1, <1>5 DEF RecordInv, OnPage, Loaded

\* It does so too for one whose page is gone.
LEMMA PickAbandonedKeeps ==
  ASSUME ListsInv, RecordInv, PickAbandoned
  PROVE  ListsInv' /\ RecordInv'
<1>1. /\ abandoned.pc = "sent" /\ abandoned' = Picked(abandoned)
      /\ UNCHANGED <<clock, onRecord, gone, request, items, selectedTicker, loadedMore, loading, error>>
  BY DEF PickAbandoned, recordVars, panelVars
<1>2. Sound(request) /\ Sound(abandoned) /\ loading = (request.pc # "idle")
  BY DEF ListsInv, AskRight
<1>3. Sound(abandoned')
  BY <1>1, <1>2, PickedSound
<1>4. AskRight'
  BY <1>1, <1>2, <1>3 DEF AskRight
<1>5. ListsInv'
  BY <1>1, <1>4 DEF ListsInv, LoadedRight
<1> QED
  BY <1>1, <1>5 DEF RecordInv, OnPage, Loaded

\* What a request has picked, item by item.
LEMMA PickedFacts ==
  ASSUME NEW asked, Sound(asked), asked.pc # "idle"
  PROVE  /\ asked.items \in Seq(Items) /\ Len(asked.items) \in Nat
         /\ DOMAIN asked.items = 1..Len(asked.items)
         /\ \A i \in DOMAIN asked.items :
              /\ asked.items[i] = <<asked.ticker, asked.items[i][2]>>
              /\ asked.items[i] \in Items /\ asked.items[i][2] \in Articles
         /\ asked.ticker \in Tickers
<1>1. /\ asked.items \in Seq(Items) /\ asked.ticker \in Tickers
      /\ \A i \in DOMAIN asked.items : asked.items[i][1] = asked.ticker
  BY DEF Sound, Asks
<1>2. \A i \in DOMAIN asked.items : asked.items[i] \in Items
  BY <1>1
<1> QED
  BY <1>1, <1>2 DEF Items

\* Nothing is asked.
LEMMA NothingSound == Sound(NoRequest) /\ NoRequest.pc = "idle"
<1>1. /\ NoRequest \in Asks /\ NoRequest.pc = "idle"
      /\ NoRequest.items = <<>> /\ DOMAIN NoRequest.items = {}
  BY DEF NoRequest, Asks
<1> QED
  BY <1>1 DEF Sound

\* No request, after one that was answered, failed or was left.
LEMMA IdleRight ==
  ASSUME request' = NoRequest, loading' = FALSE, Sound(abandoned')
  PROVE  AskRight'
BY NothingSound DEF AskRight

\* An answer adds what it brings to what was loaded for its ticker.
LEMMA AnswerKeeps ==
  ASSUME ListsInv, RecordInv, AnswerMore
  PROVE  ListsInv' /\ RecordInv'
<1> DEFINE q == request.items
           u == request.ticker
<1>1. /\ request.pc = "picked" /\ onRecord' = onRecord \cup Marked(Len(q))
      /\ IF q = <<>> THEN error' = "nothing older" /\ UNCHANGED loadedMore
         ELSE loadedMore' = [loadedMore EXCEPT ![u] = loadedMore[u] \o q] /\ UNCHANGED error
      /\ loading' = FALSE /\ request' = NoRequest
      /\ UNCHANGED <<clock, gone, abandoned, items, selectedTicker>>
  BY DEF AnswerMore
<1>2. /\ q \in Seq(Items) /\ Len(q) \in Nat /\ DOMAIN q = 1..Len(q) /\ u \in Tickers
      /\ \A i \in DOMAIN q : q[i] = <<u, q[i][2]>> /\ q[i] \in Items /\ q[i][2] \in Articles
  BY <1>1, PickedFacts DEF ListsInv, AskRight
<1>3. Marked(Len(q)) = {q[i][2] : i \in DOMAIN q}
  BY <1>2 DEF Marked
<1> HIDE DEF q, u
<1>4. /\ loadedMore \in [Tickers -> Seq(Items)]
      /\ \A t \in Tickers : \A i \in DOMAIN loadedMore[t] : loadedMore[t][i][1] = t
  BY DEF ListsInv, LoadedRight
<1>5. /\ loadedMore' \in [Tickers -> Seq(Items)]
      /\ \A t \in Tickers : Range(loadedMore'[t]) = Range(loadedMore[t]) \cup IF t = u THEN Range(q) ELSE {}
  <2>1. CASE q = <<>>
    <3>1. Range(q) = {}
      BY <2>1 DEF Range
    <3> QED
      BY <1>1, <1>4, <2>1, <3>1
  <2>2. CASE q # <<>>
    <3>1. loadedMore[u] \in Seq(Items)
      BY <1>2, <1>4
    <3>2. loadedMore[u] \o q \in Seq(Items) /\ Range(loadedMore[u] \o q) = Range(loadedMore[u]) \cup Range(q)
      BY <1>2, <3>1, ConcatRange
    <3>3. loadedMore' = [loadedMore EXCEPT ![u] = loadedMore[u] \o q]
      BY <1>1, <2>2
    <3> QED
      BY <1>2, <1>4, <3>2, <3>3
  <2> QED
    BY <2>1, <2>2
<1>6. LoadedRight'
  <2>1. ASSUME NEW t \in Tickers, NEW i \in DOMAIN loadedMore'[t] PROVE loadedMore'[t][i][1] = t
    <3>1. loadedMore'[t][i] \in Range(loadedMore'[t])
      BY DEF Range
    <3>2. \A x \in Range(loadedMore[t]) : x[1] = t
      BY LoadedOwn
    <3>3. \A x \in Range(q) : x[1] = u
      BY <1>2 DEF Range
    <3> QED
      BY <1>5, <3>1, <3>2, <3>3
  <2> QED
    BY <1>5, <2>1 DEF LoadedRight
<1>7. AskRight'
  <2>1. Sound(abandoned')
    BY <1>1 DEF ListsInv, AskRight
  <2> QED
    BY <1>1, <2>1, IdleRight
<1>8. ListsInv'
  BY <1>1, <1>2, <1>3, <1>6, <1>7 DEF ListsInv
<1>9. Loaded' = Loaded \cup Range(q)
  BY <1>2, <1>5 DEF Loaded
<1>10. RecordInv'
  <2>1. ASSUME NEW a \in onRecord PROVE \E t \in Tickers : <<t, a>> \in (gone \cup OnPage)'
    BY <1>1, <1>9 DEF RecordInv, OnPage
  <2>2. ASSUME NEW i \in DOMAIN q PROVE <<u, q[i][2]>> \in OnPage'
    BY <1>2, <1>9 DEF OnPage, Range
  <2> QED
    BY <1>1, <1>2, <1>3, <2>1, <2>2 DEF RecordInv
<1> QED
  BY <1>8, <1>10

\* What a request had summarised goes on record, and is gone.
LEMMA SummarisedGone ==
  ASSUME ListsInv, RecordInv, NEW asked, Sound(asked), asked.pc # "idle",
         NEW n \in 0..LoadLimit, n <= Len(asked.items),
         onRecord' = onRecord \cup {asked.items[i][2] : i \in 1..n},
         gone' = gone \cup {asked.items[i] : i \in 1..n},
         UNCHANGED <<items, loadedMore>>
  PROVE  onRecord' \subseteq Articles /\ gone' \subseteq Items /\ RecordInv'
<1> DEFINE q == asked.items
<1>1. /\ n <= Len(q) /\ onRecord' = onRecord \cup {q[i][2] : i \in 1..n}
      /\ gone' = gone \cup {q[i] : i \in 1..n}
      /\ UNCHANGED <<items, loadedMore>>
  OBVIOUS
<1>2. /\ Len(q) \in Nat /\ DOMAIN q = 1..Len(q) /\ asked.ticker \in Tickers
      /\ \A i \in DOMAIN q : /\ q[i] = <<asked.ticker, q[i][2]>>
                             /\ q[i] \in Items /\ q[i][2] \in Articles
  BY PickedFacts
<1> HIDE DEF q
<1>3. 1..n \subseteq DOMAIN q
  <2>0. LoadLimit \in Nat
    BY PanelAssumption
  <2>1. n \in Nat
    BY <2>0
  <2>3. Len(q) \in Nat
    BY <1>2
  <2>4. n <= Len(q)
    BY <1>1
  <2>2. DOMAIN q = 1..Len(q)
    BY <1>2
  <2> QED
    BY <2>1, <2>2, <2>3, <2>4
<1>4. onRecord' \subseteq Articles /\ gone' \subseteq Items
  BY <1>1, <1>2, <1>3 DEF ListsInv
<1>5. OnPage' = OnPage
  BY <1>1 DEF OnPage, Loaded
<1>6. \A i \in 1..n : q[i] = <<asked.ticker, q[i][2]>>
  BY <1>2, <1>3
<1>7. RecordInv'
  <2>1. ASSUME NEW a \in onRecord PROVE \E t \in Tickers : <<t, a>> \in (gone \cup OnPage)'
    BY <1>1, <1>5 DEF RecordInv
  <2>2. ASSUME NEW i \in 1..n PROVE <<asked.ticker, q[i][2]>> \in gone'
    BY <1>1, <1>6
  <2> QED
    BY <1>1, <1>2, <2>1, <2>2 DEF RecordInv
<1> QED
  BY <1>4, <1>7

\* A request fails.
LEMMA FailKeeps ==
  ASSUME ListsInv, RecordInv, NEW n \in 0..LoadLimit, Fail(n)
  PROVE  ListsInv' /\ RecordInv'
<1>1. /\ request.pc # "idle" /\ n <= Len(request.items)
      /\ onRecord' = onRecord \cup {request.items[i][2] : i \in 1..n}
      /\ gone' = gone \cup {request.items[i] : i \in 1..n}
      /\ error' = "try again" /\ loading' = FALSE /\ request' = NoRequest
      /\ UNCHANGED <<clock, abandoned, items, selectedTicker, loadedMore>>
  BY DEF Fail, Marked
<1>2. Sound(request) /\ Sound(abandoned')
  BY <1>1 DEF ListsInv, AskRight
<1>3. onRecord' \subseteq Articles /\ gone' \subseteq Items /\ RecordInv'
  BY <1>1, <1>2, SummarisedGone
<1>4. AskRight'
  BY <1>1, <1>2, IdleRight
<1>5. ListsInv'
  BY <1>1, <1>3, <1>4 DEF ListsInv, LoadedRight
<1> QED
  BY <1>3, <1>5

\* One ends that nobody waits for.
LEMMA AbandonedKeeps ==
  ASSUME ListsInv, RecordInv, NEW n \in 0..LoadLimit, AbandonedEnds(n)
  PROVE  ListsInv' /\ RecordInv'
<1>1. /\ abandoned.pc # "idle" /\ n <= Len(abandoned.items)
      /\ onRecord' = onRecord \cup {abandoned.items[i][2] : i \in 1..n}
      /\ gone' = gone \cup {abandoned.items[i] : i \in 1..n} /\ abandoned' = NoRequest
      /\ UNCHANGED <<clock, request, items, selectedTicker, loadedMore, loading, error>>
  BY DEF AbandonedEnds, panelVars
<1>2. Sound(request) /\ Sound(abandoned) /\ loading = (request.pc # "idle")
  BY DEF ListsInv, AskRight
<1>3. onRecord' \subseteq Articles /\ gone' \subseteq Items /\ RecordInv'
  BY <1>1, <1>2, SummarisedGone
<1>4. AskRight'
  BY <1>1, <1>2, NothingSound DEF AskRight
<1>5. ListsInv'
  BY <1>1, <1>3, <1>4 DEF ListsInv, LoadedRight
<1> QED
  BY <1>3, <1>5

\* What was on the page the user leaves is gone.
LEMMA LeaveKeeps ==
  ASSUME ListsInv, RecordInv, Leave
  PROVE  ListsInv' /\ RecordInv'
<1>1. /\ gone' = gone \cup Range(Visible(All))
      /\ abandoned' = IF request.pc = "idle" THEN abandoned ELSE request
      /\ items' = <<>> /\ selectedTicker' = All /\ loadedMore' = [t \in Tickers |-> <<>>]
      /\ loading' = FALSE /\ error' = "none" /\ request' = NoRequest
      /\ UNCHANGED <<clock, onRecord>>
  BY DEF Leave, NoLists
<1>2. Range(Visible(All)) = OnPage /\ Visible(All) \in Seq(Items)
  BY VisibleFacts
<1>3. Sound(abandoned')
  BY <1>1 DEF ListsInv, AskRight
<1>4. AskRight'
  BY <1>1, <1>3, IdleRight
<1>5. LoadedRight'
  BY <1>1 DEF LoadedRight
<1>6. gone' \subseteq Items
  BY <1>1, <1>2, RangeIn DEF ListsInv
<1>7. items' \in Seq(Items) /\ Len(items') <= MaxItems
  <2>1. MaxItems \in Nat
    BY PanelAssumption
  <2> QED
    BY <1>1, <2>1
<1>8. ListsInv'
  BY <1>1, <1>4, <1>5, <1>6, <1>7 DEF ListsInv
<1>9. RecordInv'
  BY <1>1, <1>2 DEF RecordInv
<1> QED
  BY <1>8, <1>9

\* The other steps leave the lists alone.
LEMMA OthersKeep ==
  ASSUME ListsInv, RecordInv, UNCHANGED <<onRecord, gone, loadVars, items, loadedMore, loading, error>>,
         clock' \in 0..MaxClock, selectedTicker' \in Tickers \cup {All}
  PROVE  ListsInv' /\ RecordInv'
<1>1. /\ onRecord' = onRecord /\ gone' = gone /\ request' = request /\ abandoned' = abandoned
      /\ items' = items /\ loadedMore' = loadedMore /\ loading' = loading /\ error' = error
  BY DEF loadVars
<1>2. AskRight'
  <2>1. AskRight
    BY DEF ListsInv
  <2> QED
    BY <1>1, <2>1, Zenon DEF AskRight
<1>3. ListsInv'
  BY <1>1, <1>2 DEF ListsInv, LoadedRight
<1>4. OnPage' = OnPage
  BY <1>1 DEF OnPage, Loaded
<1> QED
  BY <1>1, <1>3, <1>4 DEF RecordInv

LEMMA ListsNext == ListsInv /\ RecordInv /\ [PanelNext]_newsVars => ListsInv' /\ RecordInv'
<1> SUFFICES ASSUME ListsInv, RecordInv, [PanelNext]_newsVars PROVE ListsInv' /\ RecordInv'
  OBVIOUS
<1>1. clock \in 0..MaxClock /\ selectedTicker \in Tickers \cup {All} /\ MaxClock \in Nat
  BY PanelAssumption DEF ListsInv
<1>2. ASSUME NEW ticked \in TickSets, Elapse(ticked) PROVE ListsInv' /\ RecordInv'
  <2>1. clock' \in 0..MaxClock
    BY <1>1, <1>2 DEF Elapse
  <2>2. UNCHANGED <<onRecord, gone, loadVars, items, selectedTicker, loadedMore, loading, error>>
    BY <1>2 DEF Elapse, panelVars
  <2> QED
    BY <1>1, <2>1, <2>2, OthersKeep
<1>3. ASSUME NEW tab \in Tickers \cup {All}, SelectTab(tab) PROVE ListsInv' /\ RecordInv'
  BY <1>1, <1>3, OthersKeep DEF SelectTab, recordVars
<1>4. ASSUME \/ \E t \in Tickers : \E i \in DOMAIN Chart(t).markers : ClickMarker(t, i) \/ PressMarker(t, i)
             \/ \E t \in Tickers \cup {All} : HandlePointerDown(t)
             \/ HandleKeyDown \/ UNCHANGED newsVars
      PROVE  ListsInv' /\ RecordInv'
  <2>1. UNCHANGED <<recordVars, loadVars, panelVars>>
    BY <1>4 DEF ClickMarker, PressMarker, HandlePointerDown, HandleKeyDown, newsVars
  <2> QED
    BY <1>1, <2>1, OthersKeep DEF recordVars, panelVars
<1> QED
  BY <1>2, <1>3, <1>4, BroadcastKeeps, LoadKeeps, PickKeeps, AnswerKeeps, FailKeeps, LeaveKeeps,
     PickAbandonedKeeps, AbandonedKeeps DEF PanelNext

LEMMA ListsInit == PanelInit => ListsInv /\ RecordInv
<1> SUFFICES ASSUME PanelInit PROVE ListsInv /\ RecordInv
  OBVIOUS
<1>1. MaxClock \in Nat /\ MaxItems \in Nat
  BY PanelAssumption
<1>2. /\ clock = 0 /\ onRecord = {} /\ gone = {} /\ items = <<>> /\ selectedTicker = All
      /\ loadedMore = [t \in Tickers |-> <<>>] /\ error = "none"
  BY DEF PanelInit, Blank, NoLists
<1>3. AskRight
  BY NothingSound DEF PanelInit, Blank, AskRight
<1>4. LoadedRight
  BY <1>2 DEF LoadedRight
<1> QED
  BY <1>1, <1>2, <1>3, <1>4 DEF ListsInv, RecordInv

LEMMA ListsHold == PanelSpec => [](ListsInv /\ RecordInv)
<1> QED
  BY ListsInit, ListsNext, PTL DEF PanelSpec

\* Whatever is lost, fails or is pushed out, and however loaded and live articles overlap,
\* what the server will not send again is on the page or is one of those named gone.
THEOREM RecordHolds == PanelSpec => []RecordIsShown
<1>1. ListsInv /\ RecordInv => RecordIsShown
  <2> SUFFICES ASSUME ListsInv, RecordInv PROVE RecordIsShown
    OBVIOUS
  <2>1. Range(Visible(All)) = OnPage
    BY VisibleFacts
  <2> QED
    BY <2>1 DEF RecordIsShown, RecordInv
<1> QED
  BY <1>1, ListsHold, PTL

\* For any lists of live and loaded articles, the list of all news is the union of the
\* tickers' lists, without repetitions.
THEOREM TabsHold == PanelSpec => []TabsAgree
<1> QED
  BY TabsFollow, ListsHold, PTL

-----------------------------------------------------------------------------
(* The charts.                                                             *)

PricesTyped == /\ prices \in [Tickers -> Seq(Times)]
               /\ \A t \in Tickers : Len(prices[t]) <= MaxHistory

\* One popover by a click: the click's mousedown has closed the others.
PopoversRight ==
  /\ popover \in [Tickers -> [items : Seq(Items), at : {"nowhere", "pointer", "marker"}]]
  /\ \A t, u \in Tickers : popover[t].at = "pointer" /\ popover[u].at = "pointer" => t = u

ChartInv == PricesTyped /\ PopoversRight

\* The loop over the ticks ends with one that no tick is closer than.
LEMMA NearestFacts ==
  ASSUME NEW ticks \in Seq(Times), Len(ticks) >= 1, NEW at \in Times
  PROVE  /\ Nearest(ticks, at) \in DOMAIN ticks
         /\ \A j \in DOMAIN ticks :
              Distance(ticks[Nearest(ticks, at)], at) <= Distance(ticks[j], at)
<1> DEFINE n == Len(ticks)
           D(i) == Distance(ticks[i], at)
           Turn(f, i) == IF i = 0 THEN [index |-> 1, diff |-> MaxClock + 1]
                         ELSE IF Distance(ticks[i], at) < f[i - 1].diff
                         THEN [index |-> i, diff |-> Distance(ticks[i], at)]
                         ELSE f[i - 1]
           Loop(f, m) == f = [i \in 0..m |-> Turn(f, i)]
           Right(f, i) == /\ f[i].index \in 1..n /\ f[i].diff = D(f[i].index)
                          /\ \A j \in 1..i : f[i].diff <= D(j)
<1>1. /\ n \in Nat /\ n >= 1 /\ DOMAIN ticks = 1..n /\ MaxClock \in Nat
      /\ \A i \in 1..n : D(i) \in 0..MaxClock
  <2>1. n \in Nat /\ n >= 1 /\ DOMAIN ticks = 1..n /\ MaxClock \in Nat
    BY PanelAssumption
  <2>2. \A i \in 1..n : ticks[i] \in Times
    BY <2>1
  <2> QED
    BY <2>1, <2>2 DEF Distance, Times
<1>2. \A m \in 0..n : \E f : Loop(f, m)
  <2> DEFINE T == {m \in 0..n : ~ \E f : Loop(f, m)}
  <2> HIDE DEF Loop
  <2> SUFFICES ASSUME T # {} PROVE FALSE
    OBVIOUS
  <2>1. T \subseteq Nat
    BY <1>1
  <2>2. PICK m \in T : \A k \in T : m <= k
    BY <2>1, Least
  <2>3. CASE m = 0
    <3> DEFINE g == [i \in 0..0 |-> [index |-> 1, diff |-> MaxClock + 1]]
    <3>1. Loop(g, 0)
      <4>1. g = [i \in 0..0 |-> Turn(g, i)]
        OBVIOUS
      <4> QED
        BY <4>1 DEF Loop
    <3> QED
      BY <2>3, <3>1
  <2>4. CASE m # 0
    <3>1. m - 1 \in 0..n /\ ~(m <= m - 1) /\ m \in Nat /\ m >= 1
      BY <1>1, <2>4
    <3>2. PICK f : Loop(f, m - 1)
      BY <2>2, <3>1
    <3> DEFINE g == [i \in 0..m |-> IF i < m THEN f[i] ELSE Turn(f, m)]
    <3>3. ASSUME NEW i \in 0..m PROVE g[i] = Turn(g, i)
      <4>1. i # 0 => i - 1 \in 0..m /\ i - 1 < m /\ g[i - 1] = f[i - 1]
        BY <3>1
      <4>2. CASE i < m
        <5>1. i \in 0..(m - 1)
          BY <3>1, <4>2
        <5>2. f[i] = Turn(f, i)
          <6> HIDE DEF Turn
          <6> QED
            BY <3>2, <5>1 DEF Loop
        <5> QED
          BY <4>1, <4>2, <5>2
      <4>3. CASE ~(i < m)
        <5>1. i = m
          BY <3>1, <4>3
        <5> QED
          BY <4>1, <4>3, <5>1
      <4> QED
        BY <4>2, <4>3
    <3>4. g = [i \in 0..m |-> g[i]]
      OBVIOUS
    <3> HIDE DEF g
    <3>5. [i \in 0..m |-> g[i]] = [i \in 0..m |-> Turn(g, i)]
      BY <3>3
    <3> HIDE DEF Turn
    <3>6. Loop(g, m)
      BY <3>4, <3>5 DEF Loop
    <3> QED
      BY <3>6
  <2> QED
    BY <2>3, <2>4
<1> DEFINE best == CHOOSE f : Loop(f, n)
<1>3. Loop(best, n)
  <2> HIDE DEF Loop
  <2>1. \E f : Loop(f, n)
    BY <1>1, <1>2
  <2> QED
    BY <2>1
<1>4. \A i \in 0..n : best[i] = Turn(best, i)
  <2> HIDE DEF best, Turn
  <2> QED
    BY <1>3
<1>5. Nearest(ticks, at) = best[n].index
  BY DEF Nearest
<1> HIDE DEF best
<1>6. \A i \in 1..n : Right(best, i)
  <2> DEFINE T == {i \in 1..n : ~Right(best, i)}
  <2> SUFFICES ASSUME T # {} PROVE FALSE
    OBVIOUS
  <2>1. T \subseteq Nat
    BY <1>1
  <2>2. PICK i \in T : \A k \in T : i <= k
    BY <2>1, Least
  <2>3. /\ i \in 1..n /\ i \in 0..n /\ i - 1 \in 0..n /\ i # 0 /\ D(i) \in 0..MaxClock
        /\ best[i] = IF D(i) < best[i - 1].diff THEN [index |-> i, diff |-> D(i)] ELSE best[i - 1]
    <3>1. i \in 1..n /\ i \in 0..n /\ i - 1 \in 0..n /\ i # 0
      BY <1>1
    <3>2. D(i) \in 0..MaxClock
      BY <1>1, <3>1
    <3>3. best[i] = Turn(best, i)
      <4> HIDE DEF Turn
      <4> QED
        BY <1>4, <3>1
    <3> QED
      BY <3>1, <3>2, <3>3
  <2>4. CASE i = 1
    <3>1. best[0].diff = MaxClock + 1
      <4>1. 0 \in 0..n
        BY <1>1
      <4>2. best[0] = Turn(best, 0)
        <5> HIDE DEF Turn
        <5> QED
          BY <1>4, <4>1
      <4>3. best[0] = [index |-> 1, diff |-> MaxClock + 1]
        BY <4>2
      <4> QED
        BY <4>3
    <3>2. best[1] = [index |-> 1, diff |-> D(1)]
      BY <1>1, <2>3, <2>4, <3>1
    <3>3. Right(best, 1)
      BY <1>1, <3>2
    <3> QED
      BY <2>4, <3>3
  <2>5. CASE i # 1
    <3>1. i - 1 \in 1..n /\ ~(i <= i - 1)
      BY <1>1, <2>3, <2>5
    <3>2. Right(best, i - 1)
      BY <2>2, <3>1
    <3>3. \A j \in 1..i : j = i \/ j \in 1..(i - 1)
      BY <2>3
    <3>4. best[i - 1].diff \in 0..MaxClock
      BY <1>1, <3>2
    <3> HIDE DEF D, Turn, Loop
    <3>5. \A j \in 1..(i - 1) : D(j) \in 0..MaxClock
      BY <1>1, <3>1
    <3>6. Right(best, i)
      <4>1. CASE D(i) < best[i - 1].diff
        <5>1. best[i].index = i /\ best[i].diff = D(i)
          BY <2>3, <4>1
        <5>2. \A j \in 1..(i - 1) : D(i) <= D(j)
          BY <1>1, <2>3, <3>2, <3>4, <3>5, <4>1
        <5> QED
          BY <1>1, <2>3, <3>3, <5>1, <5>2
      <4>2. CASE ~(D(i) < best[i - 1].diff)
        <5>1. best[i] = best[i - 1] /\ best[i - 1].diff <= D(i)
          BY <1>1, <2>3, <3>4, <4>2
        <5> QED
          BY <3>2, <3>3, <5>1
      <4> QED
        BY <4>1, <4>2
    <3> QED
      BY <2>2, <3>6
  <2> QED
    BY <2>4, <2>5
<1>7. n \in 1..n
  BY <1>1
<1> HIDE DEF Right, n
<1>8. Right(best, n)
  BY <1>6, <1>7
<1> QED
  BY <1>1, <1>5, <1>8 DEF Right

\* The articles of news a chart marks: those published while it runs, give or take the pad.
Eligible(ticks, news) == {x \in Range(news) : x[2] >= Head(ticks) - Pad /\ x[2] <= Last(ticks) + Pad}

\* The markers are at the ticks nearest to an article, each with the articles it is nearest to.
LEMMA MarkersFacts ==
  ASSUME NEW ticks \in Seq(Times), Len(ticks) >= 1, NEW news \in Seq(Items)
  PROVE  LET markers == BuildMarkers(ticks, news)
             live == Eligible(ticks, news)
         IN /\ DOMAIN markers = {Nearest(ticks, x[2]) : x \in live}
            /\ \A i \in DOMAIN markers : /\ markers[i] \in Seq(Items)
                                         /\ Range(markers[i]) = {x \in live : Nearest(ticks, x[2]) = i}
<1> DEFINE markers == BuildMarkers(ticks, news)
           live == Eligible(ticks, news)
<1>1. CASE news = <<>>
  <2>1. markers = <<>> /\ Range(news) = {}
    BY <1>1 DEF BuildMarkers, Range
  <2>2. live = {} /\ DOMAIN markers = {}
    BY <2>1 DEF Eligible
  <2> HIDE DEF markers, live
  <2> QED
    BY <2>2 DEF markers, live
<1>2. CASE news # <<>>
  <2> DEFINE I == {k \in DOMAIN news : news[k][2] >= Head(ticks) - Pad /\ news[k][2] <= Last(ticks) + Pad}
             eligible == Keep(news, I)
             nearest == [k \in DOMAIN eligible |-> Nearest(ticks, eligible[k][2])]
             At(i) == {k \in DOMAIN eligible : nearest[k] = i}
  <2>1. ticks # <<>>
    OBVIOUS
  <2>2. markers = [i \in Range(nearest) |-> Keep(eligible, At(i))]
    BY <1>2, <2>1 DEF BuildMarkers
  <2>3. eligible \in Seq(Items) /\ Range(eligible) = {news[k] : k \in I}
    <3>1. I \subseteq DOMAIN news
      OBVIOUS
    <3> HIDE DEF I
    <3> QED
      BY <3>1, KeepRange
  <2>4. {news[k] : k \in I} = live
    BY DEF Eligible, Range
  <2> HIDE DEF I
  <2>5. Range(eligible) = live
    BY <2>3, <2>4
  <2> HIDE DEF eligible, live
  <2>6. Range(nearest) = {Nearest(ticks, x[2]) : x \in live}
    <3>1. Range(nearest) = {nearest[k] : k \in DOMAIN eligible}
      BY DEF Range
    <3>2. Range(eligible) = {eligible[k] : k \in DOMAIN eligible}
      BY DEF Range
    <3>3. \A k \in DOMAIN eligible : nearest[k] = Nearest(ticks, eligible[k][2])
      OBVIOUS
    <3> QED
      BY <2>5, <3>1, <3>2, <3>3
  <2>7. ASSUME NEW i
        PROVE  /\ Keep(eligible, At(i)) \in Seq(Items)
               /\ Range(Keep(eligible, At(i))) = {x \in live : Nearest(ticks, x[2]) = i}
    <3>1. At(i) \subseteq DOMAIN eligible
      OBVIOUS
    <3>2. {eligible[k] : k \in At(i)} = {x \in live : Nearest(ticks, x[2]) = i}
      <4>1. live = {eligible[k] : k \in DOMAIN eligible}
        BY <2>5 DEF Range
      <4> QED
        BY <4>1
    <3> HIDE DEF At
    <3>3. /\ Keep(eligible, At(i)) \in Seq(Items)
          /\ Range(Keep(eligible, At(i))) = {eligible[k] : k \in At(i)}
      BY <2>3, <3>1, KeepRange
    <3> QED
      BY <3>2, <3>3
  <2> HIDE DEF nearest, At
  <2>8. DOMAIN markers = Range(nearest) /\ \A i \in Range(nearest) : markers[i] = Keep(eligible, At(i))
    BY <2>2
  <2> HIDE DEF markers
  <2> QED
    BY <2>6, <2>7, <2>8 DEF markers, live
<1> QED
  BY <1>1, <1>2

\* The ends of the axis: the lowest and the highest price shown are among the prices shown.
LEMMA AxisFacts ==
  ASSUME NEW ticks \in Seq(Times), Len(ticks) >= 1
  PROVE  /\ \A i \in DOMAIN ticks : 2000 * PriceAt[ticks[i]] \in Domain(ticks).low..Domain(ticks).high
         /\ Domain(ticks).high - Domain(ticks).low >= 2 * PriceAt[Last(ticks)]
<1> DEFINE n == Len(ticks)
           price(i) == PriceAt[ticks[i]]
           shown == {PriceAt[ticks[i]] : i \in DOMAIN ticks}
           Top(k) == \E i \in 1..k : \A j \in 1..k : price(j) <= price(i)
<1>1. n \in Nat /\ n >= 1 /\ DOMAIN ticks = 1..n
  OBVIOUS
<1>2. \A i \in 1..n : price(i) \in Nat
  <2>1. \A i \in 1..n : ticks[i] \in Times
    BY <1>1
  <2> QED
    BY <2>1, PanelAssumption
<1>3. Last(ticks) = ticks[n] /\ n \in 1..n
  BY <1>1 DEF Last
<1> HIDE DEF n
<1>4. shown = {price(i) : i \in 1..n}
  BY <1>1
<1>5. \A k \in 1..n : Top(k)
  <2> DEFINE T == {k \in 1..n : ~Top(k)}
  <2> SUFFICES ASSUME T # {} PROVE FALSE
    OBVIOUS
  <2>1. T \subseteq Nat
    BY <1>1
  <2>2. PICK k \in T : \A l \in T : k <= l
    BY <2>1, Least
  <2> HIDE DEF price
  <2>3. CASE k = 1
    <3>1. \A j \in 1..1 : j = 1 /\ price(j) \in Nat
      BY <1>1, <1>2
    <3>2. Top(1)
      BY <3>1
    <3> QED
      BY <2>3, <3>2
  <2>4. CASE k # 1
    <3>1. k - 1 \in 1..n /\ ~(k <= k - 1) /\ \A j \in 1..k : j = k \/ j \in 1..(k - 1)
      BY <1>1, <2>4
    <3>2. PICK i \in 1..(k - 1) : \A j \in 1..(k - 1) : price(j) <= price(i)
      BY <2>2, <3>1
    <3>3. i \in 1..k /\ k \in 1..k /\ price(i) \in Nat /\ price(k) \in Nat /\ \A j \in 1..k : price(j) \in Nat
      <4>1. k \in 1..n
        OBVIOUS
      <4>2. i \in 1..k /\ k \in 1..k /\ \A j \in 1..k : j \in 1..n
        BY <1>1, <4>1
      <4> QED
        BY <1>2, <4>2
    <3>4. CASE price(i) <= price(k)
      <4>0. \A j \in 1..(k - 1) : j \in 1..k
        BY <1>1
      <4>1. \A j \in 1..(k - 1) : price(j) <= price(i) /\ price(j) \in Nat
        BY <3>2, <3>3, <4>0
      <4>2. ASSUME NEW j \in 1..(k - 1) PROVE price(j) <= price(k)
        <5>1. price(j) <= price(i) /\ price(j) \in Nat
          BY <4>1
        <5> QED
          BY <3>3, <3>4, <5>1
      <4>3. \A j \in 1..k : price(j) <= price(k)
        BY <3>1, <3>3, <4>2
      <4> QED
        BY <2>2, <3>3, <4>3
    <3>5. CASE price(k) <= price(i)
      <4>1. \A j \in 1..k : price(j) <= price(i)
        BY <3>1, <3>2, <3>3, <3>5
      <4> QED
        BY <2>2, <3>3, <4>1
    <3> QED
      BY <3>3, <3>4, <3>5
  <2> QED
    BY <2>3, <2>4
<1> HIDE DEF shown
<1>6. /\ Max(shown) \in shown /\ \A p \in shown : p <= Max(shown)
  <2> HIDE DEF price
  <2>1. PICK i \in 1..n : \A j \in 1..n : price(j) <= price(i)
    BY <1>3, <1>5
  <2>2. \E p \in shown : \A q \in shown : p >= q
    BY <1>2, <1>4, <2>1
  <2>3. Max(shown) \in shown /\ \A q \in shown : Max(shown) >= q
    BY <2>2 DEF Max
  <2>4. \A q \in shown : q \in Nat
    BY <1>2, <1>4
  <2> QED
    BY <2>3, <2>4
<1>7. /\ Min(shown) \in shown /\ \A p \in shown : Min(shown) <= p
  <2> HIDE DEF price
  <2>1. shown \subseteq Nat /\ price(n) \in shown
    BY <1>2, <1>3, <1>4
  <2>2. \E p \in shown : \A q \in shown : p <= q
    BY <2>1, Least
  <2> QED
    BY <2>2 DEF Min
<1>8. /\ Max(shown) \in Nat /\ Min(shown) \in Nat /\ price(n) \in Nat
      /\ \A i \in 1..n : price(i) \in Nat /\ Min(shown) <= price(i) /\ price(i) <= Max(shown)
  <2> HIDE DEF price
  <2> QED
    BY <1>2, <1>3, <1>4, <1>6, <1>7
<1> DEFINE max == Max(shown)
           min == Min(shown)
           slack == price(n) - 1000 * (max - min)
           pad == IF slack > 0 THEN slack ELSE 0
<1>9. Domain(ticks) = [low |-> 2000 * min - pad, high |-> 2000 * max + pad]
  BY <1>3 DEF Domain, shown
<1>10. Domain(ticks).low = 2000 * min - pad /\ Domain(ticks).high = 2000 * max + pad
  BY <1>9
<1> HIDE DEF price, max, min
<1>11. max \in Nat /\ min \in Nat /\ \A i \in 1..n : price(i) \in Nat /\ min <= price(i) /\ price(i) <= max
  BY <1>8 DEF max, min
<1>12. /\ slack \in Int /\ pad \in Nat /\ pad >= slack
  BY <1>8, <1>11
<1> HIDE DEF pad
<1>13. (2000 * max + pad) - (2000 * min - pad) >= 2 * price(n)
  BY <1>8, <1>11, <1>12
<1>14. \A i \in 1..n : 2000 * price(i) \in (2000 * min - pad)..(2000 * max + pad)
  BY <1>11, <1>12
<1> QED
  BY <1>1, <1>3, <1>10, <1>13, <1>14 DEF price

\* A tick is the last of its row, and the row keeps the last MaxHistory.
LEMMA ElapseKeeps ==
  ASSUME clock \in 0..MaxClock, ChartInv, NEW ticked, Elapse(ticked)
  PROVE  ChartInv'
<1>1. /\ clock < MaxClock /\ UNCHANGED popover
      /\ prices' = [t \in Tickers |->
           IF t \notin ticked THEN prices[t]
           ELSE LET s == Append(prices[t], clock + 1)
                IN SubSeq(s, IF Len(s) > MaxHistory THEN Len(s) - MaxHistory + 1 ELSE 1, Len(s))]
  BY DEF Elapse
<1>2. MaxClock \in Nat /\ MaxHistory \in Nat /\ MaxHistory # 0 /\ clock + 1 \in Times
  BY <1>1, PanelAssumption DEF Times
<1>3. \A t \in Tickers : prices'[t] \in Seq(Times) /\ Len(prices'[t]) <= MaxHistory
  <2> SUFFICES ASSUME NEW t \in Tickers
               PROVE  prices'[t] \in Seq(Times) /\ Len(prices'[t]) <= MaxHistory
    OBVIOUS
  <2>1. prices[t] \in Seq(Times) /\ Len(prices[t]) <= MaxHistory
    BY DEF ChartInv, PricesTyped
  <2>2. CASE t \notin ticked
    BY <1>1, <2>1, <2>2
  <2>3. CASE t \in ticked
    <3> DEFINE s == Append(prices[t], clock + 1)
               m == IF Len(s) > MaxHistory THEN Len(s) - MaxHistory + 1 ELSE 1
    <3>1. prices'[t] = SubSeq(s, m, Len(s))
      BY <1>1, <2>3
    <3>2. s \in Seq(Times) /\ Len(s) \in Nat /\ Len(s) >= 1
      BY <1>2, <2>1
    <3> HIDE DEF s
    <3>3. m \in Nat /\ 1 <= m /\ m <= Len(s) /\ Len(s) - m + 1 <= MaxHistory
      BY <1>2, <3>2
    <3> HIDE DEF m
    <3>4. \A k \in m..Len(s) : s[k] \in Times
      BY <3>2, <3>3
    <3>5. SubSeq(s, m, Len(s)) \in Seq(Times) /\ Len(SubSeq(s, m, Len(s))) = Len(s) - m + 1
      BY <3>2, <3>3, <3>4, SubSeqProperties
    <3> QED
      BY <3>1, <3>3, <3>5
  <2> QED
    BY <2>2, <2>3
<1>4. PricesTyped'
  BY <1>1, <1>3 DEF PricesTyped
<1> QED
  BY <1>1, <1>4 DEF ChartInv, PopoversRight

\* What a marker opens is live news.
LEMMA MarkerItems ==
  ASSUME ListsInv, PricesTyped, NEW t \in Tickers, NEW i \in DOMAIN Chart(t).markers
  PROVE  Chart(t).markers[i] \in Seq(Items)
<1>1. prices[t] \in Seq(Times) /\ NewsByTicker(t) \in Seq(Items)
  BY NewsByTickerFacts DEF PricesTyped
<1>2. CASE Len(prices[t]) < 2
  <2>1. Chart(t).markers = <<>>
    BY <1>2 DEF Chart, Dash
  <2> QED
    BY <2>1
<1>3. CASE ~(Len(prices[t]) < 2)
  <2>1. Chart(t).markers = BuildMarkers(prices[t], NewsByTicker(t)) /\ Len(prices[t]) >= 1
    BY <1>1, <1>3 DEF Chart
  <2> QED
    BY <1>1, <2>1, MarkersFacts
<1> QED
  BY <1>2, <1>3

\* Whatever is clicked or pressed, at most one popover is open by a click.
LEMMA PopoversKeep ==
  ASSUME ListsInv, ChartInv, UNCHANGED prices,
         \/ \E t \in Tickers : \E i \in DOMAIN Chart(t).markers : ClickMarker(t, i) \/ PressMarker(t, i)
         \/ \E t \in Tickers \cup {All} : HandlePointerDown(t)
         \/ HandleKeyDown
  PROVE  ChartInv'
<1>1. /\ popover \in [Tickers -> [items : Seq(Items), at : {"nowhere", "pointer", "marker"}]]
      /\ \A t, u \in Tickers : popover[t].at = "pointer" /\ popover[u].at = "pointer" => t = u
      /\ PricesTyped
  BY DEF ChartInv, PopoversRight
<1>2. Closed \in [items : Seq(Items), at : {"nowhere", "pointer", "marker"}] /\ Closed.at = "nowhere"
  BY DEF Closed
<1>3. ASSUME NEW t \in Tickers, NEW i \in DOMAIN Chart(t).markers, ClickMarker(t, i)
      PROVE  PopoversRight'
  <2> DEFINE open == [items |-> Chart(t).markers[i], at |-> "pointer"]
  <2>1. open \in [items : Seq(Items), at : {"nowhere", "pointer", "marker"}]
    BY <1>1, MarkerItems
  <2>2. popover' = [s \in Tickers |-> IF s = t THEN open ELSE Closed]
    BY <1>3 DEF ClickMarker
  <2> HIDE DEF open
  <2>3. popover' \in [Tickers -> [items : Seq(Items), at : {"nowhere", "pointer", "marker"}]]
    BY <1>2, <2>1, <2>2
  <2>4. \A s \in Tickers : popover'[s].at = "pointer" => s = t
    BY <1>2, <2>2
  <2> QED
    BY <2>3, <2>4 DEF PopoversRight
<1>4. ASSUME NEW t \in Tickers, NEW i \in DOMAIN Chart(t).markers, PressMarker(t, i)
      PROVE  PopoversRight'
  <2> DEFINE open == [items |-> Chart(t).markers[i], at |-> "marker"]
  <2>1. open \in [items : Seq(Items), at : {"nowhere", "pointer", "marker"}] /\ open.at = "marker"
    BY <1>1, MarkerItems
  <2>2. popover' = [popover EXCEPT ![t] = open]
    BY <1>4 DEF PressMarker
  <2> HIDE DEF open
  <2>3. popover' \in [Tickers -> [items : Seq(Items), at : {"nowhere", "pointer", "marker"}]]
    BY <1>1, <2>1, <2>2
  <2>4. \A s \in Tickers : popover'[s].at = "pointer" => popover[s].at = "pointer"
    BY <1>1, <2>1, <2>2
  <2> QED
    BY <1>1, <2>3, <2>4 DEF PopoversRight
<1>5. ASSUME NEW t \in Tickers \cup {All}, HandlePointerDown(t)
      PROVE  PopoversRight'
  <2>2. popover' = [s \in Tickers |-> IF s = t THEN popover[s] ELSE Closed]
    BY <1>5 DEF HandlePointerDown
  <2>3. popover' \in [Tickers -> [items : Seq(Items), at : {"nowhere", "pointer", "marker"}]]
    BY <1>1, <1>2, <2>2
  <2>4. \A s \in Tickers : popover'[s].at = "pointer" => popover[s].at = "pointer"
    BY <1>2, <2>2
  <2> QED
    BY <1>1, <2>3, <2>4 DEF PopoversRight
<1>6. ASSUME HandleKeyDown PROVE PopoversRight'
  <2>2. popover' = [s \in Tickers |-> Closed]
    BY <1>6 DEF HandleKeyDown, AllClosed
  <2>3. popover' \in [Tickers -> [items : Seq(Items), at : {"nowhere", "pointer", "marker"}]]
    BY <1>2, <2>2
  <2>4. \A s \in Tickers : popover'[s].at = "nowhere"
    BY <1>2, <2>2
  <2> QED
    BY <2>3, <2>4 DEF PopoversRight
<1>7. PricesTyped'
  BY <1>1 DEF PricesTyped
<1> QED
  BY <1>3, <1>4, <1>5, <1>6, <1>7 DEF ChartInv

\* No chart has a tick or a popover.
LEMMA NoCharts ==
  /\ NoLists \in [Tickers -> Seq(Times)] /\ \A t \in Tickers : Len(NoLists[t]) <= MaxHistory
  /\ AllClosed \in [Tickers -> [items : Seq(Items), at : {"nowhere", "pointer", "marker"}]]
  /\ \A t \in Tickers : AllClosed[t].at = "nowhere"
<1>1. MaxHistory \in Nat
  BY PanelAssumption
<1>2. Closed \in [items : Seq(Items), at : {"nowhere", "pointer", "marker"}] /\ Closed.at = "nowhere"
  BY DEF Closed
<1>3. NoLists \in [Tickers -> Seq(Times)] /\ \A t \in Tickers : Len(NoLists[t]) <= MaxHistory
  BY <1>1 DEF NoLists
<1> QED
  BY <1>2, <1>3 DEF AllClosed

LEMMA ChartInit == PanelInit => ChartInv
<1> SUFFICES ASSUME PanelInit PROVE ChartInv
  OBVIOUS
<1>1. prices = NoLists /\ popover = AllClosed
  BY DEF PanelInit, Blank
<1> QED
  BY <1>1, NoCharts DEF ChartInv, PricesTyped, PopoversRight

LEMMA ChartNext == ListsInv /\ ChartInv /\ [PanelNext]_newsVars => ChartInv'
<1> SUFFICES ASSUME ListsInv, ChartInv, [PanelNext]_newsVars PROVE ChartInv'
  OBVIOUS
<1>1. CASE UNCHANGED chartVars
  BY <1>1 DEF chartVars, ChartInv, PricesTyped, PopoversRight
<1>2. ASSUME NEW ticked \in TickSets, Elapse(ticked) PROVE ChartInv'
  BY <1>2, ElapseKeeps DEF ListsInv
<1>3. ASSUME \/ \E t \in Tickers : \E i \in DOMAIN Chart(t).markers : ClickMarker(t, i) \/ PressMarker(t, i)
             \/ \E t \in Tickers \cup {All} : HandlePointerDown(t)
             \/ HandleKeyDown
      PROVE  ChartInv'
  <2>1. UNCHANGED prices
    BY <1>3 DEF ClickMarker, PressMarker, HandlePointerDown, HandleKeyDown
  <2> QED
    BY <1>3, <2>1, PopoversKeep
<1>4. ASSUME \/ \E t \in Tickers, a \in Articles : Broadcast(t, a)
             \/ \E tab \in Tickers \cup {All} : SelectTab(tab)
             \/ HandleLoadMore \/ Pick \/ AnswerMore \/ \E n \in 0..LoadLimit : Fail(n)
             \/ PickAbandoned \/ \E n \in 0..LoadLimit : AbandonedEnds(n)
             \/ UNCHANGED newsVars
      PROVE  UNCHANGED chartVars
  BY <1>4 DEF Broadcast, SelectTab, HandleLoadMore, Pick, AnswerMore, Fail, PickAbandoned, AbandonedEnds, newsVars
<1>5. ASSUME Leave PROVE ChartInv'
  <2>1. prices' = NoLists /\ popover' = AllClosed
    BY <1>5 DEF Leave
  <2> QED
    BY <2>1, NoCharts DEF ChartInv, PricesTyped, PopoversRight
<1> QED
  BY <1>1, <1>2, <1>3, <1>4, <1>5 DEF PanelNext

LEMMA ChartsHold == PanelSpec => [](ListsInv /\ ChartInv)
<1>1. PanelSpec => []ChartInv
  <2>1. PanelInit => ListsInv /\ RecordInv /\ ChartInv
    BY ListsInit, ChartInit
  <2>2. (ListsInv /\ RecordInv /\ ChartInv) /\ [PanelNext]_newsVars => (ListsInv /\ RecordInv /\ ChartInv)'
    BY ListsNext, ChartNext
  <2> QED
    BY <2>1, <2>2, PTL DEF PanelSpec
<1> QED
  BY <1>1, ListsHold, PTL

\* One live article's marker.
LEMMA OneMarker ==
  ASSUME ListsInv, PricesTyped, NEW t \in Tickers, Len(prices[t]) >= 2, NEW x \in Range(items)
  PROVE  LET ticks == prices[t]
             markers == Chart(t).markers
         IN Cardinality({i \in DOMAIN markers : x \in Range(markers[i])}) =
              IF x[1] = t /\ x[2] \in (Head(ticks) - Pad)..(Last(ticks) + Pad) THEN 1 ELSE 0
<1> DEFINE ticks == prices[t]
           news == NewsByTicker(t)
           markers == BuildMarkers(ticks, news)
           live == Eligible(ticks, news)
           at == {i \in DOMAIN markers : x \in Range(markers[i])}
<1>1. /\ ticks \in Seq(Times) /\ Len(ticks) >= 1 /\ news \in Seq(Items)
      /\ Range(news) = {y \in Range(items) : y[1] = t}
  BY NewsByTickerFacts DEF PricesTyped
<1>2. Chart(t).markers = markers
  BY <1>1 DEF Chart
<1> HIDE DEF ticks, news
<1>3. /\ DOMAIN markers = {Nearest(ticks, y[2]) : y \in live}
      /\ \A i \in DOMAIN markers : Range(markers[i]) = {y \in live : Nearest(ticks, y[2]) = i}
  BY <1>1, MarkersFacts
<1>4. x[2] \in Int /\ Head(ticks) - Pad \in Int /\ Last(ticks) + Pad \in Int
  <2>1. x \in Items
    BY RangeIn DEF ListsInv
  <2>2. x[2] \in Times /\ Head(ticks) \in Times /\ Last(ticks) \in Times
    <3>1. x[2] \in Articles /\ Articles \subseteq Times
      BY <2>1, PanelAssumption DEF Items
    <3>2. Head(ticks) = ticks[1] /\ Last(ticks) = ticks[Len(ticks)] /\ Len(ticks) \in Nat
      BY <1>1 DEF Last
    <3> QED
      BY <1>1, <3>1, <3>2
  <2>3. Pad \in Nat /\ \A k \in Times : k \in Nat
    BY PanelAssumption DEF Times
  <2> QED
    BY <2>2, <2>3
<1>5. x \in live <=> x[1] = t /\ x[2] \in (Head(ticks) - Pad)..(Last(ticks) + Pad)
  BY <1>1, <1>4 DEF Eligible
<1> HIDE DEF live, markers
<1>6. CASE x \in live
  <2>1. at = {Nearest(ticks, x[2])}
    BY <1>3, <1>6
  <2>2. Cardinality(at) = 1
    BY <2>1, FS_Singleton
  <2> QED
    BY <1>2, <1>5, <1>6, <2>2 DEF ticks
<1>7. CASE x \notin live
  <2>1. at = {}
    BY <1>3, <1>7
  <2>2. Cardinality(at) = 0
    BY <2>1, FS_EmptySet
  <2> QED
    BY <1>2, <1>5, <1>7, <2>2 DEF ticks
<1> QED
  BY <1>6, <1>7

\* At every moment, for any prices, pads and articles: each live article of a chart's time
\* has one marker there, at a tick none is closer than; the line is inside the axis; and
\* clicks never leave two popovers open.
THEOREM ChartHolds == PanelSpec => []ChartRight
<1>1. ListsInv /\ ChartInv => ChartRight
  <2> SUFFICES ASSUME ListsInv, ChartInv PROVE ChartRight
    OBVIOUS
  <2>0. PricesTyped /\ PopoversRight
    BY DEF ChartInv
  <2>1. ASSUME NEW t \in Tickers, Len(prices[t]) >= 2
        PROVE  /\ \A i \in DOMAIN Chart(t).markers : \A x \in Range(Chart(t).markers[i]) :
                    \A j \in DOMAIN prices[t] :
                      Distance(prices[t][i], x[2]) <= Distance(prices[t][j], x[2])
               /\ \A i \in DOMAIN prices[t] :
                    2000 * PriceAt[prices[t][i]] \in Chart(t).domain.low..Chart(t).domain.high
               /\ Chart(t).domain.high - Chart(t).domain.low >= 2 * PriceAt[Last(prices[t])]
    <3> DEFINE ticks == prices[t]
               news == NewsByTicker(t)
    <3>1. /\ ticks \in Seq(Times) /\ Len(ticks) >= 1 /\ ~(Len(ticks) < 2) /\ news \in Seq(Items)
      BY <2>0, <2>1, NewsByTickerFacts DEF PricesTyped
    <3>2. Chart(t).markers = BuildMarkers(ticks, news) /\ Chart(t).domain = Domain(ticks)
      BY <3>1 DEF Chart
    <3> HIDE DEF ticks, news
    <3>3. /\ \A i \in DOMAIN ticks : 2000 * PriceAt[ticks[i]] \in Domain(ticks).low..Domain(ticks).high
          /\ Domain(ticks).high - Domain(ticks).low >= 2 * PriceAt[Last(ticks)]
      BY <3>1, AxisFacts
    <3>4. \A i \in DOMAIN BuildMarkers(ticks, news) :
            Range(BuildMarkers(ticks, news)[i]) = {y \in Eligible(ticks, news) : Nearest(ticks, y[2]) = i}
      BY <3>1, MarkersFacts
    <3>5. \A y \in Eligible(ticks, news) : y[2] \in Times
      <4>1. Range(news) \subseteq Items
        BY <3>1, RangeIn
      <4>2. \A y \in Items : y[2] \in Times
        BY PanelAssumption DEF Items
      <4> QED
        BY <4>1, <4>2 DEF Eligible
    <3>6. ASSUME NEW i \in DOMAIN BuildMarkers(ticks, news), NEW x \in Range(BuildMarkers(ticks, news)[i])
          PROVE  \A j \in DOMAIN ticks : Distance(ticks[i], x[2]) <= Distance(ticks[j], x[2])
      <4>1. x[2] \in Times /\ Nearest(ticks, x[2]) = i
        BY <3>4, <3>5
      <4> QED
        BY <3>1, <4>1, NearestFacts
    <3> QED
      BY <3>2, <3>3, <3>6 DEF ticks
  <2>2. Cardinality({t \in Tickers : popover[t].at = "pointer"}) <= 1
    <3> DEFINE open == {t \in Tickers : popover[t].at = "pointer"}
    <3>1. \A t, u \in open : t = u
      BY <2>0 DEF PopoversRight
    <3>2. CASE open = {}
      BY <3>2, FS_EmptySet
    <3>3. CASE open # {}
      <4>1. PICK t : open = {t}
        BY <3>1, <3>3
      <4>2. Cardinality(open) = 1
        BY <4>1, FS_Singleton
      <4> QED
        BY <4>2
    <3> QED
      BY <3>2, <3>3
  <2> QED
    BY <2>0, <2>1, <2>2, OneMarker DEF ChartRight
<1> QED
  BY <1>1, ChartsHold, PTL

\* The page's variables keep their types.
THEOREM PanelTypeCorrect == PanelSpec => []PanelTypeOK
<1>1. ListsInv /\ ChartInv => PanelTypeOK
  <2> SUFFICES ASSUME ListsInv, ChartInv PROVE PanelTypeOK
    OBVIOUS
  <2>1. ASSUME NEW S, NEW s \in Seq(S), NEW n \in Nat, Len(s) <= n PROVE s \in BoundedSeq(S, n)
    <3>1. Len(s) \in 0..n /\ s \in [1..Len(s) -> S]
      BY <2>1
    <3> QED
      BY <3>1 DEF BoundedSeq, SeqOf
  <2>2. MaxItems \in Nat /\ MaxHistory \in Nat
    BY PanelAssumption
  <2>3. items \in BoundedSeq(Items, MaxItems)
    BY <2>1, <2>2 DEF ListsInv
  <2>4. prices \in [Tickers -> BoundedSeq(Times, MaxHistory)]
    <3>1. \A t \in Tickers : prices[t] \in BoundedSeq(Times, MaxHistory)
      BY <2>1, <2>2 DEF ChartInv, PricesTyped
    <3>2. prices = [t \in Tickers |-> prices[t]]
      BY DEF ChartInv, PricesTyped
    <3> QED
      BY <3>1, <3>2
  <2>5. \A t \in Tickers : popover[t].items \in Seq(Items)
    BY DEF ChartInv, PopoversRight
  <2>6. loading = (request.pc # "idle")
    BY DEF ListsInv, AskRight
  <2> QED
    BY <2>3, <2>4, <2>5, <2>6 DEF PanelTypeOK, ListsInv
<1> QED
  BY <1>1, ChartsHold, PTL

-----------------------------------------------------------------------------
(* Sums over finite sets.                                                  *)

\* The loop of a sum over T takes some element off each set.
Some(s) == CHOOSE x \in s : TRUE
SumLoop(h, f, T) ==
  h = [s \in SUBSET T |-> IF s = {} THEN 0 ELSE f[Some(s)] + h[s \ {Some(s)}]]

LEMMA SumLoopExists ==
  ASSUME NEW T, IsFiniteSet(T), NEW f
  PROVE  \E h : SumLoop(h, f, T)
<1> DEFINE Layer(m) == {s \in SUBSET T : Cardinality(s) <= m}
           Turn(h, s) == IF s = {} THEN 0 ELSE f[Some(s)] + h[s \ {Some(s)}]
           Loop(h, m) == h = [s \in Layer(m) |-> Turn(h, s)]
           C == {m \in Nat : ~ \E h : Loop(h, m)}
<1>1. \A s \in SUBSET T : IsFiniteSet(s) /\ Cardinality(s) \in Nat
  BY FS_Subset, FS_CardinalityType
<1>2. \A s \in SUBSET T : s # {} => /\ Some(s) \in s
                                    /\ Cardinality(s \ {Some(s)}) = Cardinality(s) - 1
  <2> SUFFICES ASSUME NEW s \in SUBSET T, s # {}
               PROVE  Some(s) \in s /\ Cardinality(s \ {Some(s)}) = Cardinality(s) - 1
    OBVIOUS
  <2>1. Some(s) \in s
    BY DEF Some
  <2> QED
    BY <1>1, <2>1, FS_RemoveElement
<1>3. C = {}
  <2> HIDE DEF Loop
  <2> SUFFICES ASSUME C # {} PROVE FALSE
    OBVIOUS
  <2>1. PICK m \in C : \A n \in C : m <= n
    BY Least
  <2>2. CASE m = 0
    <3> DEFINE h == [s \in Layer(0) |-> 0]
    <3>1. \A s \in Layer(0) : s = {}
      BY <1>1, FS_EmptySet
    <3>2. Loop(h, 0)
      <4>1. \A s \in Layer(0) : Turn(h, s) = 0
        BY <3>1
      <4> HIDE DEF Turn
      <4> QED
        BY <4>1 DEF Loop
    <3> QED
      BY <2>2, <3>2
  <2>3. CASE m # 0
    <3>1. m - 1 \in Nat /\ ~(m <= m - 1) /\ m \in Nat
      BY <2>3
    <3>2. PICK h : Loop(h, m - 1)
      BY <2>1, <3>1
    <3> DEFINE g == [s \in Layer(m) |-> Turn(h, s)]
    <3>3. \A s \in Layer(m - 1) : s \in Layer(m) /\ g[s] = h[s]
      <4> SUFFICES ASSUME NEW s \in Layer(m - 1) PROVE s \in Layer(m) /\ g[s] = h[s]
        OBVIOUS
      <4>1. s \in Layer(m)
        BY <1>1, <3>1
      <4>2. h[s] = Turn(h, s)
        <5> HIDE DEF Turn, Layer
        <5> QED
          BY <3>2 DEF Loop
      <4> HIDE DEF Turn, Layer
      <4> QED
        BY <4>1, <4>2
    <3>4. ASSUME NEW s \in Layer(m) PROVE Turn(h, s) = Turn(g, s)
      <4>1. CASE s = {}
        BY <4>1
      <4>2. CASE s # {}
        <5>1. s \ {Some(s)} \in Layer(m - 1)
          BY <1>1, <1>2, <3>1, <4>2
        <5>2. g[s \ {Some(s)}] = h[s \ {Some(s)}]
          BY <3>3, <5>1
        <5> HIDE DEF g
        <5> QED
          BY <4>2, <5>2
      <4> QED
        BY <4>1, <4>2
    <3>5. Loop(g, m)
      <4> DEFINE k == g
      <4>1. k = [s \in Layer(m) |-> Turn(h, s)]
        OBVIOUS
      <4>2. \A s \in Layer(m) : Turn(h, s) = Turn(k, s)
        BY <3>4
      <4> HIDE DEF k, Turn, Layer
      <4>3. Loop(k, m)
        BY <4>1, <4>2 DEF Loop
      <4> QED
        BY <4>3 DEF k
    <3> QED
      BY <2>1, <3>5
  <2> QED
    BY <2>2, <2>3
<1>4. Cardinality(T) \in Nat /\ Layer(Cardinality(T)) = SUBSET T
  <2>1. \A s \in SUBSET T : Cardinality(s) <= Cardinality(T)
    BY FS_Subset
  <2> QED
    BY <1>1, <2>1
<1>5. PICK h : Loop(h, Cardinality(T))
  BY <1>3, <1>4
<1>6. h = [s \in SUBSET T |-> Turn(h, s)]
  <2> HIDE DEF Turn, Layer
  <2> QED
    BY <1>4, <1>5
<1> QED
  BY <1>6 DEF SumLoop

LEMMA SumIsLoop ==
  ASSUME NEW T, IsFiniteSet(T), NEW f
  PROVE  \E h : SumLoop(h, f, T) /\ SumFunctionOnSet(f, T) = h[T]
<1> DEFINE h == CHOOSE h : SumLoop(h, f, T)
<1>1. SumLoop(h, f, T)
  BY SumLoopExists
<1>2. SumFunctionOnSet(f, T) = h[T]
  BY DEF SumFunctionOnSet, FoldFunctionOnSet, MapThenFoldSet, SumLoop, Some
<1> QED
  BY <1>1, <1>2

\* A sum gives up any of its elements, whatever the order in which the loop takes them.
LEMMA LoopRemove ==
  ASSUME NEW T, IsFiniteSet(T), NEW f, \A x \in T : f[x] \in Int, NEW h, SumLoop(h, f, T)
  PROVE  /\ h[{}] = 0 /\ \A s \in SUBSET T : h[s] \in Int
         /\ \A s \in SUBSET T : \A x \in s : h[s] = f[x] + h[s \ {x}]
<1>1. \A s \in SUBSET T : h[s] = IF s = {} THEN 0 ELSE f[Some(s)] + h[s \ {Some(s)}]
  BY DEF SumLoop
<1>2. \A s \in SUBSET T : s # {} => Some(s) \in s
  BY DEF Some
<1>3. h[{}] = 0
  BY <1>1
<1>4. \A s \in SUBSET T : h[s] \in Int
  <2> DEFINE C == {s \in SUBSET T : h[s] \notin Int}
  <2> SUFFICES ASSUME C # {} PROVE FALSE
    OBVIOUS
  <2>0. C \subseteq SUBSET T
    OBVIOUS
  <2>1. PICK s \in C : \A u \in C : u \subseteq s => u = s
    <3> HIDE DEF C
    <3> QED
      BY <2>0, Smallest
  <2>2. s # {}
    BY <1>3
  <2>3. Some(s) \in s /\ s \ {Some(s)} \in SUBSET T /\ s \ {Some(s)} # s
    BY <1>2, <2>2
  <2>4. h[s \ {Some(s)}] \in Int
    BY <2>1, <2>3
  <2>5. h[s] = f[Some(s)] + h[s \ {Some(s)}] /\ f[Some(s)] \in Int
    BY <1>1, <2>2, <2>3
  <2> QED
    BY <2>4, <2>5
<1>5. \A s \in SUBSET T : \A x \in s : h[s] = f[x] + h[s \ {x}]
  <2> DEFINE C == {s \in SUBSET T : \E x \in s : h[s] # f[x] + h[s \ {x}]}
  <2> SUFFICES ASSUME C # {} PROVE FALSE
    OBVIOUS
  <2>0. C \subseteq SUBSET T
    OBVIOUS
  <2>1. PICK s \in C : \A u \in C : u \subseteq s => u = s
    <3> HIDE DEF C
    <3> QED
      BY <2>0, Smallest
  <2>2. PICK x \in s : h[s] # f[x] + h[s \ {x}]
    OBVIOUS
  <2> DEFINE y == Some(s)
  <2>3. y \in s /\ h[s] = f[y] + h[s \ {y}]
    BY <1>1, <1>2
  <2>4. x # y
    BY <2>2, <2>3
  <2> HIDE DEF y
  <2>5. s \ {x} \notin C /\ s \ {y} \notin C /\ s \ {x} \in SUBSET T /\ s \ {y} \in SUBSET T
    BY <2>1, <2>3
  <2>6. h[s \ {y}] = f[x] + h[(s \ {y}) \ {x}]
    BY <2>4, <2>5
  <2>7. h[s \ {x}] = f[y] + h[(s \ {x}) \ {y}]
    BY <2>3, <2>4, <2>5
  <2>8. (s \ {x}) \ {y} = (s \ {y}) \ {x} /\ (s \ {x}) \ {y} \in SUBSET T
    OBVIOUS
  <2>9. f[x] \in Int /\ f[y] \in Int /\ h[(s \ {x}) \ {y}] \in Int
    BY <1>4, <2>3, <2>8
  <2>10. f[y] + h[s \ {y}] = f[x] + h[s \ {x}]
    <3>1. f[y] + (f[x] + h[(s \ {x}) \ {y}]) = f[x] + (f[y] + h[(s \ {x}) \ {y}])
      BY <2>9
    <3> QED
      BY <2>6, <2>7, <2>8, <3>1
  <2> QED
    BY <2>2, <2>3, <2>10
<1> QED
  BY <1>3, <1>4, <1>5

\* Two loops agree on the sets where they add up the same.
LEMMA LoopSame ==
  ASSUME NEW T, IsFiniteSet(T), NEW f, NEW h, SumLoop(h, f, T),
         NEW U, U \subseteq T, NEW e, NEW g, SumLoop(g, e, U), \A x \in U : e[x] = f[x]
  PROVE  h[U] = g[U]
<1> DEFINE C == {s \in SUBSET U : h[s] # g[s]}
<1> SUFFICES ASSUME C # {} PROVE FALSE
  OBVIOUS
<1>1. IsFiniteSet(U)
  BY FS_Subset
<1>a. C \subseteq SUBSET U
  OBVIOUS
<1>2. PICK s \in C : \A u \in C : u \subseteq s => u = s
  <2> HIDE DEF C
  <2> QED
    BY <1>1, <1>a, Smallest
<1>3. /\ h[s] = IF s = {} THEN 0 ELSE f[Some(s)] + h[s \ {Some(s)}]
      /\ g[s] = IF s = {} THEN 0 ELSE e[Some(s)] + g[s \ {Some(s)}]
  BY DEF SumLoop
<1>4. CASE s = {}
  BY <1>3, <1>4
<1>5. CASE s # {}
  <2>1. Some(s) \in s
    BY <1>5 DEF Some
  <2>2. s \ {Some(s)} \in SUBSET U /\ s \ {Some(s)} \notin C
    BY <1>2, <2>1
  <2>3. h[s \ {Some(s)}] = g[s \ {Some(s)}] /\ e[Some(s)] = f[Some(s)]
    BY <2>1, <2>2
  <2>4. h[s] = g[s]
    BY <1>3, <1>5, <2>3
  <2> QED
    BY <2>4
<1> QED
  BY <1>4, <1>5

LEMMA SumFacts ==
  ASSUME NEW T, IsFiniteSet(T), NEW f, \A x \in T : f[x] \in Int
  PROVE  /\ SumFunctionOnSet(f, T) \in Int
         /\ T = {} => SumFunctionOnSet(f, T) = 0
         /\ \A x \in T : SumFunctionOnSet(f, T) = f[x] + SumFunctionOnSet(f, T \ {x})
<1>1. PICK h : SumLoop(h, f, T) /\ SumFunctionOnSet(f, T) = h[T]
  BY SumIsLoop
<1>2. /\ h[{}] = 0 /\ \A s \in SUBSET T : h[s] \in Int
      /\ \A s \in SUBSET T : \A x \in s : h[s] = f[x] + h[s \ {x}]
  BY <1>1, LoopRemove
<1>3. ASSUME NEW x \in T PROVE SumFunctionOnSet(f, T \ {x}) = h[T \ {x}]
  <2>1. IsFiniteSet(T \ {x}) /\ T \ {x} \subseteq T
    BY FS_Subset
  <2>2. PICK g : SumLoop(g, f, T \ {x}) /\ SumFunctionOnSet(f, T \ {x}) = g[T \ {x}]
    BY <2>1, SumIsLoop
  <2>3. h[T \ {x}] = g[T \ {x}]
    BY <1>1, <2>1, <2>2, LoopSame
  <2> QED
    BY <2>2, <2>3
<1>4. T \in SUBSET T
  OBVIOUS
<1> QED
  BY <1>1, <1>2, <1>3, <1>4

\* A sum is about what it adds up.
LEMMA SumSame ==
  ASSUME NEW T, IsFiniteSet(T), NEW f, NEW e, \A x \in T : e[x] = f[x]
  PROVE  SumFunctionOnSet(e, T) = SumFunctionOnSet(f, T)
<1>1. PICK h : SumLoop(h, f, T) /\ SumFunctionOnSet(f, T) = h[T]
  BY SumIsLoop
<1>2. PICK g : SumLoop(g, e, T) /\ SumFunctionOnSet(e, T) = g[T]
  BY SumIsLoop
<1>3. h[T] = g[T]
  BY <1>1, <1>2, LoopSame
<1> QED
  BY <1>1, <1>2, <1>3

\* A sum is no more than another whose terms are not less.
LEMMA SumMonotone ==
  ASSUME NEW T, IsFiniteSet(T), NEW f, NEW e,
         \A x \in T : f[x] \in Int /\ e[x] \in Int /\ f[x] <= e[x]
  PROVE  SumFunctionOnSet(f, T) <= SumFunctionOnSet(e, T)
<1> DEFINE F(s) == SumFunctionOnSet(f, s)
           E(s) == SumFunctionOnSet(e, s)
           C == {s \in SUBSET T : ~(F(s) <= E(s))}
<1>1. \A s \in SUBSET T :
        /\ F(s) \in Int /\ E(s) \in Int /\ (s = {} => F(s) = 0 /\ E(s) = 0)
        /\ \A x \in s : F(s) = f[x] + F(s \ {x}) /\ E(s) = e[x] + E(s \ {x})
  BY SumFacts, FS_Subset
<1> HIDE DEF F, E
<1>2. C = {}
  <2> SUFFICES ASSUME C # {} PROVE FALSE
    OBVIOUS
  <2>0. C \subseteq SUBSET T
    OBVIOUS
  <2>1. PICK s \in C : \A u \in C : u \subseteq s => u = s
    <3> HIDE DEF C
    <3> QED
      BY <2>0, Smallest
  <2>2. CASE s = {}
    BY <1>1, <2>2
  <2>3. CASE s # {}
    <3>1. PICK x \in s : TRUE
      BY <2>3
    <3>2. s \ {x} \in SUBSET T /\ s \ {x} \notin C
      BY <2>1, <3>1
    <3>3. F(s \ {x}) <= E(s \ {x}) /\ F(s \ {x}) \in Int /\ E(s \ {x}) \in Int
      BY <1>1, <3>2
    <3>4. F(s) = f[x] + F(s \ {x}) /\ E(s) = e[x] + E(s \ {x}) /\ f[x] \in Int /\ e[x] \in Int /\ f[x] <= e[x]
      BY <1>1, <3>1
    <3>5. F(s) <= E(s)
      BY <3>3, <3>4
    <3> QED
      BY <3>5
  <2> QED
    BY <2>2, <2>3
<1>3. T \in SUBSET T /\ T \notin C
  BY <1>2
<1>4. F(T) <= E(T)
  BY <1>3
<1> QED
  BY <1>4 DEF F, E

\* Terms of zero can be left out.
LEMMA SumZeros ==
  ASSUME NEW T, IsFiniteSet(T), NEW f, NEW U, U \subseteq T,
         \A x \in T : f[x] \in Int, \A x \in T \ U : f[x] = 0
  PROVE  SumFunctionOnSet(f, T) = SumFunctionOnSet(f, U)
<1> DEFINE F(s) == SumFunctionOnSet(f, s)
           C == {s \in SUBSET T : U \subseteq s /\ F(s) # F(U)}
<1>1. \A s \in SUBSET T : F(s) \in Int /\ \A x \in s : F(s) = f[x] + F(s \ {x})
  BY SumFacts, FS_Subset
<1> HIDE DEF F
<1>2. C = {}
  <2> SUFFICES ASSUME C # {} PROVE FALSE
    OBVIOUS
  <2>0. C \subseteq SUBSET T
    OBVIOUS
  <2>1. PICK s \in C : \A u \in C : u \subseteq s => u = s
    <3> HIDE DEF C
    <3> QED
      BY <2>0, Smallest
  <2>2. PICK x \in s \ U : TRUE
    OBVIOUS
  <2>3. s \ {x} \in SUBSET T /\ s \ {x} \notin C /\ U \subseteq s \ {x}
    BY <2>1, <2>2
  <2>4. F(s \ {x}) = F(U) /\ F(U) \in Int
    BY <1>1, <2>3
  <2>5. F(s) = f[x] + F(s \ {x}) /\ f[x] = 0
    BY <1>1, <2>2
  <2>6. F(s) = F(U)
    BY <2>4, <2>5
  <2> QED
    BY <2>6
<1>3. T \in SUBSET T /\ T \notin C
  BY <1>2
<1>4. F(T) = F(U)
  BY <1>3
<1> QED
  BY <1>4 DEF F

\* A sum of naturals is a natural.
LEMMA SumNat ==
  ASSUME NEW T, IsFiniteSet(T), NEW f, \A x \in T : f[x] \in Nat
  PROVE  SumFunctionOnSet(f, T) \in Nat
<1> DEFINE zero == [x \in T |-> 0]
<1>1. \A x \in T : zero[x] \in Int /\ zero[x] = 0 /\ f[x] \in Int /\ zero[x] <= f[x]
  OBVIOUS
<1>2. IsFiniteSet({}) /\ {} \subseteq T
  BY FS_EmptySet
<1> HIDE DEF zero
<1>3. SumFunctionOnSet(zero, T) = SumFunctionOnSet(zero, {})
  BY <1>1, <1>2, SumZeros
<1>4. SumFunctionOnSet(zero, {}) = 0
  BY <1>2, SumFacts
<1>5. SumFunctionOnSet(zero, T) <= SumFunctionOnSet(f, T) /\ SumFunctionOnSet(f, T) \in Int
  BY <1>1, SumMonotone, SumFacts
<1> QED
  BY <1>3, <1>4, <1>5

\* Of a finite set of things with sizes there is a list, the largest first.
LEMMA DescendingFacts ==
  ASSUME NEW T, IsFiniteSet(T), NEW size \in [T -> Nat]
  PROVE  /\ Descending(T, size) \in Seq(T) /\ Len(Descending(T, size)) = Cardinality(T)
         /\ IsInjective(Descending(T, size))
         /\ \A x \in T : \E i \in 1..Cardinality(T) : Descending(T, size)[i] = x
<1> DEFINE Sorted(s, S) == /\ s \in SetToSeqs(S)
                           /\ \A i \in 2..Cardinality(S) : size[s[i - 1]] >= size[s[i]]
           C == {S \in SUBSET T : ~ \E s : Sorted(s, S)}
<1>1. \A S \in SUBSET T : IsFiniteSet(S) /\ Cardinality(S) \in Nat
  BY FS_Subset, FS_CardinalityType
<1>2. C = {}
  <2> HIDE DEF Sorted
  <2> SUFFICES ASSUME C # {} PROVE FALSE
    OBVIOUS
  <2>0. C \subseteq SUBSET T
    OBVIOUS
  <2>1. PICK S \in C : \A U \in C : U \subseteq S => U = S
    <3> HIDE DEF C
    <3> QED
      BY <2>0, Smallest
  <2>2. CASE S = {}
    <3>1. Cardinality(S) = 0
      BY <2>2, FS_EmptySet
    <3>2. <<>> \in SetToSeqs(S)
      BY <2>2, <3>1 DEF SetToSeqs
    <3>3. Sorted(<<>>, S)
      BY <3>1, <3>2 DEF Sorted
    <3> QED
      BY <2>1, <3>3
  <2>3. CASE S # {}
    <3> DEFINE N == {size[x] : x \in S}
               n == Cardinality(S)
    <3>1. N \subseteq Nat /\ N # {}
      BY <2>3
    <3>2. PICK k \in N : \A m \in N : k <= m
      BY <3>1, Least
    <3>3. PICK x \in S : \A y \in S : size[x] <= size[y]
      BY <3>2
    <3>4. S \ {x} \in SUBSET T /\ S \ {x} \notin C
      BY <2>1
    <3>5. PICK s : Sorted(s, S \ {x})
      BY <3>4
    <3>6. n \in Nat /\ n >= 1 /\ Cardinality(S \ {x}) = n - 1
      BY <1>1, <2>3, FS_EmptySet, FS_RemoveElement
    <3> HIDE DEF n, N
    <3>7. /\ s \in [1..(n - 1) -> S \ {x}]
          /\ \A i, j \in 1..(n - 1) : i # j => s[i] # s[j]
          /\ \A i \in 2..(n - 1) : size[s[i - 1]] >= size[s[i]]
      BY <3>5, <3>6 DEF Sorted, SetToSeqs
    <3> DEFINE t == [i \in 1..n |-> IF i = n THEN x ELSE s[i]]
    <3>8. \A i \in 1..n : i # n => i \in 1..(n - 1)
      BY <3>6
    <3>9. t \in [1..n -> S]
      BY <3>7, <3>8
    <3>10. \A i, j \in 1..n : i # j => t[i] # t[j]
      BY <3>7, <3>8
    <3>11. ASSUME NEW i \in 2..n PROVE size[t[i - 1]] >= size[t[i]]
      <4>1. i - 1 \in 1..n /\ i - 1 # n /\ i \in 1..n
        BY <3>6
      <4>2. CASE i = n
        <5>1. t[i] = x /\ t[i - 1] \in S
          BY <3>9, <4>1, <4>2
        <5>2. size[x] \in Nat /\ size[t[i - 1]] \in Nat /\ size[x] <= size[t[i - 1]]
          <6> HIDE DEF t
          <6> QED
            BY <3>3, <5>1
        <5> HIDE DEF t
        <5> QED
          BY <5>1, <5>2
      <4>3. CASE i # n
        <5>1. i \in 2..(n - 1)
          BY <3>6, <4>3
        <5>2. t[i] = s[i] /\ t[i - 1] = s[i - 1]
          BY <4>1, <4>3
        <5> QED
          BY <3>7, <5>1, <5>2
      <4> QED
        BY <4>2, <4>3
    <3> HIDE DEF t
    <3>12. t \in SetToSeqs(S)
      BY <3>9, <3>10 DEF SetToSeqs, n
    <3>13. Sorted(t, S)
      BY <3>11, <3>12 DEF Sorted, n
    <3> QED
      BY <2>1, <3>13
  <2> QED
    BY <2>2, <2>3
<1>3. T \in SUBSET T /\ T \notin C
  BY <1>2
<1> DEFINE d == Descending(T, size)
           n == Cardinality(T)
<1>4. d \in SetToSeqs(T)
  <2>1. \E s \in SetToSeqs(T) : \A i \in 2..Cardinality(T) : size[s[i - 1]] >= size[s[i]]
    BY <1>3
  <2> QED
    BY <2>1 DEF Descending
<1> HIDE DEF d
<1>5. d \in [1..n -> T] /\ \A i, j \in 1..n : i # j => d[i] # d[j]
  BY <1>4 DEF SetToSeqs
<1>6. n \in Nat
  BY <1>1
<1>7. IsInjective(d)
  BY <1>5 DEF IsInjective
<1>8. d \in Injection(1..n, T)
  BY <1>5, <1>7 DEF Injection
<1>9. IsFiniteSet(1..n) /\ Cardinality(1..n) = n
  BY <1>6, FS_Interval
<1>10. d \in Surjection(1..n, T)
  BY <1>8, <1>9, FS_Injection
<1>11. d \in Seq(T) /\ Len(d) = n
  BY <1>5, <1>6
<1> QED
  BY <1>7, <1>10, <1>11 DEF d, Surjection

\* The running total starts at start and takes each change in turn.
LEMMA RunningFacts ==
  ASSUME NEW start, NEW order, Len(order) \in Nat, NEW delta
  PROVE  \A i \in 0..Len(order) :
           Running(start, order, delta)[i] =
             IF i = 0 THEN start ELSE Running(start, order, delta)[i - 1] + delta[order[i]]
<1> DEFINE n == Len(order)
           Turn(f, i) == IF i = 0 THEN start ELSE f[i - 1] + delta[order[i]]
           Loop(f, m) == f = [i \in 0..m |-> Turn(f, i)]
           C == {m \in 0..n : ~ \E f : Loop(f, m)}
<1>1. C = {}
  <2> HIDE DEF Loop
  <2> SUFFICES ASSUME C # {} PROVE FALSE
    OBVIOUS
  <2>1. C \subseteq Nat
    OBVIOUS
  <2>2. PICK m \in C : \A k \in C : m <= k
    <3> HIDE DEF C
    <3> QED
      BY <2>1, Least
  <2>3. CASE m = 0
    <3> DEFINE g == [i \in 0..0 |-> start]
    <3>1. g = [i \in 0..0 |-> Turn(g, i)]
      OBVIOUS
    <3>2. Loop(g, 0)
      BY <3>1 DEF Loop
    <3> QED
      BY <2>2, <2>3, <3>2
  <2>4. CASE m # 0
    <3>1. m - 1 \in 0..n /\ ~(m <= m - 1) /\ m \in Nat /\ m >= 1
      BY <2>4
    <3>2. PICK f : Loop(f, m - 1)
      BY <2>2, <3>1
    <3> DEFINE g == [i \in 0..m |-> IF i < m THEN f[i] ELSE Turn(f, m)]
    <3>3. ASSUME NEW i \in 0..m PROVE g[i] = Turn(g, i)
      <4>1. i # 0 => i - 1 \in 0..m /\ i - 1 < m /\ g[i - 1] = f[i - 1]
        BY <3>1
      <4>2. CASE i < m
        <5>1. i \in 0..(m - 1)
          BY <3>1, <4>2
        <5>2. f[i] = Turn(f, i)
          <6> HIDE DEF Turn
          <6> QED
            BY <3>2, <5>1 DEF Loop
        <5> QED
          BY <4>1, <4>2, <5>2
      <4>3. CASE ~(i < m)
        <5>1. i = m
          BY <3>1, <4>3
        <5> QED
          BY <4>1, <4>3, <5>1
      <4> QED
        BY <4>2, <4>3
    <3>4. g = [i \in 0..m |-> g[i]]
      OBVIOUS
    <3> HIDE DEF g
    <3>5. [i \in 0..m |-> g[i]] = [i \in 0..m |-> Turn(g, i)]
      BY <3>3
    <3> HIDE DEF Turn
    <3>6. Loop(g, m)
      BY <3>4, <3>5 DEF Loop
    <3> QED
      BY <2>2, <3>6
  <2> QED
    BY <2>3, <2>4
<1> DEFINE running == CHOOSE f : Loop(f, n)
<1>2. Loop(running, n)
  <2> HIDE DEF Loop
  <2>1. \E f : Loop(f, n)
    BY <1>1
  <2> QED
    BY <2>1
<1>3. \A i \in 0..n : running[i] = Turn(running, i)
  <2> HIDE DEF running, Turn
  <2> QED
    BY <1>2
<1>4. Running(start, order, delta) = running
  BY DEF Running
<1> HIDE DEF running
<1> QED
  BY <1>3, <1>4

-----------------------------------------------------------------------------
(* What a snapshot holds.                                                  *)

Gain(value, t) == Percent(value - Cost(t), Cost(t))
Holding == [price : Nat \ {0}, value : Nat, pnl_pct : Int]
Holdings == {hs \in UNION {[S -> Holding] : S \in (SUBSET Tickers) \ {{}}} :
               \A t \in DOMAIN hs : hs[t].pnl_pct = Gain(hs[t].value, t)}
Shots == {[age |-> a, totals |-> Totals(hs), holdings |-> hs] : a \in 0..Retention, hs \in Holdings}

OfCurrency(S, c) == {t \in S : currencyForTicker(t) = c}

LEMMA ShotFacts ==
  ASSUME NEW s \in Shots
  PROVE  /\ s.age \in 0..Retention /\ s.holdings \in Holdings /\ s.totals = Totals(s.holdings)
         /\ DOMAIN s.holdings \subseteq Tickers /\ DOMAIN s.holdings # {} /\ IsFiniteSet(DOMAIN s.holdings)
         /\ \A t \in DOMAIN s.holdings :
              s.holdings[t] \in Holding /\ s.holdings[t].pnl_pct = Gain(s.holdings[t].value, t)
<1>1. PICK a \in 0..Retention, hs \in Holdings : s = [age |-> a, totals |-> Totals(hs), holdings |-> hs]
  BY DEF Shots
<1>2. s.age = a /\ s.holdings = hs /\ s.totals = Totals(hs)
  BY <1>1
<1>3. PICK S \in (SUBSET Tickers) \ {{}} : hs \in [S -> Holding]
  <2>1. hs \in UNION {[S -> Holding] : S \in (SUBSET Tickers) \ {{}}}
    BY DEF Holdings
  <2> QED
    BY <2>1
<1>4. DOMAIN hs = S /\ S \subseteq Tickers /\ S # {}
  BY <1>3
<1>5. IsFiniteSet(S)
  BY <1>4, AnalyticsAssumption, FS_Subset
<1>6. \A t \in DOMAIN hs : hs[t] \in Holding /\ hs[t].pnl_pct = Gain(hs[t].value, t)
  BY <1>3 DEF Holdings
<1> QED
  BY <1>2, <1>4, <1>5, <1>6

LEMMA CostFacts ==
  ASSUME NEW t \in Tickers
  PROVE  Cost(t) \in Nat /\ Cost(t) > 0
<1>1. Lot[t] \in [quantity : Nat \ {0}, avg_cost : Nat \ {0}]
  BY AnalyticsAssumption
<1>2. Lot[t].avg_cost \in Nat /\ Lot[t].avg_cost > 0 /\ Lot[t].quantity \in Nat /\ Lot[t].quantity > 0
  BY <1>1
<1>3. \A a, b \in Nat : a > 0 /\ b > 0 => a * b \in Nat /\ a * b > 0
  OBVIOUS
<1> QED
  BY <1>2, <1>3 DEF Cost

\* A currency's total, whether or not there is a holding in it, is the sum of the values of any
\* tickers of the currency that include all those held.
LEMMA TotalValueFacts ==
  ASSUME NEW s \in Shots, NEW c, NEW T, T \subseteq Tickers, \A t \in T : currencyForTicker(t) = c,
         OfCurrency(DOMAIN s.holdings, c) \subseteq T
  PROVE  TotalValue(s, c) = SumFunctionOnSet([t \in T |-> Value(s.holdings, t)], T)
<1> DEFINE hs == s.holdings
           of == OfCurrency(DOMAIN hs, c)
           f == [t \in T |-> Value(hs, t)]
           e == [t \in of |-> hs[t].value]
<1>1. /\ s.totals = Totals(hs) /\ IsFiniteSet(T) /\ IsFiniteSet(of)
      /\ \A t \in DOMAIN hs : hs[t].value \in Nat
  BY ShotFacts, AnalyticsAssumption, FS_Subset DEF OfCurrency, Holding
<1>2. \A t \in T : f[t] \in Int
  BY <1>1 DEF Value
<1>3. \A t \in T \ of : f[t] = 0
  BY DEF Value, OfCurrency
<1>4. \A t \in of : e[t] = f[t]
  BY DEF Value, OfCurrency
<1> HIDE DEF f, e
<1>5. SumFunctionOnSet(f, T) = SumFunctionOnSet(f, of)
  BY <1>1, <1>2, <1>3, SumZeros
<1>6. SumFunctionOnSet(e, of) = SumFunctionOnSet(f, of)
  BY <1>1, <1>4, SumSame
<1>7. DOMAIN s.totals = {currencyForTicker(t) : t \in DOMAIN hs}
  BY <1>1 DEF Totals
<1>8. CASE c \in DOMAIN s.totals
  <2>1. s.totals[c].total_value = SumFunctionOnSet(e, of)
    BY <1>1, <1>7, <1>8 DEF Totals, Worth, OfCurrency, e
  <2> QED
    BY <1>5, <1>6, <1>8, <2>1 DEF TotalValue, f
<1>9. CASE c \notin DOMAIN s.totals
  <2>1. of = {}
    BY <1>7, <1>9 DEF OfCurrency
  <2>2. SumFunctionOnSet(f, {}) = 0
    BY FS_EmptySet, SumFacts
  <2> QED
    BY <1>5, <1>9, <2>1, <2>2 DEF TotalValue, f
<1> QED
  BY <1>8, <1>9

-----------------------------------------------------------------------------
(* The waterfall.                                                          *)

\* After i bars the running total is that of a portfolio in which the tickers of those bars have
\* their value now, and the others the one they had.
LEMMA RunningRight ==
  ASSUME NEW first \in Shots, NEW last \in Shots, NEW c
  PROVE  LET tickers == Contributors(first, last, c)
             delta == [t \in tickers |-> Value(last.holdings, t) - Value(first.holdings, t)]
             order == Descending(tickers, [t \in tickers |-> Magnitude(delta[t])])
             running == Running(TotalValue(first, c), order, delta)
             n == Len(order)
         IN /\ n = Cardinality(tickers) /\ n \in Nat /\ DOMAIN order = 1..n
            /\ \A i \in 1..n : /\ order[i] \in tickers
                               /\ running[i] = running[i - 1] + delta[order[i]]
            /\ running[0] = TotalValue(first, c) /\ running[n] = TotalValue(last, c)
            /\ \A i \in 0..n : running[i] \in Nat
            /\ \A t \in tickers : /\ Value(first.holdings, t) \in Nat /\ Value(last.holdings, t) \in Nat
                                  /\ delta[t] = Value(last.holdings, t) - Value(first.holdings, t)
<1> DEFINE tickers == Contributors(first, last, c)
           delta == [t \in tickers |-> Value(last.holdings, t) - Value(first.holdings, t)]
           size == [t \in tickers |-> Magnitude(delta[t])]
           order == Descending(tickers, size)
           running == Running(TotalValue(first, c), order, delta)
           n == Len(order)
           A(t) == Value(first.holdings, t)
           Z(t) == Value(last.holdings, t)
           mix(i) == [t \in tickers |-> IF \E j \in 1..i : order[j] = t THEN Z(t) ELSE A(t)]
           Sum(i) == SumFunctionOnSet(mix(i), tickers)
<1>1. /\ tickers \subseteq Tickers /\ IsFiniteSet(tickers) /\ \A t \in tickers : currencyForTicker(t) = c
      /\ OfCurrency(DOMAIN first.holdings, c) \subseteq tickers
      /\ OfCurrency(DOMAIN last.holdings, c) \subseteq tickers
  <2>1. tickers \subseteq Tickers
    BY ShotFacts DEF Contributors
  <2>2. IsFiniteSet(tickers)
    BY <2>1, AnalyticsAssumption, FS_Subset
  <2> QED
    BY <2>1, <2>2 DEF Contributors, OfCurrency
<1>2. \A t : A(t) \in Nat /\ Z(t) \in Nat
  BY ShotFacts DEF Value, Holding
<1> HIDE DEF A, Z
<1>3. \A t \in tickers : delta[t] = Z(t) - A(t) /\ delta[t] \in Int
  BY <1>2 DEF A, Z
<1>4. size \in [tickers -> Nat]
  <2>1. \A t \in tickers : Magnitude(delta[t]) \in Nat
    BY <1>3 DEF Magnitude
  <2> QED
    BY <2>1
<1> HIDE DEF delta, size, tickers
<1>5. /\ order \in Seq(tickers) /\ n = Cardinality(tickers) /\ IsInjective(order)
      /\ \A t \in tickers : \E i \in 1..Cardinality(tickers) : order[i] = t
  BY <1>1, <1>4, DescendingFacts
<1> HIDE DEF order
<1>6. n \in Nat /\ DOMAIN order = 1..n /\ \A i \in 1..n : order[i] \in tickers
  BY <1>5
<1>7. \A i, j \in 1..n : order[i] = order[j] => i = j
  BY <1>5, <1>6 DEF IsInjective
<1>8. \A i \in 0..n : running[i] = IF i = 0 THEN TotalValue(first, c) ELSE running[i - 1] + delta[order[i]]
  BY <1>6, RunningFacts
<1> HIDE DEF running
<1>9. \A i \in 0..n : /\ \A t \in tickers : mix(i)[t] \in Nat /\ mix(i)[t] \in Int
                      /\ Sum(i) \in Nat
  <2>1. \A i \in 0..n : \A t \in tickers : mix(i)[t] \in Nat /\ mix(i)[t] \in Int
    BY <1>2
  <2> HIDE DEF mix
  <2> QED
    BY <1>1, <2>1, SumNat
<1>10. Sum(0) = TotalValue(first, c)
  <2>1. mix(0) = [t \in tickers |-> Value(first.holdings, t)]
    BY DEF A
  <2>2. TotalValue(first, c) = SumFunctionOnSet([t \in tickers |-> Value(first.holdings, t)], tickers)
    BY <1>1, TotalValueFacts
  <2> QED
    BY <2>1, <2>2
<1>11. Sum(n) = TotalValue(last, c)
  <2>1. mix(n) = [t \in tickers |-> Value(last.holdings, t)]
    BY <1>5 DEF Z
  <2>2. TotalValue(last, c) = SumFunctionOnSet([t \in tickers |-> Value(last.holdings, t)], tickers)
    BY <1>1, TotalValueFacts
  <2> QED
    BY <2>1, <2>2
<1>12. ASSUME NEW i \in 1..n PROVE Sum(i) = Sum(i - 1) + delta[order[i]]
  <2> DEFINE x == order[i]
             f == mix(i - 1)
             e == mix(i)
  <2>1. x \in tickers /\ i - 1 \in 0..n /\ i \in 0..n
    BY <1>6
  <2>2. f[x] = A(x) /\ e[x] = Z(x)
    <3>1. \A j \in 1..(i - 1) : j \in 1..n /\ j # i
      BY <1>6
    <3>2. ~ \E j \in 1..(i - 1) : order[j] = x
      BY <1>7, <3>1
    <3>3. \E j \in 1..i : order[j] = x
      BY <1>6
    <3> QED
      BY <2>1, <3>2, <3>3
  <2>3. \A t \in tickers \ {x} : f[t] = e[t]
    <3>1. \A j \in 1..i : j \in 1..(i - 1) \/ j = i
      BY <1>6
    <3>2. \A j \in 1..(i - 1) : j \in 1..i
      BY <1>6
    <3> QED
      BY <3>1, <3>2
  <2>4. \A t \in tickers : f[t] \in Int /\ e[t] \in Int
    BY <1>9, <2>1
  <2> HIDE DEF x, f, e
  <2>5. IsFiniteSet(tickers \ {x})
    BY <1>1, FS_Subset
  <2>6. /\ SumFunctionOnSet(f, tickers) = f[x] + SumFunctionOnSet(f, tickers \ {x})
        /\ SumFunctionOnSet(e, tickers) = e[x] + SumFunctionOnSet(e, tickers \ {x})
        /\ SumFunctionOnSet(e, tickers \ {x}) \in Int
    BY <1>1, <2>1, <2>4, <2>5, SumFacts
  <2>7. SumFunctionOnSet(f, tickers \ {x}) = SumFunctionOnSet(e, tickers \ {x})
    BY <2>3, <2>5, SumSame
  <2>8. delta[x] = Z(x) - A(x) /\ A(x) \in Int /\ Z(x) \in Int
    BY <1>2, <1>3, <2>1
  <2>9. SumFunctionOnSet(e, tickers) = SumFunctionOnSet(f, tickers) + delta[x]
    BY <2>2, <2>6, <2>7, <2>8
  <2> QED
    BY <2>9 DEF x, f, e
<1> HIDE DEF Sum, mix
<1>13. \A i \in 0..n : running[i] = Sum(i)
  <2> DEFINE C == {i \in 0..n : running[i] # Sum(i)}
  <2> SUFFICES ASSUME C # {} PROVE FALSE
    OBVIOUS
  <2>1. C \subseteq Nat
    BY <1>6
  <2>2. PICK i \in C : \A k \in C : i <= k
    <3> HIDE DEF C
    <3> QED
      BY <2>1, Least
  <2>3. i # 0
    BY <1>6, <1>8, <1>10
  <2>4. i \in 1..n /\ i - 1 \in 0..n /\ ~(i <= i - 1) /\ i \in 0..n
    BY <1>6, <2>3
  <2>5. running[i - 1] = Sum(i - 1)
    BY <2>2, <2>4
  <2> QED
    BY <1>8, <1>12, <2>3, <2>4, <2>5
<1>14. /\ running[0] = TotalValue(first, c) /\ running[n] = TotalValue(last, c)
       /\ \A i \in 0..n : running[i] \in Nat
  <2>1. 0 \in 0..n /\ n \in 0..n
    BY <1>6
  <2> QED
    BY <1>9, <1>10, <1>11, <1>13, <2>1
<1>15. \A i \in 1..n : running[i] = running[i - 1] + delta[order[i]]
  <2>1. \A i \in 1..n : i \in 0..n /\ i # 0
    BY <1>6
  <2> QED
    BY <1>8, <2>1
<1> QED
  BY <1>2, <1>3, <1>5, <1>6, <1>14, <1>15 DEF running, order, delta, size, tickers, A, Z

\* The bars lead from the one total to the other.
Balanced(rows, first, last, c) ==
  LET n == Len(rows) - 1
      Foot(i) == IF rows[i].isPositive THEN rows[i].base ELSE rows[i].base + rows[i].value
      Top(i) == IF rows[i].isPositive THEN rows[i].base + rows[i].value ELSE rows[i].base
  IN rows # <<>> =>
       /\ rows[1].value = TotalValue(first, c) /\ rows[n + 1].value = TotalValue(last, c)
       /\ \A i \in 2..n : /\ Foot(i) = Top(i - 1) /\ rows[i].base >= 0
                          /\ Fill(rows[i]) = "loss" => Value(first.holdings, rows[i].label) > 0
                          /\ rows[i].status = "new" => Signed(rows[i]) = rows[i].value
       /\ Top(n) = rows[n + 1].value
       /\ n - 1 = Cardinality({t \in DOMAIN first.holdings \cup DOMAIN last.holdings :
                               currencyForTicker(t) = c})

LEMMA BarFacts ==
  ASSUME NEW t, NEW first, NEW last, NEW running \in Nat, NEW delta \in Int, running + delta \in Nat,
         delta = Value(last.holdings, t) - Value(first.holdings, t),
         Value(first.holdings, t) \in Nat, Value(last.holdings, t) \in Nat
  PROVE  LET row == Bar(t, first, last, running, delta)
         IN /\ row.base >= 0
            /\ (IF row.isPositive THEN row.base ELSE row.base + row.value) = running
            /\ (IF row.isPositive THEN row.base + row.value ELSE row.base) = running + delta
            /\ Fill(row) = "loss" => Value(first.holdings, row.label) > 0
            /\ row.status = "new" => Signed(row) = row.value
<1> DEFINE row == Bar(t, first, last, running, delta)
<1>1. /\ row.label = t /\ row.base = IF delta < 0 THEN running + delta ELSE running
      /\ row.value = Magnitude(delta) /\ row.isPositive = (delta >= 0)
      /\ row.status = IF t \notin DOMAIN first.holdings THEN "new"
                      ELSE IF t \notin DOMAIN last.holdings THEN "closed" ELSE "held"
  BY DEF Bar
<1> HIDE DEF row
<1>2. CASE delta >= 0
  <2>1. row.base = running /\ row.value = delta /\ row.isPositive
    <3>1. ~(delta < 0)
      BY <1>2
    <3> QED
      BY <1>1, <1>2, <3>1 DEF Magnitude
  <2>2. Fill(row) # "loss" /\ Signed(row) = row.value
    BY <2>1 DEF Fill, Signed
  <2> QED
    BY <2>1, <2>2 DEF row
<1>3. CASE delta < 0
  <2>1. row.base = running + delta /\ row.value = -delta
    BY <1>1, <1>3 DEF Magnitude
  <2>2. ~row.isPositive
    <3>1. ~(delta >= 0)
      BY <1>3
    <3> QED
      BY <1>1, <3>1
  <2>3. row.base + row.value = running /\ row.base >= 0
    BY <2>1
  <2>4. Value(first.holdings, row.label) > 0
    BY <1>1, <1>3
  <2>5. row.status # "new"
    <3>1. t \in DOMAIN first.holdings
      BY <1>3 DEF Value
    <3> QED
      BY <1>1, <3>1
  <2> QED
    BY <2>1, <2>2, <2>3, <2>4, <2>5 DEF row
<1> QED
  BY <1>2, <1>3

LEMMA WaterfallFacts ==
  ASSUME NEW history \in Seq(Shots), NEW c
  PROVE  Balanced(BuildWaterfallData(history, c), Head(history), Last(history), c)
<1> DEFINE first == Head(history)
           last == Last(history)
           tickers == Contributors(first, last, c)
           delta == [t \in tickers |-> Value(last.holdings, t) - Value(first.holdings, t)]
           order == Descending(tickers, [t \in tickers |-> Magnitude(delta[t])])
           running == Running(TotalValue(first, c), order, delta)
           bars == [i \in DOMAIN order |-> Bar(order[i], first, last, running[i - 1], delta[order[i]])]
           start == TotalRow("Start", TotalValue(first, c))
           end == TotalRow("End", running[Len(order)])
           rows == <<start>> \o bars \o <<end>>
           m == Len(order)
<1>1. CASE Len(history) < 2 \/ c \notin DOMAIN first.totals \cup DOMAIN last.totals
  <2>1. BuildWaterfallData(history, c) = <<>>
    BY <1>1 DEF BuildWaterfallData
  <2> QED
    BY <2>1 DEF Balanced
<1>2. CASE ~(Len(history) < 2 \/ c \notin DOMAIN first.totals \cup DOMAIN last.totals)
  <2>1. BuildWaterfallData(history, c) = rows
    BY <1>2 DEF BuildWaterfallData
  <2>2. first \in Shots /\ last \in Shots
    <3>1. Len(history) \in Nat /\ Len(history) >= 2
      BY <1>2
    <3> QED
      BY <3>1 DEF Last
  <2>3. /\ m = Cardinality(tickers) /\ m \in Nat /\ DOMAIN order = 1..m
        /\ \A i \in 1..m : /\ order[i] \in tickers
                           /\ running[i] = running[i - 1] + delta[order[i]]
        /\ running[0] = TotalValue(first, c) /\ running[m] = TotalValue(last, c)
        /\ \A i \in 0..m : running[i] \in Nat
        /\ \A t \in tickers : /\ Value(first.holdings, t) \in Nat /\ Value(last.holdings, t) \in Nat
                              /\ delta[t] = Value(last.holdings, t) - Value(first.holdings, t)
    BY <2>2, RunningRight
  <2> HIDE DEF running, delta, order, tickers
  <2>4. DOMAIN bars = 1..m /\ Len(bars) = m
    BY <2>3
  <2>5. \A i \in 1..m : bars[i] = Bar(order[i], first, last, running[i - 1], delta[order[i]])
    BY <2>3
  <2>6. /\ start.value = running[0] /\ start.base = 0 /\ start.isPositive
        /\ end.value = running[m]
    BY <2>3 DEF TotalRow
  <2>7. /\ Len(rows) = m + 2 /\ rows[1] = start /\ rows[m + 2] = end
        /\ \A i \in 1..m : rows[i + 1] = bars[i]
    <3> DEFINE S == {start, end} \cup {bars[i] : i \in 1..m}
    <3>1. bars \in Seq(S)
      <4>1. \A i \in 1..m : bars[i] \in S
        OBVIOUS
      <4>2. bars = [i \in 1..m |-> bars[i]]
        BY <2>4
      <4> HIDE DEF bars, S, m
      <4>3. bars \in [1..m -> S]
        BY <4>1, <4>2
      <4>4. m \in Nat
        BY <2>3
      <4> QED
        BY <4>3, <4>4
    <3>2. <<start>> \in Seq(S) /\ Len(<<start>>) = 1 /\ <<end>> \in Seq(S) /\ Len(<<end>>) = 1
      OBVIOUS
    <3> DEFINE u == <<start>> \o bars
    <3> HIDE DEF bars, start, end, S, m
    <3>3. /\ u \in Seq(S) /\ Len(u) = 1 + m
          /\ \A i \in 1..(1 + m) : u[i] = IF i <= 1 THEN <<start>>[i] ELSE bars[i - 1]
      <4>1. /\ <<start>> \o bars \in Seq(S) /\ Len(<<start>> \o bars) = Len(<<start>>) + Len(bars)
            /\ \A i \in 1..(Len(<<start>>) + Len(bars)) :
                 (<<start>> \o bars)[i] = IF i <= Len(<<start>>) THEN <<start>>[i] ELSE bars[i - Len(<<start>>)]
        BY <3>1, <3>2, ConcatProperties
      <4> QED
        BY <2>4, <3>2, <4>1
    <3>4. /\ Len(u \o <<end>>) = m + 2
          /\ \A i \in 1..(m + 2) : (u \o <<end>>)[i] = IF i <= m + 1 THEN u[i] ELSE <<end>>[i - (m + 1)]
      <4> HIDE DEF u
      <4>1. /\ Len(u \o <<end>>) = Len(u) + Len(<<end>>)
            /\ \A i \in 1..(Len(u) + Len(<<end>>)) :
                 (u \o <<end>>)[i] = IF i <= Len(u) THEN u[i] ELSE <<end>>[i - Len(u)]
        BY <3>2, <3>3, ConcatProperties
      <4>2. Len(u) = m + 1 /\ Len(u) + Len(<<end>>) = m + 2
        BY <2>3, <3>2, <3>3
      <4> QED
        BY <4>1, <4>2
    <3>5. rows = u \o <<end>>
      OBVIOUS
    <3> HIDE DEF rows, u
    <3>6. rows[1] = start
      <4>1. 1 \in 1..(m + 2) /\ 1 <= m + 1 /\ 1 \in 1..(1 + m)
        BY <2>3
      <4>2. rows[1] = u[1]
        BY <3>4, <3>5, <4>1
      <4>3. u[1] = <<start>>[1]
        BY <3>3, <4>1
      <4> QED
        BY <4>2, <4>3
    <3>7. rows[m + 2] = end
      <4>1. m + 2 \in 1..(m + 2) /\ ~(m + 2 <= m + 1) /\ (m + 2) - (m + 1) = 1
        BY <2>3
      <4>2. rows[m + 2] = <<end>>[1]
        BY <3>4, <3>5, <4>1
      <4> QED
        BY <4>2
    <3>8. ASSUME NEW i \in 1..m PROVE rows[i + 1] = bars[i]
      <4>1. /\ i + 1 \in 1..(m + 2) /\ i + 1 <= m + 1 /\ i + 1 \in 1..(1 + m) /\ ~(i + 1 <= 1)
            /\ (i + 1) - 1 = i
        BY <2>3
      <4> QED
        BY <3>3, <3>4, <3>5, <4>1
    <3> QED
      BY <3>4, <3>5, <3>6, <3>7, <3>8
  <2> HIDE DEF rows, start, end, bars
  <2> DEFINE Foot(i) == IF rows[i].isPositive THEN rows[i].base ELSE rows[i].base + rows[i].value
             Top(i) == IF rows[i].isPositive THEN rows[i].base + rows[i].value ELSE rows[i].base
  <2>8. ASSUME NEW i \in 1..m
        PROVE  /\ rows[i + 1].base >= 0 /\ Foot(i + 1) = running[i - 1] /\ Top(i + 1) = running[i]
               /\ Fill(rows[i + 1]) = "loss" => Value(first.holdings, rows[i + 1].label) > 0
               /\ rows[i + 1].status = "new" => Signed(rows[i + 1]) = rows[i + 1].value
    <3> DEFINE t == order[i]
    <3>1. /\ i - 1 \in 0..m /\ i \in 0..m /\ t \in tickers
      BY <2>3
    <3>2. /\ running[i - 1] \in Nat /\ running[i] \in Nat /\ running[i] = running[i - 1] + delta[t]
          /\ Value(first.holdings, t) \in Nat /\ Value(last.holdings, t) \in Nat
          /\ delta[t] = Value(last.holdings, t) - Value(first.holdings, t)
      BY <2>3, <3>1
    <3>3. delta[t] \in Int
      BY <3>2
    <3>4. rows[i + 1] = Bar(t, first, last, running[i - 1], delta[t])
      BY <2>5, <2>7
    <3> HIDE DEF t, first, last, m
    <3> DEFINE row == Bar(t, first, last, running[i - 1], delta[t])
    <3>5. /\ row.base >= 0
          /\ (IF row.isPositive THEN row.base ELSE row.base + row.value) = running[i - 1]
          /\ (IF row.isPositive THEN row.base + row.value ELSE row.base) = running[i - 1] + delta[t]
          /\ Fill(row) = "loss" => Value(first.holdings, row.label) > 0
          /\ row.status = "new" => Signed(row) = row.value
      BY <3>2, <3>3, BarFacts
    <3> HIDE DEF row
    <3>6. rows[i + 1] = row
      BY <3>4 DEF row
    <3> QED
      BY <3>2, <3>5, <3>6
  <2>9. Top(1) = running[0]
    <3>1. 0 \in 0..m
      BY <2>3
    <3>2. running[0] \in Nat
      BY <2>3, <3>1
    <3> QED
      BY <2>6, <2>7, <3>2
  <2> HIDE DEF Foot, Top
  <2>10. \A i \in 0..m : Top(i + 1) = running[i]
    <3>1. \A i \in 0..m : i = 0 \/ i \in 1..m
      BY <2>3
    <3> QED
      BY <2>8, <2>9, <3>1
  <2> DEFINE n == Len(rows) - 1
  <2>11. n = m + 1 /\ n + 1 = m + 2 /\ n - 1 = m
    BY <2>3, <2>7
  <2> HIDE DEF n
  <2>12. rows[1].value = TotalValue(first, c) /\ rows[n + 1].value = TotalValue(last, c)
    BY <2>3, <2>6, <2>7, <2>11
  <2>13. ASSUME NEW i \in 2..n
         PROVE  /\ Foot(i) = Top(i - 1) /\ rows[i].base >= 0
                /\ Fill(rows[i]) = "loss" => Value(first.holdings, rows[i].label) > 0
                /\ rows[i].status = "new" => Signed(rows[i]) = rows[i].value
    <3>1. i - 1 \in 1..m /\ (i - 1) + 1 = i /\ (i - 1) - 1 \in 0..m /\ ((i - 1) - 1) + 1 = i - 1
      <4>1. m \in Nat /\ n = m + 1
        BY <2>3, <2>11
      <4> HIDE DEF m
      <4> QED
        BY <4>1
    <3>2. Top(i - 1) = running[(i - 1) - 1]
      BY <2>10, <3>1
    <3> QED
      BY <2>8, <3>1, <3>2
  <2>14. Top(n) = rows[n + 1].value
    <3>1. m \in 0..m
      BY <2>3
    <3>2. Top(m + 1) = running[m]
      BY <2>10, <3>1
    <3> QED
      BY <2>6, <2>7, <2>11, <3>2
  <2>15. n - 1 = Cardinality({t \in DOMAIN first.holdings \cup DOMAIN last.holdings : currencyForTicker(t) = c})
    BY <2>3, <2>11 DEF tickers, Contributors
  <2> HIDE DEF first, last
  <2>16. Balanced(rows, first, last, c)
    BY <2>12, <2>13, <2>14, <2>15 DEF Balanced, Foot, Top, n
  <2> QED
    BY <2>1, <2>16 DEF first, last
<1> QED
  BY <1>1, <1>2

-----------------------------------------------------------------------------
(* The totals.                                                             *)

\* A percentage that is not zero has the sign of the amount.
LEMMA PercentSign ==
  ASSUME NEW x \in Int, NEW b \in Nat, b > 0
  PROVE  /\ Percent(x, b) \in Int
         /\ x >= 0 => Percent(x, b) >= 0
         /\ x <= 0 => Percent(x, b) <= 0
<1> DEFINE y == x * 1000000
           q == y \div b
           r == y % b
<1>1. y \in Int /\ (x >= 0 => y >= 0) /\ (x <= 0 => y <= 0)
  OBVIOUS
<1>2. Percent(x, b) = IF 2 * r < b \/ (2 * r = b /\ q % 2 = 0) THEN q ELSE q + 1
  BY DEF Percent
<1> HIDE DEF y
<1>3. q \in Int /\ r \in 0..(b - 1) /\ y = b * q + r
  BY <1>1
<1> HIDE DEF q, r
<1>4. Percent(x, b) \in Int /\ q <= Percent(x, b) /\ Percent(x, b) <= q + 1
  BY <1>2, <1>3
<1>5. ASSUME x >= 0 PROVE Percent(x, b) >= 0
  <2>1. q >= 0
    <3>1. ASSUME ~(q >= 0) PROVE FALSE
      <4>1. q <= -1
        BY <1>3, <3>1
      <4>2. b * q <= -b
        BY <1>3, <4>1
      <4> QED
        BY <1>1, <1>3, <1>5, <4>2
    <3> QED
      BY <3>1
  <2> QED
    BY <1>3, <1>4, <2>1
<1>6. ASSUME x <= 0 PROVE Percent(x, b) <= 0
  <2>1. CASE q <= -1
    BY <1>3, <1>4, <2>1
  <2>2. CASE ~(q <= -1)
    <3>1. q >= 0
      BY <1>3, <2>2
    <3>2. b * q >= 0
      BY <1>3, <3>1
    <3>3. b * q = 0 /\ r = 0
      BY <1>1, <1>3, <1>6, <3>2
    <3>4. q = 0
      <4>1. ASSUME q >= 1 PROVE FALSE
        <5>1. b * q >= b
          BY <1>3, <4>1
        <5> QED
          BY <1>3, <3>3, <5>1
      <4> QED
        BY <1>3, <3>1, <4>1
    <3>5. 2 * r < b
      BY <3>3
    <3> QED
      BY <1>2, <3>4, <3>5
  <2> QED
    BY <2>1, <2>2
<1> QED
  BY <1>4, <1>5, <1>6

\* What a snapshot says of a currency.
LEMMA TotalsFacts ==
  ASSUME NEW s \in Shots
  PROVE  /\ DOMAIN s.totals = {currencyForTicker(t) : t \in DOMAIN s.holdings}
         /\ \A c \in DOMAIN s.totals :
              LET pnl == s.totals[c].total_pnl
                  pct == s.totals[c].total_pnl_pct
                  of == {t \in DOMAIN s.holdings : currencyForTicker(t) = c}
              IN /\ pct \in Int /\ pnl \in Int
                 /\ pct > 0 => pnl >= 0
                 /\ pct < 0 => pnl < 0
                 /\ (\A t \in of : s.holdings[t].pnl_pct > 0) => pnl >= 0
                 /\ (\A t \in of : s.holdings[t].pnl_pct < 0) => pnl < 0
<1> DEFINE hs == s.holdings
           Of(c) == {t \in DOMAIN hs : currencyForTicker(t) = c}
<1>1. /\ s.totals = Totals(hs) /\ DOMAIN hs \subseteq Tickers /\ IsFiniteSet(DOMAIN hs)
      /\ \A t \in DOMAIN hs : /\ hs[t].value \in Nat /\ hs[t].pnl_pct = Gain(hs[t].value, t)
  BY ShotFacts DEF Holding
<1>2. DOMAIN s.totals = {currencyForTicker(t) : t \in DOMAIN hs}
  BY <1>1 DEF Totals
<1>3. ASSUME NEW c \in DOMAIN s.totals
      PROVE  /\ s.totals[c].total_pnl_pct \in Int /\ s.totals[c].total_pnl \in Int
             /\ s.totals[c].total_pnl_pct > 0 => s.totals[c].total_pnl >= 0
             /\ s.totals[c].total_pnl_pct < 0 => s.totals[c].total_pnl < 0
             /\ (\A t \in Of(c) : hs[t].pnl_pct > 0) => s.totals[c].total_pnl >= 0
             /\ (\A t \in Of(c) : hs[t].pnl_pct < 0) => s.totals[c].total_pnl < 0
  <2> DEFINE of == Of(c)
             worth == [t \in of |-> hs[t].value]
             cost == [t \in of |-> Cost(t)]
             W == SumFunctionOnSet(worth, of)
             B == SumFunctionOnSet(cost, of)
  <2>1. /\ s.totals[c].total_pnl = W - B
        /\ s.totals[c].total_pnl_pct = Percent(W - B, B)
    BY <1>1, <1>2, <1>3 DEF Totals, Worth, CostBasis
  <2>2. of \subseteq DOMAIN hs /\ of \subseteq Tickers /\ IsFiniteSet(of)
    BY <1>1, FS_Subset
  <2>3. PICK x \in of : TRUE
    BY <1>2, <1>3
  <2>4. \A t \in of : worth[t] \in Nat /\ worth[t] = hs[t].value
    BY <1>1
  <2>5. \A t \in of : cost[t] \in Nat /\ cost[t] > 0 /\ cost[t] = Cost(t)
    BY <2>2, CostFacts
  <2>0. \A t \in of : t \in Of(c) /\ t \in DOMAIN hs
    OBVIOUS
  <2> HIDE DEF worth, cost, of
  <2>20. of \ {x} \subseteq of /\ IsFiniteSet(of \ {x})
    BY <2>2, FS_Subset
  <2>21. /\ SumFunctionOnSet(cost, of \ {x}) \in Nat /\ SumFunctionOnSet(worth, of \ {x}) \in Nat
    <3>1. /\ \A t \in of \ {x} : cost[t] \in Nat
          /\ \A t \in of \ {x} : worth[t] \in Nat
      BY <2>4, <2>5
    <3> QED
      BY <2>20, <3>1, SumNat
  <2>22. /\ B = cost[x] + SumFunctionOnSet(cost, of \ {x})
         /\ W = worth[x] + SumFunctionOnSet(worth, of \ {x})
    <3>1. (\A t \in of : cost[t] \in Int) /\ (\A t \in of : worth[t] \in Int)
      BY <2>4, <2>5
    <3>2. B = cost[x] + SumFunctionOnSet(cost, of \ {x})
      BY <2>2, <2>3, <3>1, SumFacts
    <3>3. W = worth[x] + SumFunctionOnSet(worth, of \ {x})
      BY <2>2, <2>3, <3>1, SumFacts
    <3> QED
      BY <3>2, <3>3
  <2>23. cost[x] \in Nat /\ cost[x] > 0 /\ worth[x] \in Nat
    BY <2>3, <2>4, <2>5
  <2>9. ASSUME \A t \in Of(c) : hs[t].pnl_pct > 0
        PROVE  W >= B
    <3>1. ASSUME NEW t \in of PROVE cost[t] \in Int /\ worth[t] \in Int /\ cost[t] <= worth[t]
      <4>1. t \in DOMAIN hs /\ hs[t].pnl_pct > 0
        BY <2>0, <2>9
      <4>2. /\ Cost(t) \in Nat /\ Cost(t) > 0 /\ hs[t].value \in Nat
            /\ hs[t].pnl_pct = Percent(hs[t].value - Cost(t), Cost(t))
        BY <1>1, <4>1, CostFacts DEF Gain
      <4>3. hs[t].value - Cost(t) \in Int
        BY <4>2
      <4>4. hs[t].value - Cost(t) > 0
        BY <4>1, <4>2, <4>3, PercentSign
      <4>5. Cost(t) <= hs[t].value /\ Cost(t) \in Int /\ hs[t].value \in Int
        BY <4>2, <4>4
      <4> QED
        BY <2>4, <2>5, <4>5
    <3> QED
      BY <2>2, <3>1, SumMonotone
  <2>10. ASSUME \A t \in Of(c) : hs[t].pnl_pct < 0
         PROVE  W < B
    <3>1. ASSUME NEW t \in of PROVE cost[t] \in Int /\ worth[t] \in Int /\ worth[t] < cost[t]
      <4>1. t \in DOMAIN hs /\ hs[t].pnl_pct < 0
        BY <2>0, <2>10
      <4>2. /\ Cost(t) \in Nat /\ Cost(t) > 0 /\ hs[t].value \in Nat
            /\ hs[t].pnl_pct = Percent(hs[t].value - Cost(t), Cost(t))
        BY <1>1, <4>1, CostFacts DEF Gain
      <4>3. hs[t].value - Cost(t) \in Int
        BY <4>2
      <4>4. hs[t].value - Cost(t) < 0
        BY <4>1, <4>2, <4>3, PercentSign
      <4>5. hs[t].value < Cost(t) /\ Cost(t) \in Int /\ hs[t].value \in Int
        BY <4>2, <4>4
      <4> QED
        BY <2>4, <2>5, <4>5
    <3>2. \A t \in of \ {x} : cost[t] \in Int /\ worth[t] \in Int /\ worth[t] <= cost[t]
      BY <3>1
    <3>3. SumFunctionOnSet(worth, of \ {x}) <= SumFunctionOnSet(cost, of \ {x})
      BY <2>20, <3>2, SumMonotone
    <3>4. worth[x] < cost[x]
      BY <2>3, <3>1
    <3> HIDE DEF W, B
    <3> QED
      BY <2>21, <2>22, <2>23, <3>3, <3>4
  <2> HIDE DEF W, B
  <2>7. W \in Nat /\ B \in Nat /\ B > 0
    BY <2>21, <2>22, <2>23
  <2>8. W - B \in Int
    BY <2>7
  <2>11. /\ Percent(W - B, B) \in Int
         /\ W - B >= 0 => Percent(W - B, B) >= 0
         /\ W - B <= 0 => Percent(W - B, B) <= 0
    BY <2>7, <2>8, PercentSign
  <2>12. /\ Percent(W - B, B) > 0 => W - B >= 0
         /\ Percent(W - B, B) < 0 => W - B < 0
    BY <2>8, <2>11
  <2>13. (W >= B => W - B >= 0) /\ (W < B => W - B < 0)
    BY <2>7
  <2> QED
    BY <2>1, <2>8, <2>9, <2>10, <2>11, <2>12, <2>13
<1> QED
  BY <1>2, <1>3

-----------------------------------------------------------------------------
(* The invariant of the analytics: what is stored, what a request holds,   *)
(* and what the page was answered.                                         *)

\* The snapshots are in the order they were taken.
SnapshotsRight == /\ snapshots \in Seq(Shots) /\ Len(snapshots) <= MaxSnapshots
                  /\ \A i, j \in DOMAIN snapshots : i <= j => snapshots[j].age <= snapshots[i].age

JobRight == job \in [pc : {"due", "read", "asleep"}, holdings : SUBSET Tickers]

\* A history read is still what would be read, until a snapshot is stored.
QueryRight ==
  /\ query \in [pc : {"none", "sent", "history"}, history : Seq(Shots)]
  /\ page \in {"closed", "loading", "data", "error"} /\ overtaken \in BOOLEAN
  /\ page = "loading" <=> query.pc # "none"
  /\ query.pc = "history" /\ ~overtaken => query.history = HistorySince(HistoryDays)

DataRight ==
  page = "data" => /\ data.history \in Seq(Shots)
                   /\ data.totals = IF data.history = <<>> THEN <<>> ELSE Last(data.history).totals

AnalyticsInv == SnapshotsRight /\ JobRight /\ QueryRight /\ DataRight /\ PerformersAgree

\* The snapshots of the last days: any of them end with the latest snapshot.
LEMMA HistoryFacts ==
  ASSUME SnapshotsRight, NEW days \in Nat
  PROVE  /\ HistorySince(days) \in Seq(Shots)
         /\ HistorySince(days) # <<>> =>
              /\ Last(HistorySince(days)) = Last(snapshots)
              /\ \A more \in Nat : days <= more => HistorySince(more) # <<>>
<1> DEFINE I(d) == {i \in DOMAIN snapshots : snapshots[i].age <= d}
           n == Len(snapshots)
<1>1. /\ snapshots \in Seq(Shots) /\ n \in Nat /\ DOMAIN snapshots = 1..n
      /\ \A i \in 1..n : snapshots[i] \in Shots
      /\ \A i, j \in 1..n : i <= j => snapshots[j].age <= snapshots[i].age
  BY DEF SnapshotsRight
<1>2. \A i \in 1..n : snapshots[i].age \in Nat
  <2>1. Retention \in Nat
    BY AnalyticsAssumption
  <2>2. \A i \in 1..n : snapshots[i].age \in 0..Retention
    BY <1>1, ShotFacts
  <2> QED
    BY <2>1, <2>2
<1>3. \A d \in Nat : I(d) \subseteq DOMAIN snapshots /\ HistorySince(d) = Keep(snapshots, I(d))
  BY DEF HistorySince
<1>4. ASSUME NEW d \in Nat, I(d) # {} PROVE Len(snapshots) \in I(d)
  <2>1. PICK i \in 1..n : snapshots[i].age <= d
    BY <1>1, <1>4
  <2>2. i <= n /\ n \in 1..n
    BY <1>1
  <2>3. snapshots[n].age <= snapshots[i].age
    BY <1>1, <2>2
  <2>4. snapshots[n].age <= d
    BY <1>2, <2>1, <2>2, <2>3
  <2> QED
    BY <1>1, <2>2, <2>4
<1>5. ASSUME NEW d \in Nat, I(d) # {}
      PROVE  HistorySince(d) # <<>> /\ Last(HistorySince(d)) = Last(snapshots)
  <2> HIDE DEF I
  <2> QED
    BY <1>1, <1>3, <1>4, <1>5, KeepLast
<1>6. I(days) = {} => HistorySince(days) = <<>>
  <2>1. I(days) = {} => Cardinality(I(days)) = 0
    BY FS_EmptySet
  <2>2. HistorySince(days) \in Seq(Shots) /\ Len(HistorySince(days)) = Cardinality(I(days))
    <3> HIDE DEF I
    <3> QED
      BY <1>1, <1>3, KeepFacts
  <2> HIDE DEF I
  <2> QED
    BY <2>1, <2>2
<1>7. HistorySince(days) \in Seq(Shots)
  <2> HIDE DEF I
  <2> QED
    BY <1>1, <1>3, KeepRange
<1>8. ASSUME NEW more \in Nat, days <= more, I(days) # {} PROVE I(more) # {}
  BY <1>1, <1>2, <1>8
<1> HIDE DEF I
<1> QED
  BY <1>5, <1>6, <1>7, <1>8

\* What is kept of the snapshots is still in order.
LEMMA KeptFacts ==
  ASSUME SnapshotsRight, NEW I, I \subseteq DOMAIN snapshots
  PROVE  LET kept == Keep(snapshots, I)
         IN /\ kept \in Seq(Shots)
            /\ \A i, j \in DOMAIN kept : i <= j => kept[j].age <= kept[i].age
<1> DEFINE kept == Keep(snapshots, I)
           m == Cardinality(I)
<1>1. /\ snapshots \in Seq(Shots) /\ Len(snapshots) \in Nat /\ I \subseteq 1..Len(snapshots)
      /\ \A i, j \in DOMAIN snapshots : i <= j => snapshots[j].age <= snapshots[i].age
  BY DEF SnapshotsRight
<1>2. /\ kept \in Seq(Shots) /\ Len(kept) = m /\ m \in 0..Len(snapshots)
      /\ \A k \in 1..m : Nth(I, k) \in I /\ kept[k] = snapshots[Nth(I, k)]
  BY <1>1, KeepFacts
<1>3. \A k, l \in 1..m : k < l => Nth(I, k) < Nth(I, l)
  BY <1>1, NthOrder
<1> HIDE DEF kept, m
<1>4. DOMAIN kept = 1..m /\ m \in Nat
  BY <1>1, <1>2
<1>5. \A k \in 1..m : Nth(I, k) \in Nat /\ Nth(I, k) \in DOMAIN snapshots
  BY <1>1, <1>2
<1>6. ASSUME NEW i \in 1..m, NEW j \in 1..m, i <= j PROVE kept[j].age <= kept[i].age
  <2>1. Nth(I, i) <= Nth(I, j)
    <3>1. CASE i = j
      BY <1>5, <3>1
    <3>2. CASE i < j
      <4>1. Nth(I, i) < Nth(I, j)
        BY <1>3, <3>2
      <4> QED
        BY <1>5, <4>1
    <3>3. i \in Nat /\ j \in Nat
      BY <1>4
    <3> QED
      BY <1>6, <3>1, <3>2, <3>3
  <2> QED
    BY <1>1, <1>2, <1>5, <2>1
<1> QED
  BY <1>2, <1>4, <1>6 DEF kept

\* The holdings with a price make a snapshot as it should be.
LEMMA HoldingsFacts ==
  ASSUME NEW known, known \subseteq Tickers, known # {}, NEW price, DOMAIN price = known,
         \A t \in known : price[t] \in Prices[t]
  PROVE  [t \in DOMAIN price |-> HoldingSnapshot(t, price[t])] \in Holdings
<1> DEFINE hs == [t \in DOMAIN price |-> HoldingSnapshot(t, price[t])]
<1>1. ASSUME NEW t \in known
      PROVE  /\ hs[t] \in Holding /\ hs[t].pnl_pct = Gain(hs[t].value, t)
  <2>1. Prices \in [Tickers -> SUBSET (Nat \ {0})] /\ Lot \in [Tickers -> [quantity : Nat \ {0}, avg_cost : Nat \ {0}]]
    BY AnalyticsAssumption
  <2>2. price[t] \in Nat \ {0} /\ Lot[t].quantity \in Nat
    BY <2>1
  <2> DEFINE value == price[t] * Lot[t].quantity
  <2>3. value \in Nat
    BY <2>2
  <2>4. /\ hs[t].price = price[t] /\ hs[t].value = value
        /\ hs[t] = [price |-> price[t], value |-> value, pnl_pct |-> Percent(value - Cost(t), Cost(t))]
    BY DEF HoldingSnapshot
  <2> HIDE DEF value, hs
  <2>5. Cost(t) \in Nat /\ Cost(t) > 0
    BY CostFacts
  <2>6. value - Cost(t) \in Int
    BY <2>3, <2>5
  <2>7. Percent(value - Cost(t), Cost(t)) \in Int
    BY <2>5, <2>6, PercentSign
  <2> QED
    BY <2>2, <2>3, <2>4, <2>7 DEF Holding, Gain
<1>2. DOMAIN hs = known
  OBVIOUS
<1>3. hs = [t \in known |-> hs[t]]
  OBVIOUS
<1> HIDE DEF hs
<1>4. hs \in [known -> Holding]
  BY <1>1, <1>3
<1>5. hs \in UNION {[S -> Holding] : S \in (SUBSET Tickers) \ {{}}}
  BY <1>4
<1>6. hs \in Holdings
  BY <1>1, <1>2, <1>5 DEF Holdings
<1> QED
  BY <1>6 DEF hs

\* A snapshot stored is the latest.
LEMMA SnapshotKeeps ==
  ASSUME AnalyticsInv, NEW known \in SUBSET job.holdings,
         NEW price \in [known -> UNION Range(Prices)], \A t \in known : price[t] \in Prices[t],
         Snapshot(price)
  PROVE  AnalyticsInv'
<1> DEFINE hs == [t \in DOMAIN price |-> HoldingSnapshot(t, price[t])]
           I == {i \in DOMAIN snapshots : snapshots[i].age < Retention}
           kept == Keep(snapshots, I)
           new == [age |-> 0, totals |-> Totals(hs), holdings |-> hs]
<1>1. /\ page # "data" /\ UNCHANGED <<query, page, data>>
      /\ job' = [pc |-> "asleep", holdings |-> {}]
      /\ IF price = <<>> THEN UNCHANGED <<snapshots, overtaken>>
         ELSE /\ Len(kept) < MaxSnapshots /\ snapshots' = Append(kept, new)
              /\ overtaken' = (overtaken \/ query.pc = "history")
  BY DEF Snapshot, Waiting, Asleep
<1>2. JobRight'
  BY <1>1 DEF JobRight
<1>3. DataRight' /\ PerformersAgree'
  BY <1>1 DEF DataRight, PerformersAgree
<1>4. SnapshotsRight /\ QueryRight /\ known \subseteq Tickers /\ DOMAIN price = known
  BY DEF AnalyticsInv, JobRight
<1>5. CASE price = <<>>
  <2>1. UNCHANGED <<snapshots, overtaken, query, page>>
    BY <1>1, <1>5
  <2>2. SnapshotsRight' /\ QueryRight'
    BY <1>4, <2>1 DEF SnapshotsRight, QueryRight, HistorySince
  <2> QED
    BY <1>2, <1>3, <2>2 DEF AnalyticsInv
<1>6. CASE price # <<>>
  <2>1. known # {}
    <3> SUFFICES ASSUME known = {} PROVE price = <<>>
      BY <1>6
    <3>1. DOMAIN price = {} /\ price = [t \in DOMAIN price |-> price[t]]
      BY <1>4
    <3>2. price \in [1..0 -> {}]
      BY <3>1
    <3>3. price \in Seq({}) /\ Len(price) = 0
      BY <3>2
    <3> QED
      BY <3>3
  <2>2. hs \in Holdings
    BY <1>4, <2>1, HoldingsFacts
  <2> HIDE DEF hs
  <2>3. new \in Shots
    <3>1. 0 \in 0..Retention
      BY AnalyticsAssumption
    <3> QED
      BY <2>2, <3>1 DEF Shots
  <2>4. new.age = 0
    OBVIOUS
  <2>5. I \subseteq DOMAIN snapshots
    OBVIOUS
  <2> HIDE DEF new, I
  <2>6. /\ kept \in Seq(Shots)
        /\ \A i, j \in DOMAIN kept : i <= j => kept[j].age <= kept[i].age
    BY <1>4, <2>5, KeptFacts
  <2> HIDE DEF kept
  <2>7. Len(kept) < MaxSnapshots /\ snapshots' = Append(kept, new)
    BY <1>1, <1>6 DEF kept
  <2>8. /\ Len(kept) \in Nat /\ MaxSnapshots \in Nat /\ DOMAIN kept = 1..Len(kept)
        /\ snapshots' \in Seq(Shots) /\ Len(snapshots') = Len(kept) + 1
        /\ DOMAIN snapshots' = 1..(Len(kept) + 1)
        /\ \A i \in 1..Len(kept) : snapshots'[i] = kept[i]
        /\ snapshots'[Len(kept) + 1] = new
    BY <2>3, <2>6, <2>7, AnalyticsAssumption
  <2>9. \A i \in 1..Len(kept) : kept[i].age \in Nat
    <3>1. \A i \in 1..Len(kept) : kept[i] \in Shots
      BY <2>6, <2>8
    <3>2. Retention \in Nat
      BY AnalyticsAssumption
    <3>3. \A i \in 1..Len(kept) : kept[i].age \in 0..Retention
      BY <3>1, ShotFacts
    <3> QED
      BY <3>2, <3>3
  <2>10. ASSUME NEW i \in DOMAIN snapshots', NEW j \in DOMAIN snapshots', i <= j
         PROVE  snapshots'[j].age <= snapshots'[i].age
    <3>1. i \in 1..(Len(kept) + 1) /\ j \in 1..(Len(kept) + 1)
      BY <2>8
    <3>2. CASE j = Len(kept) + 1
      <4>1. snapshots'[j].age = 0
        BY <2>4, <2>8, <3>2
      <4>2. snapshots'[i].age \in Nat
        <5>1. i = Len(kept) + 1 \/ i \in 1..Len(kept)
          BY <2>8, <3>1
        <5> QED
          BY <2>4, <2>8, <2>9, <5>1
      <4> QED
        BY <4>1, <4>2
    <3>3. CASE j # Len(kept) + 1
      <4>1. j \in 1..Len(kept) /\ i \in 1..Len(kept)
        BY <2>8, <2>10, <3>1, <3>3
      <4> QED
        BY <2>6, <2>8, <2>10, <4>1
    <3> QED
      BY <3>2, <3>3
  <2>11. SnapshotsRight'
    <3>1. Len(snapshots') <= MaxSnapshots
      BY <2>7, <2>8
    <3> QED
      BY <2>8, <2>10, <3>1 DEF SnapshotsRight
  <2>12. QueryRight'
    <3>1. query' = query /\ page' = page /\ overtaken' = (overtaken \/ query.pc = "history")
      BY <1>1, <1>6
    <3>2. query'.pc = "history" => overtaken'
      BY <3>1
    <3>3. overtaken' \in BOOLEAN
      BY <3>1
    <3> QED
      BY <1>4, <3>1, <3>2, <3>3 DEF QueryRight
  <2> QED
    BY <1>2, <1>3, <2>11, <2>12 DEF AnalyticsInv
<1> QED
  BY <1>5, <1>6

\* An hour makes every snapshot older, and keeps their order.
LEMMA HourKeeps ==
  ASSUME AnalyticsInv, Hour
  PROVE  AnalyticsInv'
<1> DEFINE older(a) == IF a < Retention THEN a + 1 ELSE a
<1>1. /\ page # "data" /\ query.pc = "none" /\ job' = [job EXCEPT !.pc = "due"]
      /\ snapshots' = [i \in DOMAIN snapshots |-> [snapshots[i] EXCEPT !.age = older(snapshots[i].age)]]
      /\ UNCHANGED <<query, page, data, overtaken>>
  BY DEF Hour, Waiting
<1>2. JobRight'
  BY <1>1 DEF AnalyticsInv, JobRight
<1>3. DataRight' /\ PerformersAgree' /\ QueryRight'
  BY <1>1 DEF AnalyticsInv, DataRight, PerformersAgree, QueryRight
<1>4. /\ snapshots \in Seq(Shots) /\ Len(snapshots) <= MaxSnapshots
      /\ \A i, j \in DOMAIN snapshots : i <= j => snapshots[j].age <= snapshots[i].age
      /\ Retention \in Nat
  BY AnalyticsAssumption DEF AnalyticsInv, SnapshotsRight
<1>5. /\ Len(snapshots) \in Nat /\ DOMAIN snapshots = 1..Len(snapshots)
      /\ \A i \in DOMAIN snapshots : snapshots[i] \in Shots
  BY <1>4
<1>6. ASSUME NEW i \in DOMAIN snapshots
      PROVE  /\ snapshots'[i] \in Shots /\ snapshots'[i].age = older(snapshots[i].age)
             /\ snapshots[i].age \in Nat
  <2>1. PICK a \in 0..Retention, hs \in Holdings : snapshots[i] = [age |-> a, totals |-> Totals(hs), holdings |-> hs]
    BY <1>5 DEF Shots
  <2>2. older(a) \in 0..Retention /\ a \in Nat
    BY <1>4
  <2>3. snapshots'[i] = [age |-> older(a), totals |-> Totals(hs), holdings |-> hs]
    <3> HIDE DEF older
    <3> QED
      BY <1>1, <2>1
  <2> HIDE DEF older
  <2>4. snapshots'[i] \in Shots
    BY <2>2, <2>3 DEF Shots
  <2> QED
    BY <2>1, <2>2, <2>3, <2>4
<1>7. DOMAIN snapshots' = DOMAIN snapshots /\ snapshots' = [i \in 1..Len(snapshots) |-> snapshots'[i]]
  <2> HIDE DEF older
  <2> QED
    BY <1>1, <1>5
<1>8. snapshots' \in Seq(Shots) /\ Len(snapshots') = Len(snapshots)
  <2>1. snapshots' \in [1..Len(snapshots) -> Shots]
    BY <1>5, <1>6, <1>7
  <2> QED
    BY <1>5, <2>1
<1>9. ASSUME NEW i \in DOMAIN snapshots, NEW j \in DOMAIN snapshots, i <= j
      PROVE  snapshots'[j].age <= snapshots'[i].age
  <2>1. /\ snapshots[j].age <= snapshots[i].age /\ snapshots[j].age \in Nat /\ snapshots[i].age \in Nat
        /\ snapshots'[j].age = older(snapshots[j].age) /\ snapshots'[i].age = older(snapshots[i].age)
    BY <1>4, <1>6, <1>9
  <2> QED
    BY <1>4, <2>1
<1>10. SnapshotsRight'
  BY <1>4, <1>7, <1>8, <1>9 DEF SnapshotsRight
<1> QED
  BY <1>2, <1>3, <1>10 DEF AnalyticsInv

\* The best and the worst performer are holdings of the latest snapshot, or there are none.
LEMMA PerformersFacts ==
  ASSUME SnapshotsRight, NEW performers \in PerformanceWindow(HistorySince(Window))
  PROVE  \/ performers.best = NoPerformer /\ performers.worst = NoPerformer
         \/ /\ HistorySince(HistoryDays) # <<>>
            /\ \A p \in {performers.best, performers.worst} :
                 /\ p.ticker \in DOMAIN Last(HistorySince(HistoryDays)).holdings
                 /\ p.ticker \in Tickers /\ p # NoPerformer
            /\ performers.best.change_pct >= performers.worst.change_pct
<1> DEFINE history == HistorySince(Window)
           changes == Changes(history)
           latest == HistorySince(HistoryDays)
<1>1. /\ history \in Seq(Shots)
      /\ history # <<>> => Last(history) = Last(snapshots) /\ latest # <<>> /\ Last(latest) = Last(snapshots)
  <2>1. Window \in Nat /\ HistoryDays \in Nat /\ Window <= HistoryDays
    BY AnalyticsAssumption
  <2> QED
    BY <2>1, HistoryFacts
<1> HIDE DEF latest, history
<1>2. CASE Len(history) < 2 \/ changes = {}
  <2>1. performers = [best |-> NoPerformer, worst |-> NoPerformer]
    BY <1>2 DEF PerformanceWindow, history
  <2> QED
    BY <2>1
<1>3. CASE ~(Len(history) < 2) /\ changes # {}
  <2>1. PICK b \in changes, w \in changes :
          /\ performers = [best |-> b, worst |-> w]
          /\ \A y \in changes : y.change_pct <= b.change_pct
    BY <1>3 DEF PerformanceWindow, history
  <2>2. history # <<>> /\ Len(history) \in Nat /\ Len(history) >= 2
    BY <1>1, <1>3
  <2> DEFINE first == Head(history).holdings
             last == Last(history).holdings
  <2>3. Head(history) \in Shots /\ Last(history) \in Shots
    BY <1>1, <2>2 DEF Last
  <2>4. ASSUME NEW p \in changes
        PROVE  p.ticker \in DOMAIN last /\ p.ticker \in Tickers /\ p # NoPerformer /\ p.change_pct \in Int
    <3>1. PICK t \in DOMAIN first \cap DOMAIN last :
            p = [ticker |-> t, change_pct |-> Percent(last[t].price - first[t].price, first[t].price)]
      BY DEF Changes
    <3>2. /\ t \in Tickers /\ t # "none" /\ first[t] \in Holding /\ last[t] \in Holding
      BY <2>3, ShotFacts, AnalyticsAssumption
    <3>3. first[t].price \in Nat /\ first[t].price > 0 /\ last[t].price - first[t].price \in Int
      BY <3>2 DEF Holding
    <3>4. Percent(last[t].price - first[t].price, first[t].price) \in Int
      BY <3>3, PercentSign
    <3>5. p.ticker = t /\ p.change_pct \in Int
      BY <3>1, <3>4
    <3>6. NoPerformer.ticker = "none"
      BY DEF NoPerformer
    <3> QED
      BY <3>2, <3>5, <3>6
  <2>5. last = Last(latest).holdings
    BY <1>1, <2>2
  <2> HIDE DEF changes, last
  <2>6. b.change_pct >= w.change_pct
    BY <2>1, <2>4
  <2>7. performers.best = b /\ performers.worst = w
    BY <2>1
  <2> QED
    BY <1>1, <2>1, <2>2, <2>4, <2>5, <2>6, <2>7 DEF latest
<1> QED
  BY <1>2, <1>3

LEMMA QueryFacts ==
  /\ NoQuery.pc = "none" /\ NoQuery \in [pc : {"none", "sent", "history"}, history : Seq(Shots)]
  /\ [NoQuery EXCEPT !.pc = "sent"].pc = "sent"
  /\ [NoQuery EXCEPT !.pc = "sent"] \in [pc : {"none", "sent", "history"}, history : Seq(Shots)]
<1>1. <<>> \in Seq(Shots)
  OBVIOUS
<1>2. NoQuery = [pc |-> "none", history |-> <<>>]
  BY DEF NoQuery
<1>3. [NoQuery EXCEPT !.pc = "sent"] = [pc |-> "sent", history |-> <<>>]
  BY <1>2
<1>4. NoQuery.pc = "none" /\ [NoQuery EXCEPT !.pc = "sent"].pc = "sent"
  BY <1>2, <1>3
<1>5. NoQuery \in [pc : {"none", "sent", "history"}, history : Seq(Shots)]
  BY <1>1, <1>2
<1>6. [NoQuery EXCEPT !.pc = "sent"] \in [pc : {"none", "sent", "history"}, history : Seq(Shots)]
  BY <1>1, <1>3
<1> QED
  BY <1>4, <1>5, <1>6

\* The answer is what was read, and the performers agree with it.
LEMMA AnswerRight ==
  ASSUME AnalyticsInv, ReadPerformance
  PROVE  AnalyticsInv'
<1>1. PICK performers \in PerformanceWindow(HistorySince(Window)) :
        data' = [totals |-> IF query.history = <<>> THEN <<>> ELSE Last(query.history).totals,
                 history |-> query.history,
                 best_performer_7d |-> performers.best, worst_performer_7d |-> performers.worst]
  BY DEF ReadPerformance
<1>2. /\ query.pc = "history" /\ query' = NoQuery /\ page' = "data"
      /\ UNCHANGED <<snapshots, job, overtaken>>
  BY DEF ReadPerformance
<1>3. SnapshotsRight /\ JobRight /\ QueryRight
  BY DEF AnalyticsInv
<1>4. /\ data'.history = query.history /\ data'.best_performer_7d = performers.best
      /\ data'.worst_performer_7d = performers.worst
      /\ data'.totals = IF query.history = <<>> THEN <<>> ELSE Last(query.history).totals
  BY <1>1
<1>5. query.history \in Seq(Shots)
  BY <1>3 DEF QueryRight
<1>6. DataRight'
  BY <1>4, <1>5 DEF DataRight
<1>7. QueryRight'
  BY <1>2, <1>3, QueryFacts DEF QueryRight
<1>8. SnapshotsRight' /\ JobRight'
  BY <1>2, <1>3 DEF SnapshotsRight, JobRight
<1>9. PerformersAgree'
  <2>1. CASE performers.best = NoPerformer /\ performers.worst = NoPerformer
    <3>1. Performers' = {}
      BY <1>4, <2>1 DEF Performers
    <3>2. NoPerformer.change_pct = 0
      BY DEF NoPerformer
    <3> QED
      BY <1>4, <2>1, <3>1, <3>2 DEF PerformersAgree
  <2>2. CASE /\ HistorySince(HistoryDays) # <<>>
             /\ \A p \in {performers.best, performers.worst} :
                  /\ p.ticker \in DOMAIN Last(HistorySince(HistoryDays)).holdings
                  /\ p.ticker \in Tickers /\ p # NoPerformer
             /\ performers.best.change_pct >= performers.worst.change_pct
    <3>1. ASSUME ~overtaken' PROVE \A p \in Performers' : p.ticker \in CurrentTickers'
      <4>1. query.history = HistorySince(HistoryDays)
        BY <1>2, <1>3, <3>1 DEF QueryRight
      <4>2. CurrentTickers' = DOMAIN Last(HistorySince(HistoryDays)).holdings
        BY <1>4, <2>2, <4>1 DEF CurrentTickers
      <4> QED
        BY <1>4, <2>2, <4>2 DEF Performers
    <3> QED
      BY <1>4, <2>2, <3>1 DEF PerformersAgree
  <2> QED
    BY <1>3, <2>1, <2>2, PerformersFacts
<1> QED
  BY <1>6, <1>7, <1>8, <1>9 DEF AnalyticsInv

\* The other steps of a request, its failure and its page, and a restart.
LEMMA QueryKeeps ==
  ASSUME AnalyticsInv, Restart \/ ReadHistory \/ RequestFails \/ Mount \/ Unmount
  PROVE  AnalyticsInv'
<1>1. snapshots' = snapshots /\ data' = data
  BY DEF Restart, ReadHistory, RequestFails, Mount, Unmount
<1>2. /\ SnapshotsRight /\ JobRight /\ QueryRight
      /\ query \in [pc : {"none", "sent", "history"}, history : Seq(Shots)]
      /\ page \in {"closed", "loading", "data", "error"} /\ overtaken \in BOOLEAN
      /\ page = "loading" <=> query.pc # "none"
      /\ query.pc = "history" /\ ~overtaken => query.history = HistorySince(HistoryDays)
  BY DEF AnalyticsInv, QueryRight
<1>3. SnapshotsRight' /\ JobRight'
  BY <1>1, <1>2 DEF SnapshotsRight, JobRight, Restart, ReadHistory, RequestFails, Mount, Unmount
<1>4. page' # "data"
  BY <1>2 DEF Restart, ReadHistory, RequestFails, Mount, Unmount, Waiting
<1>5. DataRight' /\ PerformersAgree'
  BY <1>4 DEF DataRight, PerformersAgree
<1>6. /\ NoQuery.pc = "none" /\ NoQuery \in [pc : {"none", "sent", "history"}, history : Seq(Shots)]
      /\ [NoQuery EXCEPT !.pc = "sent"].pc = "sent"
      /\ [NoQuery EXCEPT !.pc = "sent"] \in [pc : {"none", "sent", "history"}, history : Seq(Shots)]
  BY QueryFacts
<1>7. CASE Restart \/ RequestFails \/ Unmount
  <2>1. query' = NoQuery /\ overtaken' = FALSE
    BY <1>7 DEF Restart, RequestFails, Unmount
  <2>2. page' \in {"closed", "data", "error"}
    BY <1>2, <1>7 DEF Restart, RequestFails, Unmount, Waiting
  <2> QED
    BY <1>3, <1>5, <1>6, <2>1, <2>2 DEF AnalyticsInv, QueryRight
<1>8. CASE Mount
  <2>1. page' = "loading" /\ query' = [NoQuery EXCEPT !.pc = "sent"] /\ overtaken' = overtaken
    BY <1>8 DEF Mount
  <2> QED
    BY <1>2, <1>3, <1>5, <1>6, <2>1 DEF AnalyticsInv, QueryRight
<1>9. CASE ReadHistory
  <2>1. /\ query.pc = "sent" /\ query' = [pc |-> "history", history |-> HistorySince(HistoryDays)]
        /\ page' = page /\ overtaken' = overtaken
    BY <1>9 DEF ReadHistory
  <2>2. HistorySince(HistoryDays) \in Seq(Shots)
    <3>1. HistoryDays \in Nat
      BY AnalyticsAssumption
    <3> QED
      BY <1>2, <3>1, HistoryFacts
  <2>3. HistorySince(HistoryDays)' = HistorySince(HistoryDays)
    BY <1>1 DEF HistorySince
  <2>4. /\ query' \in [pc : {"none", "sent", "history"}, history : Seq(Shots)]
        /\ query'.pc = "history" /\ query'.history = HistorySince(HistoryDays)'
    BY <2>1, <2>2, <2>3
  <2> QED
    BY <1>2, <1>3, <1>5, <2>1, <2>4 DEF AnalyticsInv, QueryRight
<1> QED
  BY <1>7, <1>8, <1>9

\* The steps of the loop that store nothing.
LEMMA JobKeeps ==
  ASSUME AnalyticsInv, (\E held \in SUBSET Tickers : ReadHoldings(held)) \/ SnapshotFails
  PROVE  AnalyticsInv'
<1>1. UNCHANGED <<snapshots, query, page, data, overtaken>>
  BY DEF ReadHoldings, SnapshotFails
<1>2. JobRight'
  BY DEF AnalyticsInv, JobRight, ReadHoldings, SnapshotFails, Asleep
<1> QED
  BY <1>1, <1>2 DEF AnalyticsInv, SnapshotsRight, QueryRight, DataRight, PerformersAgree,
                    HistorySince, Performers, CurrentTickers

LEMMA AnalyticsSteps == AnalyticsInv /\ [AnalyticsNext]_analyticsVars => AnalyticsInv'
<1> SUFFICES ASSUME AnalyticsInv, [AnalyticsNext]_analyticsVars PROVE AnalyticsInv'
  OBVIOUS
<1>1. CASE UNCHANGED analyticsVars
  BY <1>1 DEF analyticsVars, AnalyticsInv, SnapshotsRight, JobRight, QueryRight, DataRight,
              PerformersAgree, HistorySince, Performers, CurrentTickers
<1>2. ASSUME NEW known \in SUBSET job.holdings,
             NEW price \in {f \in [known -> UNION Range(Prices)] : \A t \in known : f[t] \in Prices[t]},
             Snapshot(price)
      PROVE  AnalyticsInv'
  BY <1>2, SnapshotKeeps
<1> QED
  BY <1>1, <1>2, HourKeeps, AnswerRight, QueryKeeps, JobKeeps DEF AnalyticsNext

LEMMA AnalyticsStart == AnalyticsInit => AnalyticsInv
<1> SUFFICES ASSUME AnalyticsInit PROVE AnalyticsInv
  OBVIOUS
<1>1. /\ snapshots = <<>> /\ job = [pc |-> "due", holdings |-> {}]
      /\ query = NoQuery /\ page = "closed" /\ overtaken = FALSE
  BY DEF AnalyticsInit
<1>2. SnapshotsRight
  BY <1>1, AnalyticsAssumption DEF SnapshotsRight
<1>3. JobRight
  BY <1>1 DEF JobRight
<1>4. QueryRight
  BY <1>1, QueryFacts DEF QueryRight
<1> QED
  BY <1>1, <1>2, <1>3, <1>4 DEF AnalyticsInv, DataRight, PerformersAgree

LEMMA AnalyticsHolds == AnalyticsSpec => []AnalyticsInv
<1> QED
  BY AnalyticsStart, AnalyticsSteps, PTL DEF AnalyticsSpec

\* The best and the worst performer of the window are in order, and holdings of the page, however
\* many snapshots there are and whenever they are stored.
THEOREM PerformersHold == AnalyticsSpec => []PerformersAgree
<1>1. AnalyticsInv => PerformersAgree
  BY DEF AnalyticsInv
<1> QED
  BY <1>1, AnalyticsHolds, PTL

\* Whatever was bought, sold or not priced between any two snapshots, the bars of a currency lead
\* from its total of the first to its total of the last.
THEOREM WaterfallHolds == AnalyticsSpec => []WaterfallBalances
<1>1. AnalyticsInv => WaterfallBalances
  <2> SUFFICES ASSUME AnalyticsInv, page = "data", NEW c \in DOMAIN Contribution
               PROVE  Balanced(Contribution[c], Head(data.history), Last(data.history), c)
    BY DEF WaterfallBalances, Balanced
  <2>1. data.history \in Seq(Shots)
    BY DEF AnalyticsInv, DataRight
  <2>2. Contribution[c] = BuildWaterfallData(data.history, c)
    BY DEF Contribution
  <2> QED
    BY <2>1, <2>2, WaterfallFacts
<1> QED
  BY <1>1, AnalyticsHolds, PTL

\* For any holdings, costs and prices, the sections of the page agree on who gains,
\* as far as the rounding of the percentages lets them.
THEOREM ChartsAgreeHolds == AnalyticsSpec => []ChartsAgree
<1>1. AnalyticsInv => ChartsAgree
  <2> SUFFICES ASSUME AnalyticsInv, page = "data" PROVE ChartsAgree
    BY DEF ChartsAgree
  <2> DEFINE history == data.history
  <2>1. /\ history \in Seq(Shots)
        /\ data.totals = IF history = <<>> THEN <<>> ELSE Last(history).totals
    BY DEF AnalyticsInv, DataRight
  <2>2. CASE history = <<>>
    <3>1. DOMAIN data.totals = {} /\ CurrentTickers = {}
      BY <2>1, <2>2 DEF CurrentTickers
    <3> QED
      BY <3>1 DEF ChartsAgree
  <2>3. CASE history # <<>>
    <3> DEFINE s == Last(history)
               hs == s.holdings
    <3>1. /\ s \in Shots /\ Len(history) \in DOMAIN history /\ s = history[Len(history)]
          /\ data.totals = s.totals /\ CurrentTickers = DOMAIN hs
      BY <2>1, <2>3 DEF CurrentTickers, Last
    <3> HIDE DEF s, history
    <3>2. /\ DOMAIN s.totals = {currencyForTicker(t) : t \in DOMAIN hs}
          /\ \A c \in DOMAIN s.totals :
               /\ s.totals[c].total_pnl_pct \in Int /\ s.totals[c].total_pnl \in Int
               /\ s.totals[c].total_pnl_pct > 0 => s.totals[c].total_pnl >= 0
               /\ s.totals[c].total_pnl_pct < 0 => s.totals[c].total_pnl < 0
               /\ (\A t \in OfCurrency(DOMAIN hs, c) : hs[t].pnl_pct > 0) => s.totals[c].total_pnl >= 0
               /\ (\A t \in OfCurrency(DOMAIN hs, c) : hs[t].pnl_pct < 0) => s.totals[c].total_pnl < 0
      BY <3>1, TotalsFacts DEF OfCurrency
    <3>3. ASSUME NEW c \in DOMAIN s.totals, DailyHistory[c] # <<>>
          PROVE  Last(DailyHistory[c]) = s.totals[c].total_pnl_pct
      <4> DEFINE I == {i \in DOMAIN history : c \in DOMAIN history[i].totals}
                 with == Keep(history, I)
                 series == [i \in DOMAIN with |-> with[i].totals[c].total_pnl_pct]
      <4>1. DailyHistory[c] = Plot(series)
        BY <3>1 DEF DailyHistory, BuildCurrencySeries, history
      <4>2. series # <<>> /\ DailyHistory[c] = series
        BY <3>3, <4>1 DEF Plot
      <4>3. I \subseteq DOMAIN history /\ Len(history) \in I
        BY <3>1
      <4> HIDE DEF I
      <4>4. with \in Seq(Shots) /\ with # <<>> /\ Last(with) = s
        BY <2>1, <4>3, KeepRange, KeepLast DEF s
      <4> HIDE DEF with
      <4>5. Len(with) \in DOMAIN with /\ Len(series) = Len(with)
        BY <4>4
      <4>6. Last(series) = Last(with).totals[c].total_pnl_pct
        BY <4>5 DEF Last
      <4> QED
        BY <4>2, <4>4, <4>6
    <3>4. ASSUME NEW t \in DOMAIN hs
          PROVE  /\ Last(BuildTickerSeries(history, t)) = hs[t].pnl_pct /\ hs[t].pnl_pct \in Int
                 /\ ByHolding[t].colour = "loss" => hs[t].pnl_pct < 0
      <4> DEFINE I == {i \in DOMAIN history : t \in DOMAIN history[i].holdings}
                 with == Keep(history, I)
                 series == [i \in DOMAIN with |-> with[i].holdings[t].pnl_pct]
      <4>1. ByHolding[t].colour = IF series # <<>> /\ Last(series) < 0 THEN "loss" ELSE "gain"
        BY <3>1 DEF ByHolding, BuildTickerSeries, history
      <4>2. BuildTickerSeries(history, t) = series
        BY DEF BuildTickerSeries
      <4>3. I \subseteq DOMAIN history /\ Len(history) \in I
        BY <3>1
      <4> HIDE DEF I
      <4>4. with \in Seq(Shots) /\ with # <<>> /\ Last(with) = s
        BY <2>1, <4>3, KeepRange, KeepLast DEF s
      <4> HIDE DEF with
      <4>5. Len(with) \in DOMAIN with /\ Len(series) = Len(with) /\ series # <<>>
        BY <4>4
      <4>6. Last(series) = Last(with).holdings[t].pnl_pct
        BY <4>5 DEF Last
      <4> HIDE DEF series
      <4>7. hs[t].pnl_pct \in Int
        BY <3>1, ShotFacts DEF Holding
      <4> QED
        BY <4>1, <4>2, <4>4, <4>6, <4>7
    <3>5. ASSUME NEW c \in DOMAIN s.totals
          PROVE  TotalReturn[c] = IF s.totals[c].total_pnl >= 0 THEN "gain" ELSE "loss"
      BY <3>1 DEF TotalReturn
    <3> HIDE DEF hs
    <3>6. ASSUME NEW c \in DOMAIN s.totals
          PROVE  /\ DailyHistory[c] # <<>> => /\ Last(DailyHistory[c]) > 0 => TotalReturn[c] = "gain"
                                              /\ Last(DailyHistory[c]) < 0 => TotalReturn[c] = "loss"
                 /\ TotalReturn[c] = "loss" =>
                      \E t \in OfCurrency(DOMAIN hs, c) : Last(BuildTickerSeries(history, t)) <= 0
                 /\ (\A t \in OfCurrency(DOMAIN hs, c) : ByHolding[t].colour = "loss")
                      => TotalReturn[c] = "loss"
      <4>1. OfCurrency(DOMAIN hs, c) \subseteq DOMAIN hs
        BY DEF OfCurrency
      <4>2. /\ s.totals[c].total_pnl \in Int /\ s.totals[c].total_pnl_pct \in Int
            /\ s.totals[c].total_pnl >= 0 <=> TotalReturn[c] = "gain"
            /\ s.totals[c].total_pnl < 0 <=> TotalReturn[c] = "loss"
        BY <3>2, <3>5
      <4>3. ASSUME TotalReturn[c] = "loss"
            PROVE  \E t \in OfCurrency(DOMAIN hs, c) : Last(BuildTickerSeries(history, t)) <= 0
        <5>1. PICK t \in OfCurrency(DOMAIN hs, c) : ~(hs[t].pnl_pct > 0)
          BY <3>2, <4>2, <4>3
        <5>2. t \in DOMAIN hs
          BY <4>1
        <5>3. Last(BuildTickerSeries(history, t)) = hs[t].pnl_pct /\ hs[t].pnl_pct \in Int
          BY <3>4, <5>2
        <5> QED
          BY <5>1, <5>3
      <4>4. ASSUME \A t \in OfCurrency(DOMAIN hs, c) : ByHolding[t].colour = "loss"
            PROVE  TotalReturn[c] = "loss"
        <5>1. \A t \in OfCurrency(DOMAIN hs, c) : hs[t].pnl_pct < 0
          BY <3>4, <4>1, <4>4
        <5> QED
          BY <3>2, <4>2, <5>1
      <4>5. ASSUME DailyHistory[c] # <<>>
            PROVE  /\ Last(DailyHistory[c]) > 0 => TotalReturn[c] = "gain"
                   /\ Last(DailyHistory[c]) < 0 => TotalReturn[c] = "loss"
        BY <3>2, <3>3, <4>2, <4>5
      <4> QED
        BY <4>3, <4>4, <4>5
    <3> QED
      BY <3>1, <3>2, <3>6 DEF ChartsAgree, OfCurrency, history
  <2> QED
    BY <2>2, <2>3
<1> QED
  BY <1>1, AnalyticsHolds, PTL

\* The variables of the server's analytics and of its page keep their types.
THEOREM AnalyticsTypeCorrect == AnalyticsSpec => []AnalyticsTypeOK
<1>1. AnalyticsInv => AnalyticsTypeOK
  <2> SUFFICES ASSUME AnalyticsInv PROVE AnalyticsTypeOK
    OBVIOUS
  <2>1. ASSUME NEW i \in DOMAIN snapshots
        PROVE  /\ snapshots[i].age \in 0..Retention /\ DOMAIN snapshots[i].holdings \subseteq Tickers
               /\ DOMAIN snapshots[i].totals \subseteq Currencies
    <3>1. snapshots[i] \in Shots
      BY DEF AnalyticsInv, SnapshotsRight
    <3>2. DOMAIN snapshots[i].totals \subseteq Currencies
      BY <3>1, TotalsFacts DEF currencyForTicker, Currencies
    <3> QED
      BY <3>1, <3>2, ShotFacts
  <2>2. /\ Len(snapshots) <= MaxSnapshots
        /\ job.pc \in {"due", "read", "asleep"} /\ job.holdings \subseteq Tickers
        /\ query.pc \in {"none", "sent", "history"} /\ page \in {"closed", "loading", "data", "error"}
        /\ page = "loading" <=> query.pc # "none"
    BY DEF AnalyticsInv, SnapshotsRight, JobRight, QueryRight
  <2>3. (page = "loading") = (query.pc # "none")
    BY <2>2
  <2> QED
    BY <2>1, <2>2, <2>3 DEF AnalyticsTypeOK
<1> QED
  BY <1>1, AnalyticsHolds, PTL
==============================================================================
