--------------------------- MODULE DashboardProofs ---------------------------
(***************************************************************************)
(* Proof that, once nothing is in flight, the page shows the server's      *)
(* lists and alerts, for any number of tickers, alerts and requests.       *)
(***************************************************************************)
EXTENDS Dashboard, FiniteSetTheorems, SequenceTheorems, TLAPS

Entry == [id : Alerts, ticker : Tickers, triggered : BOOLEAN]
Results == (SUBSET Tickers) \cup (SUBSET Alerts) \cup (SUBSET Entry)
Asked == [op : Reads \cup Writes, ticker : Tickers \cup {None}, alert : Alerts \cup {None},
          mine : BOOLEAN, state : {"sent", "done"}, ok : BOOLEAN, result : Results]

\* What a request is about, and the answer it may have.
Formed(r) == /\ r.op \in Reads <=> r.ticker = None
             /\ r.op = "deleteAlert" => r.alert \in Alerts
             /\ r.op \in {"portfolio", "watchlist"} => r.result \subseteq Tickers
             /\ r.op = "alerts" => r.result \subseteq Entry /\ IsFiniteSet(r.result)
             /\ r.op = "setAlert" => r.result \subseteq Alerts

RequestsTyped ==
  /\ requests \in Seq(Asked)
  /\ \A i \in DOMAIN requests : Formed(requests[i])
  /\ Len(requests) <= MaxInFlight + Len(Load)

ServerTyped ==
  /\ status \in [Tickers -> {"none", "held", "watched"}]
  /\ owner \in [Alerts -> Tickers \cup {None}]
  /\ fired \subseteq Alerts /\ \A a \in fired : owner[a] # None
  /\ IsFiniteSet({a \in Alerts : owner[a] # None})

AlertsTyped == alerts \in Seq(Entry)
FramesTyped == frames \in Seq(Alerts)
Marks == {"overlap", "failed", "bought", "unwatched", "missed"}
PastTyped == past \in [Tickers -> SUBSET Marks]

TypeInv ==
  /\ RequestsTyped /\ ServerTyped /\ AlertsTyped /\ FramesTyped /\ PastTyped
  /\ portfolio \subseteq Tickers /\ watchlist \subseteq Tickers
  /\ toasts \subseteq Alerts \cup {None}

\* Of a ticker whose requests did not overlap: a write on it has it to itself.
Clear(t) == "overlap" \notin past[t]
Lonely(t) == \A i, j \in DOMAIN requests :
  requests[i].ticker = t /\ t \in About(requests[j]) => i = j

\* A request on the ticker that the server has not carried out.
Open(op, t) == \E i \in DOMAIN requests :
  requests[i].op = op /\ requests[i].ticker = t /\ ~requests[i].ok
OpenMine(op, t) == \E i \in DOMAIN requests :
  requests[i].op = op /\ requests[i].ticker = t /\ ~requests[i].ok /\ requests[i].mine
Reading(op) == \E i \in DOMAIN requests : requests[i].op = op

Sane(r) == /\ r.ok => r.state = "done"
           /\ r.op \in Reads => r.mine

RowFits(r, t) ==
  /\ ~r.mine => "failed" \in past[t]
  /\ r.op = "add" => /\ t \in portfolio <=> r.mine
                     /\ t \in watchlist => "bought" \in past[t]
                     /\ r.ok => status[t] = "held"
  /\ r.op = "watch" => /\ t \in watchlist <=> r.mine
                       /\ r.ok => status[t] = "watched"
  /\ r.op = "remove" => /\ t \notin portfolio
                        /\ t \in watchlist => "bought" \in past[t]
                        /\ status[t] = IF r.ok THEN "none" ELSE "held"
  /\ r.op = "unwatch" => /\ t \notin watchlist
                         /\ r.ok => status[t] = "none"
  /\ r.op = "portfolio" /\ r.ok => (t \in r.result <=> status[t] = "held")
  /\ r.op = "watchlist" /\ r.ok => (t \in r.result <=> status[t] = "watched")

RowRight(t) ==
  /\ t \in portfolio => status[t] = "held" \/ OpenMine("add", t)
  /\ t \in watchlist /\ "bought" \notin past[t] => status[t] = "watched" \/ OpenMine("watch", t)
  /\ "failed" \notin past[t] =>
       /\ status[t] = "held" => t \in portfolio \/ Open("remove", t) \/ Reading("portfolio")
       /\ status[t] = "watched" => t \in watchlist \/ Open("unwatch", t) \/ Reading("watchlist")

RowInv(t) == Clear(t) =>
  /\ Lonely(t)
  /\ \A i \in DOMAIN requests : t \in About(requests[i]) => RowFits(requests[i], t)
  /\ RowRight(t)

RowsInv == /\ \A i \in DOMAIN requests : Sane(requests[i])
           /\ \A t \in Tickers : RowInv(t)

-----------------------------------------------------------------------------
Calm(t) == past[t] \subseteq {"bought"}

\* The server's owner of an alert that the page knows under a ticker, if it has one.
OwnerOf(a, t) == owner[a] \in {t, None}
Lists == \A a \in Alerts : owner[a] # None => status[owner[a]] # "none"
FramesOwned == \A k \in DOMAIN frames : owner[frames[k]] # None => frames[k] \in fired
EntriesOwned == \A k \in DOMAIN alerts : OwnerOf(alerts[k].id, alerts[k].ticker)
Refers(r) == /\ r.op = "deleteAlert" => OwnerOf(r.alert, r.ticker)
             /\ r.op = "setAlert" => \A a \in r.result : OwnerOf(a, r.ticker) /\ r.result = {a}
             /\ r.op = "alerts" => /\ \A x \in r.result : OwnerOf(x.id, x.ticker)
                                   /\ \A x, y \in r.result : x.id = y.id => x = y
OneRead == \A i, j \in DOMAIN requests : requests[i].op = "alerts" /\ requests[j].op = "alerts" => i = j
OwnersRight == /\ Lists /\ FramesOwned /\ EntriesOwned /\ OneRead
               /\ \A i \in DOMAIN requests : Refers(requests[i])

Coming(a) == \E k \in DOMAIN frames : frames[k] = a
\* An entry for an alert of the server says whether it fired, or will when the frame is in.
Shows(x, t) == x.ticker = t => /\ owner[x.id] = t
                               /\ x.triggered => x.id \in fired
                               /\ x.id \in fired => x.triggered \/ Coming(x.id)

Has(a, t) == \E k \in DOMAIN alerts : alerts[k].id = a /\ alerts[k].ticker = t
ReadHas(a, t) == \E i \in DOMAIN requests :
  requests[i].op = "alerts" /\ (requests[i].ok => \E x \in requests[i].result : x.id = a /\ x.ticker = t)
Made(a, t) == \E i \in DOMAIN requests :
  requests[i].op = "setAlert" /\ requests[i].ticker = t /\ requests[i].ok /\ a \in requests[i].result
OpenDelete(a, t) == \E i \in DOMAIN requests :
  requests[i].op = "deleteAlert" /\ requests[i].ticker = t /\ ~requests[i].ok /\ requests[i].alert = a

AlertFits(r, t) ==
  /\ r.op # "unwatch"
  /\ r.op \in {"alerts", "remove"} => \A a \in Alerts : ~Has(a, t)
  /\ r.op = "alerts" /\ r.ok => \A x \in r.result : Shows(x, t)
  /\ r.op = "deleteAlert" => ~Has(r.alert, t)
  /\ r.op = "setAlert" => \A a \in r.result : /\ owner[a] = t /\ ~Has(a, t)
                                              /\ a \in fired => Coming(a)

OnceEach(t) == \A k, l \in DOMAIN alerts :
  alerts[k].ticker = t /\ alerts[l].ticker = t /\ alerts[k].id = alerts[l].id => k = l
AllShow(t) == \A k \in DOMAIN alerts : Shows(alerts[k], t)
AllFit(t) == \A i \in DOMAIN requests : t \in About(requests[i]) => AlertFits(requests[i], t)

\* Every alert of the server is on the page, or on its way to or from it.
Accounted(t) == \A a \in Alerts : owner[a] = t =>
  Has(a, t) \/ ReadHas(a, t) \/ Made(a, t) \/ OpenDelete(a, t) \/ Open("remove", t)

AlertInv(t) == Calm(t) => OnceEach(t) /\ AllShow(t) /\ AllFit(t) /\ Accounted(t)

AlertsInv == OwnersRight /\ \A t \in Tickers : AlertInv(t)

-----------------------------------------------------------------------------
(* Lists and the positions that are kept of them.                          *)

\* Nth counts a finite set of positions off: 1..Cardinality(I) is in one-to-one
\* correspondence with I.
LEMMA NthFacts ==
  ASSUME NEW n \in Nat, NEW I, I \subseteq 1..n
  PROVE  /\ Cardinality(I) \in 0..n
         /\ \A k \in 1..Cardinality(I) : Nth(I, k) \in I
         /\ \A k, l \in 1..Cardinality(I) : Nth(I, k) = Nth(I, l) => k = l
         /\ \A i \in I : \E k \in 1..Cardinality(I) : Nth(I, k) = i
         /\ \A k \in 1..Cardinality(I) : Cardinality({j \in I : j <= Nth(I, k)}) = k
<1> DEFINE Upto(i) == {j \in I : j <= i}
           m == Cardinality(I)
           rank == [i \in I |-> Cardinality(Upto(i))]
<1>1. IsFiniteSet(I) /\ m \in 0..n
  <2>1. IsFiniteSet(1..n) /\ Cardinality(1..n) = n
    BY FS_Interval
  <2>2. IsFiniteSet(I) /\ m <= n
    BY <2>1, FS_Subset
  <2>3. m \in Nat
    BY <2>2, FS_CardinalityType
  <2> QED
    BY <2>2, <2>3
<1>2. \A i \in I : /\ IsFiniteSet(Upto(i)) /\ Cardinality(Upto(i)) \in 1..m
  <2> SUFFICES ASSUME NEW i \in I
               PROVE  IsFiniteSet(Upto(i)) /\ Cardinality(Upto(i)) \in 1..m
    OBVIOUS
  <2>1. IsFiniteSet(Upto(i)) /\ Cardinality(Upto(i)) <= m /\ Cardinality(Upto(i)) \in Nat
    BY <1>1, FS_Subset, FS_CardinalityType
  <2>2. i \in Upto(i)
    OBVIOUS
  <2>3. Cardinality(Upto(i)) # 0
    BY <2>1, <2>2, FS_EmptySet
  <2> QED
    BY <1>1, <2>1, <2>3
<1>3. \A i, j \in I : i < j => Cardinality(Upto(i)) < Cardinality(Upto(j))
  <2> SUFFICES ASSUME NEW i \in I, NEW j \in I, i < j
               PROVE  Cardinality(Upto(i)) < Cardinality(Upto(j))
    OBVIOUS
  <2>0. i \in Nat /\ j \in Nat /\ I \subseteq Nat
    OBVIOUS
  <2>1. Upto(i) \subseteq Upto(j) /\ j \in Upto(j) /\ j \notin Upto(i)
    <3>1. \A l \in I : l <= i => l <= j
      BY <2>0
    <3>2. ~(j <= i) /\ j <= j
      BY <2>0
    <3> QED
      BY <3>1, <3>2
  <2>2. Cardinality(Upto(i)) <= Cardinality(Upto(j)) /\ Cardinality(Upto(i)) # Cardinality(Upto(j))
    BY <1>2, <2>1, FS_Subset
  <2> QED
    BY <1>1, <1>2, <2>2
<1>a. /\ \A i \in I : rank[i] \in 1..m /\ rank[i] = Cardinality(Upto(i))
      /\ \A i, j \in I : i < j => rank[i] < rank[j]
  BY <1>2, <1>3
<1>b. \A i, j \in I : rank[i] = rank[j] => i = j
  <2> HIDE DEF rank, Upto
  <2> SUFFICES ASSUME NEW i \in I, NEW j \in I, rank[i] = rank[j] PROVE i = j
    OBVIOUS
  <2>1. rank[i] \in Int /\ rank[j] \in Int /\ ~(rank[i] < rank[j]) /\ ~(rank[j] < rank[i])
    BY <1>a, <1>1
  <2>2. ~(i < j) /\ ~(j < i)
    BY <1>a, <2>1
  <2>3. i \in Int /\ j \in Int
    OBVIOUS
  <2> QED
    BY <2>2, <2>3
<1>4. rank \in Injection(I, 1..m)
  <2>1. rank \in [I -> 1..m]
    BY <1>a
  <2> QED
    BY <1>b, <2>1 DEF Injection, IsInjective
<1>5. IsFiniteSet(1..m) /\ Cardinality(1..m) = m
  BY <1>1, FS_Interval
<1>6. rank \in Surjection(I, 1..m)
  BY <1>4, <1>5, FS_Injection
<1>7. \A k \in 1..m : \E i \in I : Cardinality(Upto(i)) = k
  BY <1>6 DEF Surjection
<1>8. \A k \in 1..m : Nth(I, k) \in I /\ Cardinality(Upto(Nth(I, k))) = k
  BY <1>7 DEF Nth
<1>9. \A i \in I : Nth(I, Cardinality(Upto(i))) = i
  <2> SUFFICES ASSUME NEW i \in I PROVE Nth(I, Cardinality(Upto(i))) = i
    OBVIOUS
  <2> DEFINE j == Nth(I, Cardinality(Upto(i)))
  <2>1. j \in I /\ Cardinality(Upto(j)) = Cardinality(Upto(i))
    BY <1>2, <1>8
  <2> QED
    BY <1>a, <1>b, <2>1
<1> QED
  BY <1>1, <1>2, <1>8, <1>9

\* What Keep leaves of a list: each kept element once, and nothing else.
LEMMA KeepFacts ==
  ASSUME NEW S, NEW s \in Seq(S), NEW I, I \subseteq DOMAIN s
  PROVE  LET m == Cardinality(I)
         IN /\ m \in 0..Len(s)
            /\ Keep(s, I) \in Seq(S) /\ Len(Keep(s, I)) = m
            /\ \A k \in 1..m : Nth(I, k) \in I /\ Keep(s, I)[k] = s[Nth(I, k)]
            /\ \A k, l \in 1..m : Nth(I, k) = Nth(I, l) => k = l
            /\ \A i \in I : \E k \in 1..m : Nth(I, k) = i
<1>1. Len(s) \in Nat /\ I \subseteq 1..Len(s) /\ \A i \in 1..Len(s) : s[i] \in S
  OBVIOUS
<1>2. /\ Cardinality(I) \in 0..Len(s)
      /\ \A k \in 1..Cardinality(I) : Nth(I, k) \in I
      /\ \A k, l \in 1..Cardinality(I) : Nth(I, k) = Nth(I, l) => k = l
      /\ \A i \in I : \E k \in 1..Cardinality(I) : Nth(I, k) = i
  BY <1>1, NthFacts
<1>3. Keep(s, I) \in [1..Cardinality(I) -> S]
  BY <1>1, <1>2 DEF Keep
<1>4. Keep(s, I) \in Seq(S) /\ Len(Keep(s, I)) = Cardinality(I)
  BY <1>2, <1>3
<1> QED
  BY <1>2, <1>4 DEF Keep

\* Where RemoveAt finds its elements.
Skip(i, k) == IF k < i THEN k ELSE k + 1

\* RemoveAt takes one element away and moves those behind it up: its elements are those of the
\* list at the positions Skip names.
LEMMA RemoveAtFacts ==
  ASSUME NEW S, NEW s \in Seq(S), NEW i \in DOMAIN s
  PROVE  /\ RemoveAt(s, i) \in Seq(S) /\ Len(RemoveAt(s, i)) = Len(s) - 1
         /\ \A k \in 1..(Len(s) - 1) : RemoveAt(s, i)[k] = s[Skip(i, k)]
<1> DEFINE front == SubSeq(s, 1, i - 1)
           back == SubSeq(s, i + 1, Len(s))
           n == Len(s)
           rest == RemoveAt(s, i)
<1>1. n \in Nat /\ i \in Nat /\ 1 <= i /\ i <= n /\ \A k \in 1..n : s[k] \in S
  OBVIOUS
<1>2. /\ front \in Seq(S) /\ Len(front) = i - 1
      /\ \A k \in 1..(i - 1) : front[k] = s[k]
  <2>1. \A k \in 1..(i - 1) : s[k] \in S
    BY <1>1
  <2> QED
    BY <1>1, <2>1, SubSeqProperties
<1>3. /\ back \in Seq(S) /\ Len(back) = n - i
      /\ \A k \in 1..(n - i) : back[k] = s[i + k]
  <2>1. \A k \in (i + 1)..n : s[k] \in S
    BY <1>1
  <2>2. /\ back \in Seq(S) /\ Len(back) = IF i + 1 <= n THEN n - (i + 1) + 1 ELSE 0
        /\ \A k \in 1..(n - (i + 1) + 1) : back[k] = s[(i + 1) + k - 1]
    BY <1>1, <2>1, SubSeqProperties
  <2>3. n - (i + 1) + 1 = n - i /\ (IF i + 1 <= n THEN n - (i + 1) + 1 ELSE 0) = n - i
    BY <1>1
  <2> HIDE DEF back
  <2>4. ASSUME NEW k \in 1..(n - i) PROVE back[k] = s[i + k]
    <3>1. (i + 1) + k - 1 = i + k
      BY <1>1
    <3> QED
      BY <2>2, <2>3, <3>1
  <2> QED
    BY <2>2, <2>3, <2>4
<1>4. rest = front \o back
  BY DEF RemoveAt
<1> HIDE DEF front, back, rest, n
<1>5. /\ rest \in Seq(S) /\ Len(rest) = n - 1
      /\ \A k \in 1..(n - 1) : rest[k] = IF k <= i - 1 THEN front[k] ELSE back[k - (i - 1)]
  <2>1. /\ front \o back \in Seq(S)
        /\ Len(front \o back) = (i - 1) + (n - i)
        /\ \A k \in 1..((i - 1) + (n - i)) :
             (front \o back)[k] = IF k <= i - 1 THEN front[k] ELSE back[k - (i - 1)]
    <3>1. /\ front \o back \in Seq(S)
          /\ Len(front \o back) = Len(front) + Len(back)
          /\ \A k \in 1..(Len(front) + Len(back)) :
               (front \o back)[k] = IF k <= Len(front) THEN front[k] ELSE back[k - Len(front)]
      BY <1>2, <1>3, ConcatProperties
    <3> QED
      BY <1>2, <1>3, <3>1
  <2>2. (i - 1) + (n - i) = n - 1
    BY <1>1
  <2> QED
    BY <1>4, <2>1, <2>2
<1>6. ASSUME NEW k \in 1..(n - 1) PROVE rest[k] = s[Skip(i, k)]
  <2>1. CASE k < i
    <3>1. k \in 1..(i - 1) /\ k <= i - 1
      BY <1>1, <2>1
    <3> QED
      BY <1>2, <1>5, <2>1, <3>1 DEF Skip
  <2>2. CASE ~(k < i)
    <3>1. k - (i - 1) \in 1..(n - i) /\ i + (k - (i - 1)) = k + 1 /\ ~(k <= i - 1)
      BY <1>1, <2>2
    <3>2. rest[k] = back[k - (i - 1)]
      BY <1>5, <3>1
    <3> QED
      BY <1>3, <2>2, <3>1, <3>2 DEF Skip
  <2> QED
    BY <2>1, <2>2
<1> QED
  BY <1>5, <1>6 DEF rest, n

\* A finite set as a list.
LEMMA SetToSeqFacts ==
  ASSUME NEW S, IsFiniteSet(S)
  PROVE  /\ SetToSeq(S) \in Seq(S)
         /\ \A k, l \in DOMAIN SetToSeq(S) : SetToSeq(S)[k] = SetToSeq(S)[l] => k = l
         /\ \A x \in S : \E k \in DOMAIN SetToSeq(S) : SetToSeq(S)[k] = x
<1> DEFINE m == Cardinality(S)
<1>1. m \in Nat /\ ExistsBijection(1..m, S)
  BY FS_CardinalityType
<1>2. PICK f \in [1..m -> S] : IsInjective(f)
  BY <1>1 DEF ExistsBijection, Bijection, Injection
<1>3. SetToSeq(S) \in [1..m -> S] /\ IsInjective(SetToSeq(S))
  BY <1>2 DEF SetToSeq
<1>4. SetToSeq(S) \in Injection(1..m, S)
  BY <1>3 DEF Injection
<1>5. Cardinality(1..m) = m
  BY <1>1, FS_Interval
<1>6. SetToSeq(S) \in Surjection(1..m, S)
  BY <1>4, <1>5, FS_Injection
<1>7. SetToSeq(S) \in Seq(S)
  BY <1>1, <1>3
<1> QED
  BY <1>3, <1>6, <1>7 DEF Surjection, IsInjective

-----------------------------------------------------------------------------
(* What each kind of step does to the requests in flight.                  *)

\* A request that has not been answered.
LEMMA RequestFacts ==
  ASSUME NEW op \in Reads \cup Writes, NEW t \in Tickers \cup {None},
         NEW a \in Alerts \cup {None},
         op \in Reads <=> t = None, op = "deleteAlert" => a \in Alerts
  PROVE  LET r == Request(op, t, a)
         IN /\ r \in Asked /\ Formed(r) /\ r.op = op /\ r.ticker = t /\ r.alert = a /\ r.mine
            /\ r.state = "sent" /\ ~r.ok /\ r.result = {}
<1>1. {} \in Results /\ IsFiniteSet({})
  BY FS_EmptySet DEF Results
<1> QED
  BY <1>1 DEF Request, Asked, Formed

\* Send puts one more request behind the others.
LEMMA SendFacts ==
  ASSUME TypeInv, NEW op \in Writes, NEW t \in Tickers, NEW a \in Alerts \cup {None},
         op = "deleteAlert" => a \in Alerts, NEW also, Send(op, t, a, also)
  PROVE  LET n == Len(requests)
         IN /\ n \in Nat /\ DOMAIN requests = 1..n /\ DOMAIN requests' = 1..(n + 1)
            /\ \A i \in 1..n : requests'[i] = requests[i]
            /\ requests'[n + 1] = Request(op, t, a)
            /\ RequestsTyped'
<1> DEFINE n == Len(requests)
<1>1. /\ Request(op, t, a) \in Asked /\ Formed(Request(op, t, a))
      /\ Request(op, t, a).op = op /\ Request(op, t, a).ticker = t /\ Request(op, t, a).alert = a
      /\ op \in Reads \cup Writes /\ op \notin Reads /\ t # None
  BY DashboardAssumption, RequestFacts DEF Reads, Writes
<1>2. /\ requests' = Append(requests, Request(op, t, a)) /\ n < MaxInFlight
  BY DEF Send
<1>3. requests \in Seq(Asked) /\ n \in Nat
  BY DEF TypeInv, RequestsTyped
<1>4. /\ requests' \in Seq(Asked) /\ Len(requests') = n + 1
      /\ \A i \in 1..n : requests'[i] = requests[i]
      /\ requests'[n + 1] = Request(op, t, a)
  BY <1>1, <1>2, <1>3, AppendProperties
<1>5. n + 1 <= MaxInFlight + Len(Load)
  BY <1>2, <1>3, DashboardAssumption DEF Load
<1>6. DOMAIN requests = 1..n /\ DOMAIN requests' = 1..(n + 1)
  BY <1>3, <1>4
<1> QED
  BY <1>1, <1>3, <1>4, <1>5, <1>6 DEF TypeInv, RequestsTyped

\* Gone takes one request out; the others keep their order.
LEMMA GoneFacts ==
  ASSUME TypeInv, NEW i \in DOMAIN requests, Gone(i)
  PROVE  LET n == Len(requests)
         IN /\ n \in Nat /\ DOMAIN requests = 1..n /\ DOMAIN requests' = 1..(n - 1)
            /\ \A k \in 1..(n - 1) : /\ Skip(i, k) \in (1..n) \ {i}
                                     /\ requests'[k] = requests[Skip(i, k)]
            /\ \A k, l \in 1..(n - 1) : Skip(i, k) = Skip(i, l) => k = l
            /\ \A j \in (1..n) \ {i} : \E k \in 1..(n - 1) : Skip(i, k) = j
            /\ RequestsTyped'
<1> DEFINE n == Len(requests)
<1>1. requests \in Seq(Asked) /\ n \in Nat /\ i \in 1..n /\ DOMAIN requests = 1..n
  BY DEF TypeInv, RequestsTyped
<1>2. /\ requests' \in Seq(Asked) /\ Len(requests') = n - 1
      /\ \A k \in 1..(n - 1) : requests'[k] = requests[Skip(i, k)]
  BY <1>1, RemoveAtFacts DEF Gone
<1>3. /\ \A k \in 1..(n - 1) : Skip(i, k) \in (1..n) \ {i}
      /\ \A k, l \in 1..(n - 1) : Skip(i, k) = Skip(i, l) => k = l
  BY <1>1 DEF Skip
<1>4. \A j \in (1..n) \ {i} : \E k \in 1..(n - 1) : Skip(i, k) = j
  <2> SUFFICES ASSUME NEW j \in (1..n) \ {i} PROVE \E k \in 1..(n - 1) : Skip(i, k) = j
    OBVIOUS
  <2>1. CASE j < i
    BY <1>1, <2>1 DEF Skip
  <2>2. CASE j > i
    <3>1. j - 1 \in 1..(n - 1) /\ ~(j - 1 < i) /\ (j - 1) + 1 = j
      BY <1>1, <2>2
    <3> QED
      BY <3>1 DEF Skip
  <2> QED
    BY <1>1, <2>1, <2>2
<1>5. DOMAIN requests' = 1..(n - 1)
  BY <1>2
<1>6. Len(requests') <= MaxInFlight + Len(Load)
  BY <1>1, <1>2, DashboardAssumption DEF TypeInv, RequestsTyped, Load
<1>7. \A k \in 1..(n - 1) : Formed(requests'[k])
  BY <1>1, <1>2, <1>3 DEF TypeInv, RequestsTyped
<1> QED
  BY <1>1, <1>2, <1>3, <1>4, <1>5, <1>6, <1>7 DEF RequestsTyped

\* An answer, a refusal, and a request that is given up change one request in place.
LEMMA DoneFacts ==
  ASSUME TypeInv, NEW i \in DOMAIN requests, NEW result \in Results, Done(i, result),
         Formed([requests[i] EXCEPT !.result = result])
  PROVE  /\ DOMAIN requests' = DOMAIN requests
         /\ \A j \in DOMAIN requests \ {i} : requests'[j] = requests[j]
         /\ LET r == requests[i] s == requests'[i]
            IN /\ s.op = r.op /\ s.ticker = r.ticker /\ s.alert = r.alert /\ s.mine = r.mine
               /\ s.state = "done" /\ s.ok /\ s.result = result
         /\ RequestsTyped'
<1> DEFINE r == requests[i]
           s == [r EXCEPT !.state = "done", !.ok = TRUE, !.result = result]
<1>1. /\ requests \in Seq(Asked) /\ Len(requests) \in Nat /\ i \in 1..Len(requests)
      /\ DOMAIN requests = 1..Len(requests) /\ r \in Asked
  BY DEF TypeInv, RequestsTyped
<1>2. requests' = [requests EXCEPT ![i] = s]
  BY <1>1 DEF Done
<1>3. /\ s \in Asked
      /\ s.op = r.op /\ s.ticker = r.ticker /\ s.alert = r.alert /\ s.mine = r.mine
      /\ s.state = "done" /\ s.ok /\ s.result = result
  BY <1>1 DEF Asked
<1>4. Formed(s)
  BY <1>1, <1>3 DEF Formed, Asked
<1>5. /\ requests' \in Seq(Asked) /\ Len(requests') = Len(requests)
      /\ \A j \in 1..Len(requests) : requests'[j] = IF j = i THEN s ELSE requests[j]
  <2> HIDE DEF s
  <2> QED
    BY <1>1, <1>2, <1>3, ExceptSeq
<1> HIDE DEF s, r
<1>6. RequestsTyped'
  <2>1. \A j \in 1..Len(requests) : Formed(requests'[j])
    BY <1>1, <1>4, <1>5 DEF TypeInv, RequestsTyped
  <2>2. Len(requests') <= MaxInFlight + Len(Load)
    BY <1>5 DEF TypeInv, RequestsTyped
  <2>3. DOMAIN requests' = 1..Len(requests)
    BY <1>5
  <2> QED
    BY <1>5, <2>1, <2>2, <2>3 DEF RequestsTyped
<1>7. requests'[i] = s /\ DOMAIN requests' = DOMAIN requests
  BY <1>1, <1>5
<1> QED
  BY <1>1, <1>3, <1>5, <1>6, <1>7 DEF r

\* A refusal and a request that is given up change one request's state in place.
LEMMA RefusedFacts ==
  ASSUME TypeInv, NEW i \in DOMAIN requests, NEW st \in {"sent", "done"}, NEW mine \in BOOLEAN,
         requests' = [requests EXCEPT ![i] = [requests[i] EXCEPT !.state = st, !.mine = mine]]
  PROVE  /\ DOMAIN requests' = DOMAIN requests
         /\ \A j \in DOMAIN requests \ {i} : requests'[j] = requests[j]
         /\ LET r == requests[i] s == requests'[i]
            IN /\ s.op = r.op /\ s.ticker = r.ticker /\ s.alert = r.alert /\ s.mine = mine
               /\ s.state = st /\ s.ok = r.ok /\ s.result = r.result
         /\ RequestsTyped'
<1> DEFINE r == requests[i]
           s == [r EXCEPT !.state = st, !.mine = mine]
<1>1. /\ requests \in Seq(Asked) /\ Len(requests) \in Nat /\ i \in 1..Len(requests)
      /\ DOMAIN requests = 1..Len(requests) /\ r \in Asked
  BY DEF TypeInv, RequestsTyped
<1>2. requests' = [requests EXCEPT ![i] = s]
  OBVIOUS
<1>3. /\ s \in Asked
      /\ s.op = r.op /\ s.ticker = r.ticker /\ s.alert = r.alert /\ s.mine = mine
      /\ s.state = st /\ s.ok = r.ok /\ s.result = r.result
  BY <1>1 DEF Asked
<1>4. Formed(s)
  <2>1. Formed(r)
    BY DEF TypeInv, RequestsTyped
  <2> HIDE DEF r, s
  <2> QED
    BY <2>1, <1>3 DEF Formed
<1>5. /\ requests' \in Seq(Asked) /\ Len(requests') = Len(requests)
      /\ \A j \in 1..Len(requests) : requests'[j] = IF j = i THEN s ELSE requests[j]
  <2> HIDE DEF s
  <2> QED
    BY <1>1, <1>2, <1>3, ExceptSeq
<1> HIDE DEF s, r
<1>6. RequestsTyped'
  <2>1. \A j \in 1..Len(requests) : Formed(requests'[j])
    BY <1>1, <1>4, <1>5 DEF TypeInv, RequestsTyped
  <2>2. Len(requests') <= MaxInFlight + Len(Load)
    BY <1>5 DEF TypeInv, RequestsTyped
  <2>3. DOMAIN requests' = 1..Len(requests)
    BY <1>5
  <2> QED
    BY <1>5, <2>1, <2>2, <2>3 DEF RequestsTyped
<1>7. requests'[i] = s /\ DOMAIN requests' = DOMAIN requests
  BY <1>1, <1>5
<1> QED
  BY <1>1, <1>3, <1>5, <1>6, <1>7 DEF r

\* The writes of a page that is left which the server has not seen.
Unseen == {i \in DOMAIN requests : requests[i].state = "sent" /\ requests[i].op \in Writes}

\* After a reload there are those writes, whose answers nobody awaits, and three new reads.
LEMMA ReloadFacts ==
  ASSUME TypeInv, Reload
  PROVE  LET m == Cardinality(Unseen)
         IN /\ m \in Nat /\ DOMAIN requests' = 1..(m + 3)
            /\ \A k \in 1..m : \E i \in Unseen :
                 LET r == requests[i] s == requests'[k]
                 IN /\ s.op = r.op /\ s.ticker = r.ticker /\ s.alert = r.alert /\ ~s.mine
                    /\ s.state = r.state /\ s.ok = r.ok /\ s.result = r.result
            /\ requests'[m + 1] = Request("portfolio", None, None)
            /\ requests'[m + 2] = Request("watchlist", None, None)
            /\ requests'[m + 3] = Request("alerts", None, None)
            /\ past' = [t \in Tickers |-> IF \E i \in Unseen : requests[i].ticker = t
                                          THEN {"overlap"} ELSE {}]
            /\ RequestsTyped'
<1> DEFINE m == Cardinality(Unseen)
           rest == Keep(requests, Unseen)
           old == [k \in DOMAIN rest |-> [rest[k] EXCEPT !.mine = FALSE]]
<1>1. requests \in Seq(Asked) /\ Unseen \subseteq DOMAIN requests
  BY DEF TypeInv, RequestsTyped, Unseen
<1>2. /\ m \in Nat /\ rest \in Seq(Asked) /\ DOMAIN rest = 1..m
      /\ \A k \in 1..m : Nth(Unseen, k) \in Unseen /\ rest[k] = requests[Nth(Unseen, k)]
      /\ \A i \in Unseen : \E k \in 1..m : Nth(Unseen, k) = i
  <2>1. /\ m \in 0..Len(requests)
        /\ rest \in Seq(Asked) /\ Len(rest) = m
        /\ \A k \in 1..m : Nth(Unseen, k) \in Unseen /\ rest[k] = requests[Nth(Unseen, k)]
        /\ \A i \in Unseen : \E k \in 1..m : Nth(Unseen, k) = i
    BY <1>1, KeepFacts
  <2> HIDE DEF rest, m
  <2>2. Len(requests) \in Nat
    BY <1>1
  <2> QED
    BY <2>1, <2>2
<1>3. /\ requests' = old \o Load /\ Len(requests') <= MaxInFlight + Len(Load)
      /\ past' = [t \in Tickers |-> IF t \in {rest[k].ticker : k \in DOMAIN rest}
                                    THEN {"overlap"} ELSE {}]
  BY DEF Reload, Unseen
<1> HIDE DEF rest, m
<1>4. \A k \in 1..m : \E i \in Unseen :
        LET r == requests[i] s == old[k]
        IN /\ s \in Asked /\ Formed(s)
           /\ s.op = r.op /\ s.ticker = r.ticker /\ s.alert = r.alert /\ ~s.mine
           /\ s.state = r.state /\ s.ok = r.ok /\ s.result = r.result
  <2> SUFFICES ASSUME NEW k \in 1..m, NEW r, r = rest[k],
                      NEW s, s = [r EXCEPT !.mine = FALSE]
               PROVE  /\ s \in Asked /\ Formed(s)
                      /\ s.op = r.op /\ s.ticker = r.ticker /\ s.alert = r.alert /\ ~s.mine
                      /\ s.state = r.state /\ s.ok = r.ok /\ s.result = r.result
    BY <1>2
  <2>1. r \in Asked /\ Formed(r)
    BY <1>1, <1>2 DEF TypeInv, RequestsTyped
  <2>2. /\ s \in Asked
        /\ s.op = r.op /\ s.ticker = r.ticker /\ s.alert = r.alert /\ ~s.mine
        /\ s.state = r.state /\ s.ok = r.ok /\ s.result = r.result
    BY <2>1 DEF Asked
  <2>3. Formed(s)
    BY <2>1, <2>2 DEF Formed
  <2> QED
    BY <2>2, <2>3
<1>5. old \in Seq(Asked) /\ Len(old) = m
  <2>1. old \in [1..m -> Asked]
    BY <1>2, <1>4
  <2> HIDE DEF old
  <2> QED
    BY <1>2, <2>1
<1>6. /\ Load \in Seq(Asked) /\ Len(Load) = 3
      /\ Load[1] = Request("portfolio", None, None) /\ Formed(Load[1])
      /\ Load[2] = Request("watchlist", None, None) /\ Formed(Load[2])
      /\ Load[3] = Request("alerts", None, None) /\ Formed(Load[3])
  <2>1. /\ Request("portfolio", None, None) \in Asked /\ Formed(Request("portfolio", None, None))
        /\ Request("watchlist", None, None) \in Asked /\ Formed(Request("watchlist", None, None))
        /\ Request("alerts", None, None) \in Asked /\ Formed(Request("alerts", None, None))
    BY RequestFacts DEF Reads, Writes
  <2> QED
    BY <2>1 DEF Load
<1> HIDE DEF old
<1>7. /\ requests' \in Seq(Asked) /\ DOMAIN requests' = 1..(m + 3)
      /\ \A k \in 1..(m + 3) : requests'[k] = IF k <= m THEN old[k] ELSE Load[k - m]
  <2>1. /\ old \o Load \in Seq(Asked) /\ Len(old \o Load) = Len(old) + Len(Load)
        /\ \A k \in 1..(Len(old) + Len(Load)) :
             (old \o Load)[k] = IF k <= Len(old) THEN old[k] ELSE Load[k - Len(old)]
    BY <1>5, <1>6, ConcatProperties
  <2> QED
    BY <1>2, <1>3, <1>5, <1>6, <2>1
<1>8. /\ \A k \in 1..m : requests'[k] = old[k]
      /\ requests'[m + 1] = Load[1] /\ requests'[m + 2] = Load[2] /\ requests'[m + 3] = Load[3]
  <2>1. /\ m + 1 \in 1..(m + 3) /\ ~(m + 1 <= m) /\ (m + 1) - m = 1
        /\ m + 2 \in 1..(m + 3) /\ ~(m + 2 <= m) /\ (m + 2) - m = 2
        /\ m + 3 \in 1..(m + 3) /\ ~(m + 3 <= m) /\ (m + 3) - m = 3
        /\ \A k \in 1..m : k \in 1..(m + 3) /\ k <= m
    BY <1>2
  <2> QED
    BY <1>7, <2>1
<1>9. RequestsTyped'
  <2>1. \A k \in 1..(m + 3) : k \in 1..m \/ k = m + 1 \/ k = m + 2 \/ k = m + 3
    BY <1>2
  <2>2. \A k \in 1..(m + 3) : Formed(requests'[k])
    BY <1>4, <1>6, <1>8, <2>1
  <2> QED
    BY <1>3, <1>7, <2>2 DEF RequestsTyped, Load
<1>10. \A t : t \in {rest[k].ticker : k \in DOMAIN rest} <=> \E i \in Unseen : requests[i].ticker = t
  BY <1>2
<1>11. past' = [t \in Tickers |-> IF \E i \in Unseen : requests[i].ticker = t
                                  THEN {"overlap"} ELSE {}]
  BY <1>3, <1>10
<1>12. \A k \in 1..m : \E i \in Unseen :
         LET r == requests[i] s == requests'[k]
         IN /\ s.op = r.op /\ s.ticker = r.ticker /\ s.alert = r.alert /\ ~s.mine
            /\ s.state = r.state /\ s.ok = r.ok /\ s.result = r.result
  <2> SUFFICES ASSUME NEW k \in 1..m
               PROVE  \E i \in Unseen :
                        LET r == requests[i] s == requests'[k]
                        IN /\ s.op = r.op /\ s.ticker = r.ticker /\ s.alert = r.alert /\ ~s.mine
                           /\ s.state = r.state /\ s.ok = r.ok /\ s.result = r.result
    OBVIOUS
  <2>1. requests'[k] = old[k]
    BY <1>8
  <2> QED
    BY <1>4, <2>1
<1>13. /\ requests'[m + 1] = Request("portfolio", None, None)
       /\ requests'[m + 2] = Request("watchlist", None, None)
       /\ requests'[m + 3] = Request("alerts", None, None)
  BY <1>6, <1>8
<1>14. m \in Nat /\ DOMAIN requests' = 1..(m + 3)
  BY <1>2, <1>7
<1> QED
  BY <1>9, <1>11, <1>12, <1>13, <1>14 DEF m

\* Marks are only ever added, and only to the tickers they are about.
LEMMA MarkFacts ==
  ASSUME PastTyped, NEW S, NEW what, what \subseteq Marks, Mark(S, what)
  PROVE  /\ PastTyped'
         /\ \A t \in Tickers : /\ past[t] \subseteq past'[t]
                               /\ t \notin S => past'[t] = past[t]
                               /\ t \in S => past'[t] = past[t] \cup what
  BY DEF PastTyped, Mark

\* The alerts that a filter leaves.
LEMMA KeptAlerts ==
  ASSUME AlertsTyped, NEW I, I \subseteq DOMAIN alerts, alerts' = Keep(alerts, I)
  PROVE  /\ AlertsTyped'
         /\ \A k \in DOMAIN alerts' : Nth(I, k) \in I /\ alerts'[k] = alerts[Nth(I, k)]
         /\ \A k, l \in DOMAIN alerts' : Nth(I, k) = Nth(I, l) => k = l
         /\ \A i \in I : \E k \in DOMAIN alerts' : alerts'[k] = alerts[i]
<1> DEFINE m == Cardinality(I)
<1>1. /\ m \in 0..Len(alerts)
      /\ alerts' \in Seq(Entry) /\ Len(alerts') = m
      /\ \A k \in 1..m : Nth(I, k) \in I /\ alerts'[k] = alerts[Nth(I, k)]
      /\ \A k, l \in 1..m : Nth(I, k) = Nth(I, l) => k = l
      /\ \A i \in I : \E k \in 1..m : Nth(I, k) = i
  BY KeepFacts DEF AlertsTyped
<1> HIDE DEF m
<1>2. DOMAIN alerts' = 1..m
  BY <1>1
<1> QED
  BY <1>1, <1>2 DEF AlertsTyped

\* A step of the user keeps the types.
LEMMA UserTyped ==
  ASSUME TypeInv,
         \/ \E t \in Tickers : \/ HandleAdd(t) \/ HandleRemove(t) \/ HandleSetAlert(t)
                               \/ HandleAddToWatchlist(t) \/ HandleRemoveFromWatchlist(t)
         \/ \E i \in DOMAIN alerts : HandleDeleteAlert(alerts[i])
  PROVE  TypeInv'
<1>1. PICK op \in Writes, t \in Tickers, a \in Alerts \cup {None}, also \in SUBSET Marks :
        Send(op, t, a, also) /\ (op = "deleteAlert" => a \in Alerts)
  <2>1. \A t \in Tickers :
          (IF t \in watchlist THEN {"bought"} ELSE {}) \in SUBSET Marks /\ {} \in SUBSET Marks
    BY DEF Marks
  <2>2. ASSUME NEW t \in Tickers, HandleAdd(t)
        PROVE  Send("add", t, None, IF t \in watchlist THEN {"bought"} ELSE {})
    BY <2>2 DEF HandleAdd
  <2>3. ASSUME NEW t \in Tickers, HandleRemove(t)
        PROVE  Send("remove", t, None, {})
    BY <2>3 DEF HandleRemove
  <2>4. ASSUME NEW t \in Tickers, HandleSetAlert(t)
        PROVE  Send("setAlert", t, None, {})
    BY <2>4 DEF HandleSetAlert
  <2>5. ASSUME NEW t \in Tickers, HandleAddToWatchlist(t)
        PROVE  Send("watch", t, None, {})
    BY <2>5 DEF HandleAddToWatchlist
  <2>6. ASSUME NEW t \in Tickers, HandleRemoveFromWatchlist(t)
        PROVE  Send("unwatch", t, None, {"unwatched"}) /\ {"unwatched"} \in SUBSET Marks
    BY <2>6 DEF HandleRemoveFromWatchlist, Marks
  <2>7. ASSUME NEW k \in DOMAIN alerts, HandleDeleteAlert(alerts[k])
        PROVE  /\ Send("deleteAlert", alerts[k].ticker, alerts[k].id, {})
               /\ alerts[k].ticker \in Tickers /\ alerts[k].id \in Alerts
    <3>1. alerts[k] \in Entry
      BY DEF TypeInv, AlertsTyped
    <3> QED
      BY <2>7, <3>1 DEF HandleDeleteAlert, Entry
  <2>8. {"add", "remove", "setAlert", "watch", "unwatch", "deleteAlert"} \subseteq Writes
    BY DEF Writes
  <2>9. "deleteAlert" \notin {"add", "remove", "setAlert", "watch", "unwatch"}
    OBVIOUS
  <2> HIDE DEF Send, Writes, Marks
  <2> QED
    BY <2>1, <2>2, <2>3, <2>4, <2>5, <2>6, <2>7, <2>8, <2>9, Zenon
<1>2. RequestsTyped'
  BY <1>1, SendFacts
<1>3. PastTyped'
  <2>1. also \cup (IF t \in Busy THEN {"overlap"} ELSE {}) \subseteq Marks
    BY DEF Marks
  <2>2. Mark({t}, also \cup (IF t \in Busy THEN {"overlap"} ELSE {}))
    BY <1>1 DEF Send
  <2> QED
    BY <2>1, <2>2, MarkFacts DEF TypeInv
<1>4. UNCHANGED <<serverVars, frames, toasts>>
  BY <1>1 DEF Send
<1>5. AlertsTyped'
  <2>1. \/ UNCHANGED alerts
        \/ \E I \in SUBSET (DOMAIN alerts) : alerts' = Keep(alerts, I)
    BY DEF HandleAdd, HandleRemove, HandleSetAlert, HandleAddToWatchlist,
           HandleRemoveFromWatchlist, HandleDeleteAlert
  <2> QED
    BY <2>1, KeptAlerts DEF TypeInv, AlertsTyped
<1>6. portfolio' \subseteq Tickers /\ watchlist' \subseteq Tickers
  BY DEF HandleAdd, HandleRemove, HandleSetAlert, HandleAddToWatchlist,
         HandleRemoveFromWatchlist, HandleDeleteAlert, TypeInv
<1> QED
  BY <1>2, <1>3, <1>4, <1>5, <1>6 DEF TypeInv, ServerTyped, FramesTyped, serverVars

\* The answer to a read of the alerts: one entry for each alert of the server.
Owned == {a \in Alerts : owner[a] # None}
EntryOf(a) == [id |-> a, ticker |-> owner[a], triggered |-> a \in fired]
Listed == {EntryOf(a) : a \in Owned}

\* The answer to a read of the alerts is a finite set of entries.
LEMMA ListedFacts ==
  ASSUME ServerTyped
  PROVE  Listed \subseteq Entry /\ IsFiniteSet(Listed)
<1>1. \A a \in Owned : EntryOf(a) \in Entry
  BY DEF ServerTyped, Owned, EntryOf, Entry
<1> DEFINE f == [a \in Owned |-> EntryOf(a)]
<1>2. f \in Surjection(Owned, Listed)
  BY DEF Surjection, Listed
<1>3. IsFiniteSet(Owned)
  BY DEF ServerTyped, Owned
<1> HIDE DEF f
<1>4. IsFiniteSet(Listed)
  BY <1>2, <1>3, FS_Surjection
<1> QED
  BY <1>1, <1>4 DEF Listed

\* The server answers or refuses one request.
LEMMA ServeFacts ==
  ASSUME TypeInv, NEW i \in DOMAIN requests, Serve(i)
  PROVE  /\ DOMAIN requests' = DOMAIN requests
         /\ \A j \in DOMAIN requests \ {i} : requests'[j] = requests[j]
         /\ LET r == requests[i] s == requests'[i]
            IN /\ s.op = r.op /\ s.ticker = r.ticker /\ s.alert = r.alert /\ s.mine = r.mine
               /\ s.state = "done"
               /\ \/ Refuses(i) /\ s.ok = r.ok /\ s.result = r.result
                  \/ s.ok /\ \/ r.op = "portfolio" /\ s.result = In("held") /\ UNCHANGED serverVars
                             \/ r.op = "watchlist" /\ s.result = In("watched") /\ UNCHANGED serverVars
                             \/ r.op = "alerts" /\ s.result = Listed /\ UNCHANGED serverVars
                             \/ ServesAdd(i) \/ ServesWatch(i) \/ ServesRemoval(i)
                             \/ \E a \in Alerts : /\ s.result = {a} /\ ServesSetAlert(i) /\ Fresh(a)
                                                  /\ owner' = [owner EXCEPT ![a] = r.ticker]
                             \/ ServesDeleteAlert(i)
         /\ RequestsTyped'
<1> DEFINE r == requests[i]
           s == requests'[i]
           Kept == /\ DOMAIN requests' = DOMAIN requests
                   /\ \A j \in DOMAIN requests \ {i} : requests'[j] = requests[j]
                   /\ s.op = r.op /\ s.ticker = r.ticker /\ s.alert = r.alert /\ s.mine = r.mine
                   /\ s.state = "done"
                   /\ RequestsTyped'
<1>1. r \in Asked /\ Formed(r) /\ requests \in Seq(Asked)
  BY DEF TypeInv, RequestsTyped
<1>2. CASE Refuses(i)
  <2>1. r.mine \in BOOLEAN /\ [r EXCEPT !.state = "done"] = [r EXCEPT !.state = "done", !.mine = r.mine]
    BY <1>1 DEF Asked
  <2>2. requests' = [requests EXCEPT ![i] = [r EXCEPT !.state = "done", !.mine = r.mine]]
    BY <1>2, <2>1 DEF Refuses
  <2>3. Kept /\ s.ok = r.ok /\ s.result = r.result
    BY <2>1, <2>2, RefusedFacts
  <2> QED
    BY <1>2, <2>3
<1>3. ASSUME NEW result \in Results, Done(i, result),
             \/ r.op \in {"portfolio", "watchlist"} /\ result \subseteq Tickers
             \/ r.op = "alerts" /\ result \subseteq Entry /\ IsFiniteSet(result)
             \/ r.op = "setAlert" /\ result \subseteq Alerts
             \/ r.op \in {"add", "watch", "remove", "unwatch", "deleteAlert"}
      PROVE  Kept /\ s.ok /\ s.result = result
  <2> DEFINE u == [r EXCEPT !.result = result]
  <2>1. u.op = r.op /\ u.ticker = r.ticker /\ u.alert = r.alert /\ u.result = result
    BY <1>1 DEF Asked
  <2>2. Formed(u)
    <3> HIDE DEF u, r
    <3> QED
      BY <1>1, <1>3, <2>1 DEF Formed
  <2> QED
    BY <1>3, <2>2, DoneFacts
<1>4. {} \in Results /\ In("held") \in Results /\ In("watched") \in Results
      /\ Listed \in Results /\ \A a \in Alerts : {a} \in Results
  <2>1. Listed \subseteq Entry
    BY ListedFacts DEF TypeInv
  <2>2. In("held") \subseteq Tickers /\ In("watched") \subseteq Tickers
    BY DEF In
  <2>3. \A a \in Alerts : {a} \subseteq Alerts
    OBVIOUS
  <2>4. \A S : S \subseteq Tickers \/ S \subseteq Alerts \/ S \subseteq Entry => S \in Results
    <3> SUFFICES ASSUME NEW S, S \subseteq Tickers \/ S \subseteq Alerts \/ S \subseteq Entry
                 PROVE  S \in Results
      OBVIOUS
    <3>1. S \in SUBSET Tickers \/ S \in SUBSET Alerts \/ S \in SUBSET Entry
      OBVIOUS
    <3> QED
      BY <3>1, Zenon DEF Results
  <2> QED
    <3>1. {} \in Results
      BY <2>4
    <3>2. In("held") \in Results /\ In("watched") \in Results /\ Listed \in Results
      BY <2>1, <2>2, <2>4
    <3>3. \A a \in Alerts : {a} \in Results
      BY <2>3, <2>4
    <3> QED
      BY <3>1, <3>2, <3>3
<1>5. In("held") \subseteq Tickers /\ In("watched") \subseteq Tickers
  BY DEF In
<1>6. CASE ServesReads(i)
  <2>1. Listed = {[id |-> a, ticker |-> owner[a], triggered |-> a \in fired] :
                  a \in {b \in Alerts : owner[b] # None}}
    BY DEF Listed, EntryOf, Owned
  <2>2. \/ r.op = "portfolio" /\ Done(i, In("held"))
        \/ r.op = "watchlist" /\ Done(i, In("watched"))
        \/ r.op = "alerts" /\ Done(i, Listed)
    BY <1>6, <2>1 DEF ServesReads
  <2>3. UNCHANGED serverVars
    BY <1>6 DEF ServesReads
  <2> HIDE DEF Kept, r, s
  <2>4. \/ r.op = "portfolio" /\ Kept /\ s.ok /\ s.result = In("held")
        \/ r.op = "watchlist" /\ Kept /\ s.ok /\ s.result = In("watched")
        \/ r.op = "alerts" /\ Kept /\ s.ok /\ s.result = Listed
    BY <2>2, <1>3, <1>4, <1>5, ListedFacts DEF TypeInv
  <2> QED
    BY <2>3, <2>4 DEF Kept, r, s
<1>7. CASE ServesAdd(i) \/ ServesWatch(i) \/ ServesRemoval(i) \/ ServesDeleteAlert(i)
  <2>1. Done(i, {}) /\ r.op \in {"add", "watch", "remove", "unwatch", "deleteAlert"}
    BY <1>7 DEF ServesAdd, ServesWatch, ServesRemoval, ServesDeleteAlert
  <2>2. Kept /\ s.ok
    BY <2>1, <1>3, <1>4
  <2> QED
    BY <1>7, <2>2
<1>8. CASE ServesSetAlert(i)
  <2>1. PICK a \in Alerts : Fresh(a) /\ owner' = [owner EXCEPT ![a] = r.ticker] /\ Done(i, {a})
    BY <1>8 DEF ServesSetAlert
  <2>2. r.op = "setAlert"
    BY <1>8 DEF ServesSetAlert
  <2>3. Kept /\ s.ok /\ s.result = {a}
    BY <2>1, <2>2, <1>3, <1>4
  <2> QED
    BY <1>8, <2>1, <2>3
<1> QED
  BY <1>2, <1>6, <1>7, <1>8 DEF Serve

\* A step of the server keeps the types.
LEMMA ServeTyped ==
  ASSUME TypeInv, NEW i \in DOMAIN requests, Serve(i)
  PROVE  TypeInv'
<1> DEFINE r == requests[i]
<1>1. RequestsTyped' /\ UNCHANGED <<pageVars, frames, past>>
  BY ServeFacts DEF Serve
<1>2. r \in Asked /\ Formed(r)
  BY DEF TypeInv, RequestsTyped
<1>3. r.op \in Writes => r.ticker \in Tickers
  BY <1>2 DEF Asked, Formed, Reads, Writes
<1>4. ServerTyped'
  <2>1. CASE UNCHANGED serverVars
    BY <2>1 DEF serverVars, TypeInv, ServerTyped
  <2>2. CASE ServesAdd(i) \/ ServesWatch(i)
    BY <2>2, <1>3 DEF ServesAdd, ServesWatch, TypeInv, ServerTyped, Writes
  <2>3. CASE ServesRemoval(i)
    <3>1. /\ r.ticker \in Tickers
          /\ status' = [status EXCEPT ![r.ticker] = "none"]
          /\ owner' = [a \in Alerts |-> IF owner[a] = r.ticker THEN None ELSE owner[a]]
          /\ fired' = {a \in fired : owner[a] # r.ticker}
      BY <2>3, <1>3 DEF ServesRemoval, Writes
    <3>2. {a \in Alerts : owner'[a] # None} \subseteq {a \in Alerts : owner[a] # None}
      BY <3>1
    <3>3. IsFiniteSet({a \in Alerts : owner'[a] # None})
      BY <3>2, FS_Subset DEF TypeInv, ServerTyped
    <3> QED
      BY <3>1, <3>3 DEF TypeInv, ServerTyped
  <2>4. CASE ServesSetAlert(i)
    <3>1. PICK a \in Alerts : owner' = [owner EXCEPT ![a] = r.ticker]
      BY <2>4 DEF ServesSetAlert
    <3>2. r.ticker \in Tickers /\ UNCHANGED <<status, fired>> /\ r.ticker # None
      BY <2>4, <1>3, DashboardAssumption DEF ServesSetAlert, Writes
    <3>3. {b \in Alerts : owner'[b] # None} = {b \in Alerts : owner[b] # None} \cup {a}
      BY <3>1, <3>2 DEF TypeInv, ServerTyped
    <3>4. IsFiniteSet({b \in Alerts : owner'[b] # None})
      BY <3>3, FS_AddElement DEF TypeInv, ServerTyped
    <3> QED
      BY <3>1, <3>2, <3>4 DEF TypeInv, ServerTyped
  <2>5. CASE ServesDeleteAlert(i)
    <3>1. /\ r.alert \in Alerts
          /\ owner' = [owner EXCEPT ![r.alert] = None] /\ fired' = fired \ {r.alert}
          /\ status' = status
      BY <2>5, <1>2 DEF ServesDeleteAlert, Formed
    <3>2. {a \in Alerts : owner'[a] # None} \subseteq {a \in Alerts : owner[a] # None}
      BY <3>1 DEF TypeInv, ServerTyped
    <3>3. IsFiniteSet({a \in Alerts : owner'[a] # None})
      BY <3>2, FS_Subset DEF TypeInv, ServerTyped
    <3> QED
      BY <3>1, <3>3 DEF TypeInv, ServerTyped
  <2> QED
    BY <2>1, <2>2, <2>3, <2>4, <2>5 DEF Serve, ServesReads, Refuses
<1> QED
  BY <1>1, <1>4 DEF TypeInv, AlertsTyped, FramesTyped, PastTyped, pageVars

\* What an answer or an error does to the page keeps its types.
LEMMA PageTyped ==
  ASSUME TypeInv, NEW i \in DOMAIN requests, Succeeded(requests[i]) \/ Failed(requests[i])
  PROVE  /\ AlertsTyped' /\ portfolio' \subseteq Tickers /\ watchlist' \subseteq Tickers
         /\ toasts' \subseteq Alerts \cup {None}
<1> DEFINE r == requests[i]
<1>1. r \in Asked /\ Formed(r)
  BY DEF TypeInv, RequestsTyped
<1>2. CASE SetAlerts(r)
  <2>1. r.result \subseteq Entry /\ IsFiniteSet(r.result)
    BY <1>1, <1>2 DEF SetAlerts, Formed
  <2>2. alerts' \in Seq(r.result)
    BY <1>2, <2>1, SetToSeqFacts DEF SetAlerts
  <2>3. alerts' \in Seq(Entry)
    BY <2>1, <2>2, SeqMonotonic
  <2> QED
    BY <1>2, <2>3 DEF SetAlerts, TypeInv, AlertsTyped
<1>3. CASE AlertMade(r)
  <2>1. PICK a \in r.result :
          alerts' = Append(alerts, [id |-> a, ticker |-> r.ticker, triggered |-> FALSE])
    BY <1>3 DEF AlertMade
  <2>2. a \in Alerts /\ r.ticker \in Tickers
    BY <1>1, <1>3 DEF AlertMade, Formed, Asked, Reads
  <2>3. [id |-> a, ticker |-> r.ticker, triggered |-> FALSE] \in Entry
    BY <2>2 DEF Entry
  <2>4. alerts' \in Seq(Entry)
    BY <2>1, <2>3, AppendProperties DEF TypeInv, AlertsTyped
  <2> QED
    BY <1>3, <2>4 DEF AlertMade, TypeInv, AlertsTyped
<1>4. CASE \/ SetHoldings(r) \/ SetWatchlist(r) \/ NothingToDo(r) \/ Failed(r)
  <2>1. UNCHANGED alerts
    BY <1>4 DEF SetHoldings, SetWatchlist, NothingToDo, Failed, AddFailed, WatchFailed,
                SetAlertFailed, Swallowed, pageVars
  <2>2. portfolio' \subseteq Tickers /\ watchlist' \subseteq Tickers
    BY <1>1, <1>4 DEF SetHoldings, SetWatchlist, NothingToDo, Failed, AddFailed, WatchFailed,
                      SetAlertFailed, Swallowed, pageVars, TypeInv, Formed
  <2>3. toasts' \subseteq Alerts \cup {None}
    BY <1>4 DEF SetHoldings, SetWatchlist, NothingToDo, Failed, AddFailed, WatchFailed,
                SetAlertFailed, Swallowed, pageVars, TypeInv
  <2> QED
    BY <2>1, <2>2, <2>3 DEF TypeInv, AlertsTyped
<1> QED
  BY <1>2, <1>3, <1>4 DEF Succeeded

\* A request leaves the page in one of two ways.
LEMMA FailedFacts ==
  ASSUME TypeInv, NEW i \in DOMAIN requests, Throw(i), ~Gone(i)
  PROVE  /\ DOMAIN requests' = DOMAIN requests
         /\ \A j \in DOMAIN requests \ {i} : requests'[j] = requests[j]
         /\ LET r == requests[i] s == requests'[i]
            IN /\ s.op = r.op /\ s.ticker = r.ticker /\ s.alert = r.alert /\ ~s.mine
               /\ s.state = r.state /\ s.ok = r.ok /\ s.result = r.result
         /\ RequestsTyped'
<1> DEFINE r == requests[i]
<1>1. r \in Asked /\ requests \in Seq(Asked)
  BY DEF TypeInv, RequestsTyped
<1>2. r.state \in {"sent", "done"} /\ [r EXCEPT !.mine = FALSE] = [r EXCEPT !.state = r.state, !.mine = FALSE]
  BY <1>1 DEF Asked
<1>3. requests' = [requests EXCEPT ![i] = [r EXCEPT !.state = r.state, !.mine = FALSE]]
  BY <1>1, <1>2 DEF Throw
<1> HIDE DEF r
<1> QED
  BY <1>2, <1>3, RefusedFacts DEF r

\* An answer, an error and the end of a forgotten request keep the types.
LEMMA AnswerTyped ==
  ASSUME TypeInv, NEW i \in DOMAIN requests, Answer(i) \/ Throw(i) \/ Forgotten(i)
  PROVE  TypeInv'
<1>1. RequestsTyped'
  <2>1. CASE Gone(i)
    BY <2>1, GoneFacts
  <2>2. CASE ~Gone(i)
    BY <2>2, FailedFacts DEF Answer, Forgotten
  <2> QED
    BY <2>1, <2>2
<1>2. UNCHANGED <<serverVars, frames>>
  BY DEF Answer, Throw, Forgotten
<1>3. CASE Answer(i) \/ Throw(i)
  <2>1. \E S : Mark(S, {"failed"})
    BY <1>3 DEF Answer, Throw
  <2>2. PastTyped'
    BY <2>1, MarkFacts DEF TypeInv, Marks
  <2>3. Succeeded(requests[i]) \/ Failed(requests[i])
    BY <1>3 DEF Answer, Throw
  <2> QED
    BY <1>1, <1>2, <2>2, <2>3, PageTyped DEF TypeInv, ServerTyped, FramesTyped, serverVars
<1>4. CASE Forgotten(i)
  BY <1>1, <1>2, <1>4 DEF TypeInv, ServerTyped, FramesTyped, AlertsTyped, PastTyped, serverVars,
                          pageVars, Forgotten
<1> QED
  BY <1>3, <1>4

\* A frame marks the alert it is about, wherever it is in the list.
LEMMA MarkedFacts ==
  ASSUME AlertsTyped, FramesTyped, OnPriceAlert
  PROVE  LET a == Head(frames)
         IN /\ AlertsTyped' /\ a \in Alerts /\ DOMAIN alerts' = DOMAIN alerts
            /\ \A k \in DOMAIN alerts :
                 /\ alerts'[k].id = alerts[k].id /\ alerts'[k].ticker = alerts[k].ticker
                 /\ alerts'[k].triggered = (alerts[k].id = a \/ alerts[k].triggered)
<1> DEFINE a == Head(frames)
           F(x) == IF x.id = a THEN [x EXCEPT !.triggered = TRUE] ELSE x
<1>1. alerts' = [k \in DOMAIN alerts |-> F(alerts[k])] /\ frames # <<>>
  BY DEF OnPriceAlert
<1>2. a \in Alerts
  BY <1>1 DEF FramesTyped
<1>3. ASSUME NEW x \in Entry
      PROVE  /\ F(x) \in Entry /\ F(x).id = x.id /\ F(x).ticker = x.ticker
             /\ F(x).triggered = (x.id = a \/ x.triggered)
  <2>1. x.triggered \in BOOLEAN
    BY DEF Entry
  <2>2. CASE x.id = a
    BY <2>2 DEF Entry
  <2>3. CASE x.id # a
    BY <2>1, <2>3 DEF Entry
  <2> QED
    BY <2>2, <2>3
<1>4. alerts \in Seq(Entry) /\ Len(alerts) \in Nat /\ DOMAIN alerts = 1..Len(alerts)
  BY DEF AlertsTyped
<1> HIDE DEF F, a
<1>5. alerts' \in [1..Len(alerts) -> Entry]
  BY <1>1, <1>3, <1>4
<1>6. alerts' \in Seq(Entry) /\ DOMAIN alerts' = DOMAIN alerts
  BY <1>4, <1>5
<1>7. \A k \in DOMAIN alerts : alerts'[k] = F(alerts[k]) /\ alerts[k] \in Entry
  BY <1>1, <1>4
<1> QED
  BY <1>2, <1>3, <1>6, <1>7 DEF AlertsTyped, a

\* The server's and the page's variables are well typed at first.
LEMMA InitTyped == Init => TypeInv
<1> SUFFICES ASSUME Init PROVE TypeInv
  OBVIOUS
<1>1. /\ requests = <<Request("portfolio", None, None), Request("watchlist", None, None),
                      Request("alerts", None, None)>>
      /\ Len(Load) = 3
  BY DEF Init, Load
<1>2. /\ Request("portfolio", None, None) \in Asked /\ Formed(Request("portfolio", None, None))
      /\ Request("watchlist", None, None) \in Asked /\ Formed(Request("watchlist", None, None))
      /\ Request("alerts", None, None) \in Asked /\ Formed(Request("alerts", None, None))
  BY RequestFacts DEF Reads, Writes
<1>3. requests \in Seq(Asked) /\ Len(requests) = 3 /\ \A i \in 1..3 : Formed(requests[i])
  BY <1>1, <1>2
<1>4. RequestsTyped
  BY <1>1, <1>3, DashboardAssumption DEF RequestsTyped
<1>5. {a \in Alerts : owner[a] # None} = {}
  BY DEF Init
<1>6. ServerTyped
  BY <1>5, FS_EmptySet DEF ServerTyped, Init
<1> QED
  BY <1>4, <1>6 DEF TypeInv, Init, AlertsTyped, FramesTyped, PastTyped

\* TypeInv is kept by every step.
LEMMA NextTyped == TypeInv /\ [Next]_vars => TypeInv'
<1> SUFFICES ASSUME TypeInv, [Next]_vars PROVE TypeInv'
  OBVIOUS
<1>1. ASSUME NEW id \in toasts, Dismiss(id) PROVE TypeInv'
  BY <1>1 DEF Dismiss, TypeInv, RequestsTyped, ServerTyped, AlertsTyped, FramesTyped, PastTyped,
              serverVars
<1>2. CASE Reload
  <2>1. RequestsTyped' /\ PastTyped'
    BY <1>2, ReloadFacts DEF PastTyped, Marks
  <2> QED
    BY <1>2, <2>1 DEF Reload, TypeInv, ServerTyped, AlertsTyped, FramesTyped, serverVars
<1>3. CASE OnPriceAlert
  <2>1. AlertsTyped' /\ Head(frames) \in Alerts /\ toasts' = toasts \cup {Head(frames)}
    BY <1>3, MarkedFacts DEF TypeInv, OnPriceAlert
  <2>2. PastTyped'
    BY <1>3, MarkFacts DEF OnPriceAlert, TypeInv, Marks
  <2>3. FramesTyped'
    BY <1>3, HeadTailProperties DEF OnPriceAlert, TypeInv, FramesTyped
  <2> QED
    BY <1>3, <2>1, <2>2, <2>3 DEF OnPriceAlert, TypeInv, RequestsTyped, ServerTyped, serverVars
<1>4. CASE LoseFrame
  <2>1. PastTyped'
    BY <1>4, MarkFacts DEF LoseFrame, TypeInv, Marks
  <2>2. FramesTyped'
    BY <1>4, HeadTailProperties DEF LoseFrame, TypeInv, FramesTyped
  <2> QED
    BY <1>4, <2>1, <2>2 DEF LoseFrame, TypeInv, RequestsTyped, ServerTyped, AlertsTyped,
                            serverVars, pageVars
<1>5. ASSUME NEW a \in Alerts, Fire(a) PROVE TypeInv'
  <2>1. ServerTyped'
    BY <1>5 DEF Fire, TypeInv, ServerTyped
  <2>2. FramesTyped'
    BY <1>5, AppendProperties DEF Fire, TypeInv, FramesTyped
  <2> QED
    BY <1>5, <2>1, <2>2 DEF Fire, TypeInv, RequestsTyped, AlertsTyped, PastTyped, pageVars
<1>6. CASE UNCHANGED vars
  BY <1>6 DEF vars, TypeInv, RequestsTyped, ServerTyped, AlertsTyped, FramesTyped, PastTyped,
              serverVars, pageVars
<1> QED
  BY <1>1, <1>2, <1>3, <1>4, <1>5, <1>6, UserTyped, ServeTyped, AnswerTyped DEF Next

\* Every variable of the page and of the server keeps to its values, whatever is in flight,
\* fails or is lost; a fired alert is one the server has, and no more requests are in
\* flight than the user and a page that loads can have sent.
THEOREM DashboardTypeCorrect == Spec => []TypeOK
<1>1. TypeInv => TypeOK
  <2> SUFFICES ASSUME TypeInv PROVE TypeOK
    OBVIOUS
  <2>1. \A i \in DOMAIN requests : requests[i].op \in Reads \cup Writes
                                   /\ (requests[i].op \in Reads <=> requests[i].ticker = None)
    <3>1. \A i \in DOMAIN requests : requests[i] \in Asked /\ Formed(requests[i])
      BY DEF TypeInv, RequestsTyped
    <3>2. \A r \in Asked : r.op \in Reads \cup Writes
      BY DEF Asked
    <3> QED
      BY <3>1, <3>2 DEF Formed
  <2>2. \A i \in DOMAIN alerts : alerts[i] \in [id : Alerts, ticker : Tickers, triggered : BOOLEAN]
    <3>1. \A i \in DOMAIN alerts : alerts[i] \in Entry
      BY DEF TypeInv, AlertsTyped
    <3> QED
      BY <3>1 DEF Entry
  <2>3. \A i \in DOMAIN frames : frames[i] \in Alerts
    BY DEF TypeInv, FramesTyped
  <2> QED
    BY <2>1, <2>2, <2>3 DEF TypeInv, TypeOK, RequestsTyped, ServerTyped, PastTyped, Marks
<1> QED
  BY InitTyped, NextTyped, <1>1, PTL DEF Spec

-----------------------------------------------------------------------------
(* The rows.                                                               *)

\* What a row is when no write on its ticker is in flight.
Quiet(t) ==
  /\ t \in portfolio => status[t] = "held"
  /\ t \in watchlist /\ "bought" \notin past[t] => status[t] = "watched"
  /\ "failed" \notin past[t] =>
       /\ status[t] = "held" => t \in portfolio \/ Reading("portfolio")
       /\ status[t] = "watched" => t \in watchlist \/ Reading("watchlist")

\* A row that no write is about is right without the help of a request in flight.
LEMMA QuietRow ==
  ASSUME NEW t \in Tickers, RowRight(t), \A j \in DOMAIN requests : requests[j].ticker # t
  PROVE  Quiet(t)
  BY DEF RowRight, Quiet, Open, OpenMine

\* A row is as right as it was when the step leaves the row, its ticker and the requests
\* about it alone; "at" says where each of these requests was before.
LEMMA RowFrame ==
  ASSUME NEW t \in Tickers, RowInv(t), status'[t] = status[t], past[t] \subseteq past'[t],
         t \in portfolio' <=> t \in portfolio, t \in watchlist' <=> t \in watchlist,
         NEW at,
         \A k \in DOMAIN requests' : t \in About(requests'[k]) =>
           at[k] \in DOMAIN requests /\ requests'[k] = requests[at[k]],
         \A k, l \in DOMAIN requests' :
           t \in About(requests'[k]) /\ t \in About(requests'[l]) /\ at[k] = at[l] => k = l,
         \A j \in DOMAIN requests : t \in About(requests[j]) =>
           \E k \in DOMAIN requests' : requests'[k] = requests[j]
  PROVE  RowInv(t)'
<1> SUFFICES ASSUME Clear(t)' PROVE Lonely(t)'
                                    /\ (\A i \in DOMAIN requests : t \in About(requests[i]) =>
                                          RowFits(requests[i], t))'
                                    /\ RowRight(t)'
  BY DEF RowInv
<1>1. Clear(t)
  BY DEF Clear
<1>2. \A r : r.ticker = t \/ r.op \in {"portfolio", "watchlist"} => t \in About(r)
  BY DEF About, Reads
<1>3. Lonely(t)'
  <2> SUFFICES ASSUME NEW i \in DOMAIN requests', NEW j \in DOMAIN requests',
                      requests'[i].ticker = t, t \in About(requests'[j])
               PROVE  i = j
    BY DEF Lonely
  <2>1. t \in About(requests'[i])
    BY <1>2
  <2>2. /\ at[i] \in DOMAIN requests /\ requests'[i] = requests[at[i]]
        /\ at[j] \in DOMAIN requests /\ requests'[j] = requests[at[j]]
    BY <2>1
  <2>3. at[i] = at[j]
    BY <1>1, <2>2 DEF RowInv, Lonely
  <2> QED
    BY <2>1, <2>3
<1>4. ASSUME NEW k \in DOMAIN requests', t \in About(requests'[k])
      PROVE  RowFits(requests[k], t)'
  <2>1. RowFits(requests[at[k]], t) /\ requests'[k] = requests[at[k]]
    BY <1>1, <1>4 DEF RowInv
  <2> QED
    BY <2>1 DEF RowFits
<1>5. RowRight(t)'
  <2>1. \A op : (OpenMine(op, t) => OpenMine(op, t)') /\ (Open(op, t) => Open(op, t)')
    BY <1>2 DEF OpenMine, Open
  <2>2. \A op \in {"portfolio", "watchlist"} : Reading(op) => Reading(op)'
    BY <1>2 DEF Reading
  <2> QED
    BY <1>1, <2>1, <2>2 DEF RowInv, RowRight
<1> QED
  BY <1>3, <1>4, <1>5

\* What a handler does to the rows, and what it owes the row it is about.
RowsKept(u) == \A t \in Tickers \ {u} : /\ t \in portfolio' <=> t \in portfolio
                                        /\ t \in watchlist' <=> t \in watchlist
BeforeSend(u) == Clear(u) /\ Quiet(u) /\ ~Reading("portfolio") /\ ~Reading("watchlist")
AfterSend(op, u, also) == (OpenMine(op, u) /\ Open(op, u))' /\ past'[u] = past[u] \cup also
SendFits(op, u, a, also) == BeforeSend(u) /\ AfterSend(op, u, also) =>
                              RowFits(Request(op, u, a), u)' /\ RowRight(u)'

\* A new request is in order when it is the only one about its ticker, fits the row, and
\* leaves it right.
LEMMA SendRows ==
  ASSUME TypeInv, RowsInv, NEW op \in Writes, NEW u \in Tickers, NEW a \in Alerts \cup {None},
         op = "deleteAlert" => a \in Alerts, NEW also \in SUBSET Marks, Send(op, u, a, also),
         RowsKept(u), SendFits(op, u, a, also)
  PROVE  RowsInv'
<1> DEFINE n == Len(requests)
           q == Request(op, u, a)
<1>1. /\ n \in Nat /\ DOMAIN requests = 1..n /\ DOMAIN requests' = 1..(n + 1)
      /\ \A i \in 1..n : requests'[i] = requests[i]
      /\ requests'[n + 1] = q
  BY SendFacts
<1>2. q.op = op /\ q.ticker = u /\ q.mine /\ ~q.ok /\ op \notin Reads /\ u # None
  BY DashboardAssumption DEF Request, Reads, Writes
<1>3. About(q) = {u} /\ Sane(q)
  BY <1>2 DEF About, Sane
<1> HIDE DEF q, n
<1>4. /\ UNCHANGED serverVars
      /\ \A t \in Tickers : past[t] \subseteq past'[t]
      /\ past'[u] = past[u] \cup also \cup IF u \in Busy THEN {"overlap"} ELSE {}
  <2>1. Mark({u}, also \cup IF u \in Busy THEN {"overlap"} ELSE {}) /\ UNCHANGED serverVars
    BY DEF Send
  <2>2. also \cup (IF u \in Busy THEN {"overlap"} ELSE {}) \subseteq Marks
    BY DEF Marks
  <2> QED
    BY <2>1, <2>2, MarkFacts DEF TypeInv
<1>5. ASSUME NEW t \in Tickers \ {u} PROVE RowInv(t)'
  <2> DEFINE at == [k \in 1..n |-> k]
  <2>1. \A k \in DOMAIN requests' : t \in About(requests'[k]) =>
          k \in 1..n /\ at[k] = k /\ requests'[k] = requests[k]
    BY <1>1, <1>3
  <2>2. \A j \in DOMAIN requests : t \in About(requests[j]) =>
          \E k \in DOMAIN requests' : requests'[k] = requests[j]
    BY <1>1
  <2> HIDE DEF at
  <2>3. RowInv(t)
    BY DEF RowsInv
  <2>4. \A k \in DOMAIN requests' : t \in About(requests'[k]) =>
          at[k] \in DOMAIN requests /\ requests'[k] = requests[at[k]]
    BY <1>1, <2>1
  <2>5. \A k, l \in DOMAIN requests' :
          t \in About(requests'[k]) /\ t \in About(requests'[l]) /\ at[k] = at[l] => k = l
    BY <2>1
  <2>6. /\ status'[t] = status[t] /\ past[t] \subseteq past'[t]
        /\ t \in portfolio' <=> t \in portfolio
        /\ t \in watchlist' <=> t \in watchlist
    BY <1>4 DEF serverVars, RowsKept
  <2> QED
    BY <2>2, <2>3, <2>4, <2>5, <2>6, RowFrame
<1>6. RowInv(u)'
  <2> SUFFICES ASSUME Clear(u)' PROVE RowInv(u)'
    BY DEF RowInv
  <2>1. u \notin Busy /\ past'[u] = past[u] \cup also
    BY <1>4 DEF Clear
  <2>2. \A j \in DOMAIN requests : u \notin About(requests[j])
    BY <2>1 DEF Busy
  <2>3. \A j \in DOMAIN requests : requests[j].ticker # u /\ requests[j].op \notin Reads
    BY <2>2 DEF About
  <2>4. Clear(u) /\ RowRight(u)
    <3>1. Clear(u)
      BY <1>4 DEF Clear
    <3> QED
      BY <3>1 DEF RowsInv, RowInv
  <2>5. Quiet(u)
    BY <2>3, <2>4, QuietRow
  <2>6. ~Reading("portfolio") /\ ~Reading("watchlist")
    BY <2>3 DEF Reading, Reads
  <2>7. (OpenMine(op, u) /\ Open(op, u))'
    <3>1. n + 1 \in DOMAIN requests'
      BY <1>1
    <3> QED
      BY <1>1, <1>2, <3>1 DEF OpenMine, Open
  <2>8. RowFits(Request(op, u, a), u)' /\ RowRight(u)'
    BY <2>1, <2>4, <2>5, <2>6, <2>7 DEF SendFits, BeforeSend, AfterSend
  <2>9. \A k \in DOMAIN requests' : u \in About(requests'[k]) => k = n + 1
    BY <1>1, <2>2
  <2>10. Lonely(u)'
    <3>1. \A r : r.ticker = u => u \in About(r)
      BY DEF About
    <3> QED
      BY <2>9, <3>1 DEF Lonely
  <2>11. \A k \in DOMAIN requests' : u \in About(requests'[k]) => RowFits(requests[k], u)'
    BY <1>1, <2>8, <2>9 DEF q, RowFits
  <2> QED
    BY <2>8, <2>10, <2>11 DEF RowInv
<1>7. (\A i \in DOMAIN requests : Sane(requests[i]))'
  BY <1>1, <1>3 DEF RowsInv
<1> QED
  BY <1>5, <1>6, <1>7 DEF RowsInv

\* Each handler of the user's orders leaves the row as its request expects it.
LEMMA UserRows ==
  ASSUME TypeInv, RowsInv,
         \/ \E t \in Tickers : \/ HandleAdd(t) \/ HandleRemove(t) \/ HandleSetAlert(t)
                               \/ HandleAddToWatchlist(t) \/ HandleRemoveFromWatchlist(t)
         \/ \E i \in DOMAIN alerts : HandleDeleteAlert(alerts[i])
  PROVE  RowsInv'
<1>1. None \in Alerts \cup {None} /\ {} \in SUBSET Marks
      /\ {"bought"} \in SUBSET Marks /\ {"unwatched"} \in SUBSET Marks
  BY DEF Marks
<1>2. /\ {"add", "remove", "setAlert", "watch", "unwatch", "deleteAlert"} \subseteq Writes
      /\ "deleteAlert" \notin {"add", "remove", "setAlert", "watch", "unwatch"}
  BY DEF Writes
<1>3. \A op, u, a : LET q == Request(op, u, a)
                    IN q.op = op /\ q.mine /\ ~q.ok
  BY DEF Request
<1>4. \A op, u, a, also : Send(op, u, a, also) => status' = status
  BY DEF Send, serverVars
<1>5. ASSUME NEW u \in Tickers, HandleAdd(u) PROVE RowsInv'
  <2> DEFINE also == IF u \in watchlist THEN {"bought"} ELSE {}
  <2>1. /\ portfolio' = portfolio \cup {u} /\ watchlist' = watchlist
        /\ Send("add", u, None, also) /\ also \in SUBSET Marks /\ status' = status
    BY <1>1, <1>2, <1>4, <1>5 DEF HandleAdd
  <2>2. ASSUME BeforeSend(u), AfterSend("add", u, also)
        PROVE  RowFits(Request("add", u, None), u)' /\ RowRight(u)'
    <3>1. u \in watchlist => "bought" \in past'[u]
      BY <2>2 DEF AfterSend
    <3>2. "failed" \notin past'[u] => "failed" \notin past[u]
      BY <2>2 DEF AfterSend
    <3>3. RowFits(Request("add", u, None), u)'
      BY <1>3, <2>1, <3>1 DEF RowFits
    <3>4. RowRight(u)'
      BY <2>1, <2>2, <3>1, <3>2 DEF RowRight, Quiet, BeforeSend, AfterSend
    <3> QED
      BY <3>3, <3>4
  <2>3. SendFits("add", u, None, also)
    BY <2>2 DEF SendFits
  <2>4. RowsKept(u) /\ "add" \in Writes /\ "add" # "deleteAlert"
    BY <1>2, <2>1 DEF RowsKept
  <2> HIDE DEF also
  <2> QED
    BY <1>1, <2>1, <2>3, <2>4, SendRows
<1>6. ASSUME NEW u \in Tickers, HandleRemove(u) PROVE RowsInv'
  <2>1. /\ portfolio' = portfolio \ {u} /\ watchlist' = watchlist /\ u \in portfolio
        /\ Send("remove", u, None, {}) /\ status' = status
    BY <1>2, <1>4, <1>6 DEF HandleRemove
  <2>2. ASSUME BeforeSend(u), AfterSend("remove", u, {})
        PROVE  RowFits(Request("remove", u, None), u)' /\ RowRight(u)'
    <3>1. status[u] = "held" /\ past'[u] = past[u] /\ (u \in watchlist => "bought" \in past[u])
      BY <2>1, <2>2 DEF Quiet, BeforeSend, AfterSend
    <3>2. RowFits(Request("remove", u, None), u)'
      BY <1>3, <2>1, <3>1 DEF RowFits
    <3>3. RowRight(u)'
      BY <2>1, <2>2, <3>1 DEF RowRight, Quiet, BeforeSend, AfterSend
    <3> QED
      BY <3>2, <3>3
  <2>3. SendFits("remove", u, None, {})
    BY <2>2 DEF SendFits
  <2>4. RowsKept(u) /\ "remove" \in Writes /\ "remove" # "deleteAlert"
    BY <1>2, <2>1 DEF RowsKept
  <2> QED
    BY <1>1, <2>1, <2>3, <2>4, SendRows
<1>7. ASSUME NEW u \in Tickers, HandleAddToWatchlist(u) PROVE RowsInv'
  <2>1. /\ watchlist' = watchlist \cup {u} /\ portfolio' = portfolio
        /\ Send("watch", u, None, {}) /\ status' = status
    BY <1>2, <1>4, <1>7 DEF HandleAddToWatchlist
  <2>2. ASSUME BeforeSend(u), AfterSend("watch", u, {})
        PROVE  RowFits(Request("watch", u, None), u)' /\ RowRight(u)'
    <3>1. past'[u] = past[u]
      BY <2>2 DEF AfterSend
    <3>2. RowFits(Request("watch", u, None), u)'
      BY <1>3, <2>1, <3>1 DEF RowFits
    <3>3. RowRight(u)'
      BY <2>1, <2>2, <3>1 DEF RowRight, Quiet, BeforeSend, AfterSend
    <3> QED
      BY <3>2, <3>3
  <2>3. SendFits("watch", u, None, {})
    BY <2>2 DEF SendFits
  <2>4. RowsKept(u) /\ "watch" \in Writes /\ "watch" # "deleteAlert"
    BY <1>2, <2>1 DEF RowsKept
  <2> QED
    BY <1>1, <2>1, <2>3, <2>4, SendRows
<1>8. ASSUME NEW u \in Tickers, HandleRemoveFromWatchlist(u) PROVE RowsInv'
  <2>1. /\ watchlist' = watchlist \ {u} /\ portfolio' = portfolio /\ u \in watchlist
        /\ Send("unwatch", u, None, {"unwatched"}) /\ status' = status
    BY <1>2, <1>4, <1>8 DEF HandleRemoveFromWatchlist
  <2>2. ASSUME BeforeSend(u), AfterSend("unwatch", u, {"unwatched"})
        PROVE  RowFits(Request("unwatch", u, None), u)' /\ RowRight(u)'
    <3>1. /\ "failed" \notin past'[u] => "failed" \notin past[u]
          /\ "bought" \notin past'[u] => "bought" \notin past[u]
      BY <2>2 DEF AfterSend
    <3>2. RowFits(Request("unwatch", u, None), u)'
      BY <1>3, <2>1, <3>1 DEF RowFits
    <3>3. RowRight(u)'
      BY <2>1, <2>2, <3>1 DEF RowRight, Quiet, BeforeSend, AfterSend
    <3> QED
      BY <3>2, <3>3
  <2>3. SendFits("unwatch", u, None, {"unwatched"})
    BY <2>2 DEF SendFits
  <2>4. RowsKept(u) /\ "unwatch" \in Writes /\ "unwatch" # "deleteAlert"
    BY <1>2, <2>1 DEF RowsKept
  <2> QED
    BY <1>1, <2>1, <2>3, <2>4, SendRows
<1>9. ASSUME NEW u \in Tickers, NEW op \in {"setAlert", "deleteAlert"}, NEW a \in Alerts \cup {None},
             op = "deleteAlert" => a \in Alerts, Send(op, u, a, {}),
             UNCHANGED <<portfolio, watchlist>>
      PROVE  RowsInv'
  <2>1. status' = status /\ op \in Writes
    BY <1>2, <1>4, <1>9
  <2>2. ASSUME BeforeSend(u), AfterSend(op, u, {})
        PROVE  RowFits(Request(op, u, a), u)' /\ RowRight(u)'
    <3>1. past'[u] = past[u]
      BY <2>2 DEF AfterSend
    <3>2. RowFits(Request(op, u, a), u)'
      BY <1>3, <1>9, <2>1, <3>1 DEF RowFits
    <3>3. RowRight(u)'
      BY <1>9, <2>1, <2>2, <3>1 DEF RowRight, Quiet, BeforeSend, AfterSend
    <3> QED
      BY <3>2, <3>3
  <2>3. SendFits(op, u, a, {}) /\ RowsKept(u)
    BY <1>9, <2>2 DEF SendFits, RowsKept
  <2> QED
    BY <1>1, <1>9, <2>1, <2>3, SendRows
<1>10. ASSUME NEW u \in Tickers, HandleSetAlert(u) PROVE RowsInv'
  BY <1>1, <1>9, <1>10 DEF HandleSetAlert
<1>11. ASSUME NEW k \in DOMAIN alerts, HandleDeleteAlert(alerts[k]) PROVE RowsInv'
  <2>1. alerts[k].ticker \in Tickers /\ alerts[k].id \in Alerts
    <3>1. alerts[k] \in Entry
      BY DEF TypeInv, AlertsTyped
    <3> QED
      BY <3>1 DEF Entry
  <2>2. /\ Send("deleteAlert", alerts[k].ticker, alerts[k].id, {})
        /\ UNCHANGED <<portfolio, watchlist>>
    BY <1>11 DEF HandleDeleteAlert
  <2> QED
    BY <1>9, <2>1, <2>2
<1> QED
  BY <1>5, <1>6, <1>7, <1>8, <1>10, <1>11

\* The server's step leaves the rows right: a request that it carries out makes its list
\* what the page already shows, and a read sees the lists as they are.
LEMMA ServeRows ==
  ASSUME TypeInv, RowsInv, NEW i \in DOMAIN requests, Serve(i)
  PROVE  RowsInv'
<1> DEFINE r == requests[i]
           s == requests'[i]
<1>1. /\ DOMAIN requests' = DOMAIN requests
      /\ \A j \in DOMAIN requests \ {i} : requests'[j] = requests[j]
      /\ s.op = r.op /\ s.ticker = r.ticker /\ s.mine = r.mine /\ s.state = "done"
      /\ \/ Refuses(i) /\ s.ok = r.ok /\ s.result = r.result
         \/ s.ok /\ \/ r.op = "portfolio" /\ s.result = In("held") /\ UNCHANGED serverVars
                    \/ r.op = "watchlist" /\ s.result = In("watched") /\ UNCHANGED serverVars
                    \/ r.op = "alerts" /\ UNCHANGED serverVars
                    \/ ServesAdd(i) \/ ServesWatch(i) \/ ServesRemoval(i)
                    \/ ServesSetAlert(i)
                    \/ ServesDeleteAlert(i)
  BY ServeFacts
<1>2. /\ UNCHANGED <<portfolio, watchlist, past>> /\ r.state = "sent"
      /\ r \in Asked /\ Formed(r) /\ ~r.ok
  BY DEF Serve, pageVars, TypeInv, RequestsTyped, RowsInv, Sane
<1>3. /\ \A k \in DOMAIN requests : /\ requests'[k].op = requests[k].op
                                    /\ requests'[k].ticker = requests[k].ticker
                                    /\ requests'[k].mine = requests[k].mine
                                    /\ About(requests'[k]) = About(requests[k])
      /\ \A t : Lonely(t)' <=> Lonely(t)
      /\ \A t : Clear(t)' <=> Clear(t)
      /\ \A op : Reading(op)' <=> Reading(op)
  <2>1. \A k \in DOMAIN requests : /\ requests'[k].op = requests[k].op
                                   /\ requests'[k].ticker = requests[k].ticker
                                   /\ requests'[k].mine = requests[k].mine
    BY <1>1
  <2>2. \A k \in DOMAIN requests : About(requests'[k]) = About(requests[k])
    BY <2>1 DEF About
  <2> QED
    BY <1>1, <1>2, <2>1, <2>2 DEF Lonely, Reading, Clear
<1>4. (\A k \in DOMAIN requests : Sane(requests[k]))'
  BY <1>1, <1>2, <1>3 DEF RowsInv, Sane
<1>5. ASSUME NEW t \in Tickers PROVE RowInv(t)'
  <2> SUFFICES ASSUME Clear(t)
               PROVE  /\ (\A k \in DOMAIN requests : t \in About(requests[k]) =>
                           RowFits(requests[k], t))'
                      /\ RowRight(t)'
    BY <1>3, <1>5 DEF RowInv, RowsInv
  <2>1. /\ Lonely(t) /\ RowRight(t)
        /\ \A k \in DOMAIN requests : t \in About(requests[k]) => RowFits(requests[k], t)
    BY DEF RowsInv, RowInv
  <2>2. CASE status'[t] = status[t] /\ r.ticker # t
    <3>1. \A op : (Open(op, t)' <=> Open(op, t)) /\ (OpenMine(op, t)' <=> OpenMine(op, t))
      BY <1>1, <1>3, <2>2 DEF Open, OpenMine
    <3>2. RowRight(t)'
      BY <1>2, <1>3, <2>1, <2>2, <3>1 DEF RowRight
    <3>3. ASSUME NEW k \in DOMAIN requests, k # i, t \in About(requests[k])
          PROVE  RowFits(requests[k], t)'
      <4>1. RowFits(requests[k], t) /\ requests'[k] = requests[k]
        BY <1>1, <2>1, <3>3
      <4> QED
        BY <1>2, <2>2, <4>1 DEF RowFits
    <3>4. ASSUME t \in About(r) PROVE RowFits(requests[i], t)'
      <4>1. RowFits(r, t) /\ r.op \in Reads
        BY <2>1, <2>2, <3>4 DEF About
      <4>2. t \in In("held") <=> status[t] = "held"
        BY DEF In
      <4>3. t \in In("watched") <=> status[t] = "watched"
        BY DEF In
      <4>4. r.op \notin {"add", "watch", "remove", "unwatch"}
        BY <4>1 DEF Reads
      <4>5. s.ok => \/ s.op = "portfolio" /\ s.result = In("held")
                    \/ s.op = "watchlist" /\ s.result = In("watched")
                    \/ s.op = "alerts"
        BY <1>1, <1>2, <4>1 DEF ServesAdd, ServesWatch, ServesRemoval, ServesSetAlert,
                                ServesDeleteAlert, Reads
      <4>6. ~s.mine => "failed" \in past[t]
        BY <1>1, <4>1 DEF RowFits
      <4>7. s.op = r.op /\ past' = past /\ status'[t] = status[t]
        BY <1>1, <1>2, <2>2
      <4> QED
        BY <4>2, <4>3, <4>4, <4>5, <4>6, <4>7 DEF RowFits
    <3> QED
      BY <1>1, <1>3, <3>2, <3>3, <3>4
  <2>3. CASE r.ticker = t
    <3>1. r.op \in Writes /\ t \in About(r) /\ t # None
      BY <1>2, <2>3, DashboardAssumption DEF Formed, Asked, About, Reads, Writes
    <3>2. \A k \in DOMAIN requests : t \in About(requests[k]) => k = i
      BY <2>1, <2>3 DEF Lonely
    <3>3. RowFits(r, t)
      BY <2>1, <3>1
    <3>4. \A k \in DOMAIN requests : requests[k].ticker = t \/ requests[k].op \in Reads => k = i
      BY <3>2 DEF About
    <3>5. \A op : /\ Open(op, t) <=> r.op = op
                  /\ OpenMine(op, t) <=> r.op = op /\ r.mine
      BY <1>2, <2>3, <3>4 DEF Open, OpenMine
    <3>6. \A op : /\ Open(op, t)' <=> r.op = op /\ ~s.ok
                  /\ OpenMine(op, t)' <=> r.op = op /\ ~s.ok /\ r.mine
      BY <1>1, <1>2, <1>3, <2>3, <3>4 DEF Open, OpenMine
    <3>7. ~Reading("portfolio") /\ ~Reading("watchlist")
      BY <3>1, <3>4 DEF Reading, Reads, Writes
    <3>a. /\ s.op = r.op /\ s.mine = r.mine /\ ~r.ok /\ UNCHANGED <<portfolio, watchlist, past>>
          /\ ~Reading("portfolio")' /\ ~Reading("watchlist")'
      BY <1>1, <1>2, <1>3, <3>7
    <3>b. r.op \notin {"portfolio", "watchlist", "alerts"}
      BY <3>1 DEF Writes
    <3>8. RowFits(requests[i], t)' /\ RowRight(t)'
      <4> USE <2>1, <3>a, <3>b, <3>3, <3>5, <3>6, <3>7 DEF RowFits, RowRight
      <4>1. CASE Refuses(i) /\ s.ok = r.ok
        <5>1. status' = status
          BY <4>1 DEF Refuses, serverVars
        <5> QED
          BY <4>1, <5>1
      <4>2. CASE s.ok /\ ServesAdd(i)
        <5>1. status'[t] = "held" /\ r.op = "add"
          BY <2>3, <4>2 DEF ServesAdd, TypeInv, ServerTyped, r
        <5> QED
          BY <4>2, <5>1
      <4>3. CASE s.ok /\ ServesWatch(i)
        <5>1. status[t] # "held" /\ status'[t] = "watched" /\ r.op = "watch"
          BY <2>3, <4>3 DEF ServesWatch, TypeInv, ServerTyped, r
        <5> QED
          BY <4>3, <5>1
      <4>4. CASE s.ok /\ ServesRemoval(i)
        <5>1. /\ status'[t] = "none"
              /\ \/ r.op = "remove" /\ status[t] = "held"
                 \/ r.op = "unwatch" /\ status[t] = "watched"
          BY <2>3, <4>4 DEF ServesRemoval, TypeInv, ServerTyped, r
        <5> QED
          BY <4>4, <5>1
      <4>5. CASE s.ok /\ (ServesSetAlert(i) \/ ServesDeleteAlert(i))
        <5>1. status' = status /\ r.op \in {"setAlert", "deleteAlert"}
          BY <4>5 DEF ServesSetAlert, ServesDeleteAlert, r
        <5> QED
          BY <4>5, <5>1
      <4> QED
        BY <1>1, <4>1, <4>2, <4>3, <4>4, <4>5
    <3> QED
      BY <1>1, <1>3, <3>2, <3>8 DEF s
  <2>4. r.ticker # t => status'[t] = status[t]
    BY <1>1 DEF Refuses, ServesAdd, ServesWatch, ServesRemoval, ServesSetAlert, ServesDeleteAlert,
                serverVars, TypeInv, ServerTyped
  <2> QED
    BY <2>2, <2>3, <2>4
<1> QED
  BY <1>4, <1>5 DEF RowsInv

\* What the page does with an answer, or with an error, to the rows.
LEMMA RowsAnswered ==
  ASSUME NEW r, Succeeded(r) \/ Failed(r)
  PROVE  /\ \A t : r.op \in Writes /\ t # r.ticker => /\ t \in portfolio' <=> t \in portfolio
                                                      /\ t \in watchlist' <=> t \in watchlist
         /\ r.op # "add" /\ r.op # "portfolio" => portfolio' = portfolio
         /\ r.op # "watch" /\ r.op # "watchlist" => watchlist' = watchlist
         /\ Failed(r) => /\ r.op = "add" => portfolio' = portfolio \ {r.ticker}
                         /\ r.op = "watch" => watchlist' = watchlist \ {r.ticker}
         /\ Succeeded(r) => /\ portfolio' = IF r.op = "portfolio" THEN r.result ELSE portfolio
                            /\ watchlist' = IF r.op = "watchlist" THEN r.result ELSE watchlist
<1>1. CASE Succeeded(r)
  <2>1. /\ portfolio' = IF r.op = "portfolio" THEN r.result ELSE portfolio
        /\ watchlist' = IF r.op = "watchlist" THEN r.result ELSE watchlist
    BY <1>1 DEF Succeeded, SetHoldings, SetWatchlist, SetAlerts, AlertMade, NothingToDo, pageVars
  <2>2. ~Failed(r) \/ (portfolio' = portfolio /\ watchlist' = watchlist)
        \/ (r.op = "add" /\ portfolio' = portfolio \ {r.ticker})
        \/ (r.op = "watch" /\ watchlist' = watchlist \ {r.ticker})
    BY DEF Failed, AddFailed, WatchFailed, SetAlertFailed, Swallowed, pageVars
  <2>3. Failed(r) => /\ r.op = "add" => portfolio' = portfolio \ {r.ticker}
                     /\ r.op = "watch" => watchlist' = watchlist \ {r.ticker}
    BY DEF Failed, AddFailed, WatchFailed, SetAlertFailed, Swallowed, Reads
  <2> QED
    BY <2>1, <2>3 DEF Writes
<1>2. CASE ~Succeeded(r) /\ Failed(r)
  BY <1>2 DEF Failed, AddFailed, WatchFailed, SetAlertFailed, Swallowed, pageVars, Reads, Writes
<1> QED
  BY <1>1, <1>2

\* A write that comes to its end leaves the row to itself.
LEMMA WriteEndsRow ==
  ASSUME NEW t \in Tickers, NEW r, RowFits(r, t), Sane(r), r.op \in Writes, r.ticker = t,
         \A op : Open(op, t) => r.op = op, \A op : OpenMine(op, t) => r.op = op,
         ~Reading("portfolio"), ~Reading("watchlist"), RowRight(t),
         status' = status, past[t] \subseteq past'[t],
         \/ r.mine /\ r.ok /\ Succeeded(r)
         \/ Failed(r) /\ "failed" \in past'[t]
         \/ ~r.mine /\ UNCHANGED <<portfolio, watchlist>>
  PROVE  /\ t \in portfolio' => status[t] = "held"
         /\ t \in watchlist' /\ "bought" \notin past'[t] => status[t] = "watched"
         /\ "failed" \notin past'[t] => /\ status[t] = "held" => t \in portfolio'
                                        /\ status[t] = "watched" => t \in watchlist'
<1>1. /\ r.op \notin {"portfolio", "watchlist", "alerts"}
      /\ "failed" \in past[t] => "failed" \in past'[t]
      /\ "bought" \in past[t] => "bought" \in past'[t]
  BY DEF Writes
<1>2. CASE r.mine /\ r.ok /\ Succeeded(r)
  <2>1. portfolio' = portfolio /\ watchlist' = watchlist
    BY <1>1, <1>2, RowsAnswered
  <2> QED
    BY <1>1, <1>2, <2>1 DEF RowFits, RowRight, Writes
<1>3. CASE Failed(r) /\ "failed" \in past'[t]
  <2>1. /\ r.op # "add" => portfolio' = portfolio
        /\ r.op # "watch" => watchlist' = watchlist
        /\ r.op = "add" => portfolio' = portfolio \ {t}
        /\ r.op = "watch" => watchlist' = watchlist \ {t}
    BY <1>1, <1>3, RowsAnswered
  <2> QED
    BY <1>1, <1>3, <2>1 DEF RowFits, RowRight
<1>4. CASE ~r.mine /\ UNCHANGED <<portfolio, watchlist>>
  BY <1>1, <1>4 DEF RowFits, RowRight
<1> QED
  BY <1>2, <1>3, <1>4

\* An answer that comes back, or is lost, or goes to a page that is gone.
LEMMA LeaveRows ==
  ASSUME TypeInv, RowsInv, NEW i \in DOMAIN requests, Gone(i),
         Answer(i) \/ Throw(i) \/ Forgotten(i)
  PROVE  RowsInv'
<1> DEFINE r == requests[i]
           n == Len(requests)
           at == [k \in 1..(n - 1) |-> Skip(i, k)]
<1>1. /\ n \in Nat /\ DOMAIN requests = 1..n /\ DOMAIN requests' = 1..(n - 1)
      /\ \A k \in 1..(n - 1) : at[k] \in (1..n) \ {i} /\ requests'[k] = requests[at[k]]
      /\ \A k, l \in 1..(n - 1) : at[k] = at[l] => k = l
      /\ \A j \in (1..n) \ {i} : \E k \in 1..(n - 1) : at[k] = j
  <2>1. /\ n \in Nat /\ DOMAIN requests = 1..n /\ DOMAIN requests' = 1..(n - 1)
        /\ \A k \in 1..(n - 1) : Skip(i, k) \in (1..n) \ {i} /\ requests'[k] = requests[Skip(i, k)]
        /\ \A k, l \in 1..(n - 1) : Skip(i, k) = Skip(i, l) => k = l
        /\ \A j \in (1..n) \ {i} : \E k \in 1..(n - 1) : Skip(i, k) = j
    BY GoneFacts
  <2>2. \A k \in 1..(n - 1) : at[k] = Skip(i, k)
    OBVIOUS
  <2> HIDE DEF at, n
  <2> QED
    BY <2>1, <2>2
<1>1a. \A j \in DOMAIN requests : j # i => \E k \in DOMAIN requests' : requests'[k] = requests[j]
  <2> SUFFICES ASSUME NEW j \in DOMAIN requests, j # i
               PROVE  \E k \in DOMAIN requests' : requests'[k] = requests[j]
    OBVIOUS
  <2>1. PICK k \in 1..(n - 1) : at[k] = j
    BY <1>1
  <2> HIDE DEF at, n
  <2> QED
    BY <1>1, <2>1
<1> HIDE DEF at, n
<1>2. r \in Asked /\ Formed(r) /\ Sane(r)
  BY DEF TypeInv, RequestsTyped, RowsInv
<1>3. status' = status
  BY DEF Answer, Throw, Forgotten, serverVars
<1>4. \/ r.mine /\ r.ok /\ Succeeded(r) /\ past' = past
      \/ r.mine /\ Failed(r) /\ \A t \in Tickers : /\ past[t] \subseteq past'[t]
                                                   /\ t \in About(r) => "failed" \in past'[t]
      \/ ~r.mine /\ UNCHANGED <<portfolio, watchlist, past>>
  <2>1. CASE Answer(i) /\ r.ok
    <3>1. Mark({}, {"failed"}) /\ Succeeded(r) /\ r.mine
      BY <2>1 DEF Answer
    <3>2. past' = past
      BY <3>1 DEF Mark, TypeInv, PastTyped
    <3> QED
      BY <2>1, <3>1, <3>2
  <2>2. CASE (Answer(i) /\ ~r.ok) \/ Throw(i)
    <3>1. Mark(About(r), {"failed"}) /\ Failed(r) /\ r.mine
      BY <2>2 DEF Answer, Throw
    <3>2. {"failed"} \subseteq Marks
      BY DEF Marks
    <3>3. \A t \in Tickers : /\ past[t] \subseteq past'[t]
                             /\ t \in About(r) => "failed" \in past'[t]
      BY <3>1, <3>2, MarkFacts DEF TypeInv
    <3> QED
      BY <3>1, <3>3
  <2>3. CASE Forgotten(i)
    BY <2>3 DEF Forgotten, pageVars
  <2> QED
    BY <2>1, <2>2, <2>3
<1>5. \A t \in Tickers : past[t] \subseteq past'[t]
  BY <1>4
<1>6. (\A k \in DOMAIN requests : Sane(requests[k]))'
  BY <1>1 DEF RowsInv
<1>7. ASSUME NEW t \in Tickers, t \notin About(r)
      PROVE  RowInv(t)'
  <2>1. r.op \in Writes /\ t # r.ticker
    BY <1>2, <1>7 DEF About, Asked
  <2>2. (t \in portfolio' <=> t \in portfolio) /\ (t \in watchlist' <=> t \in watchlist)
    BY <1>4, <2>1, RowsAnswered
  <2>3. RowInv(t) /\ status'[t] = status[t]
    BY <1>3 DEF RowsInv
  <2>4. \A k \in DOMAIN requests' : t \in About(requests'[k]) =>
          at[k] \in DOMAIN requests /\ requests'[k] = requests[at[k]]
    BY <1>1
  <2>5. \A k, l \in DOMAIN requests' :
          t \in About(requests'[k]) /\ t \in About(requests'[l]) /\ at[k] = at[l] => k = l
    BY <1>1
  <2>6. \A j \in DOMAIN requests : t \in About(requests[j]) =>
          \E k \in DOMAIN requests' : requests'[k] = requests[j]
    BY <1>1a, <1>7
  <2>7. past[t] \subseteq past'[t]
    BY <1>5
  <2> QED
    BY <2>2, <2>3, <2>4, <2>5, <2>6, <2>7, RowFrame
<1>8. ASSUME NEW t \in Tickers, t \in About(r), Clear(t)'
      PROVE  RowInv(t)'
  <2>1. /\ Lonely(t) /\ RowRight(t)
        /\ \A k \in DOMAIN requests : t \in About(requests[k]) => RowFits(requests[k], t)
    <3>1. Clear(t)
      BY <1>5, <1>8 DEF Clear
    <3> QED
      BY <3>1 DEF RowsInv, RowInv
  <2>2. CASE r.ticker = t
    <3>1. r.op \in Writes
      BY <1>2, <2>2, DashboardAssumption DEF Formed, Asked
    <3>2. \A j \in DOMAIN requests : t \in About(requests[j]) => j = i
      BY <2>1, <2>2 DEF Lonely
    <3>3. \A k \in DOMAIN requests' : t \notin About(requests'[k])
      BY <1>1, <3>2
    <3>4. \A j \in DOMAIN requests : requests[j].ticker = t \/ requests[j].op \in Reads => j = i
      BY <3>2 DEF About
    <3>5. /\ \A op : Open(op, t) => r.op = op
          /\ \A op : OpenMine(op, t) => r.op = op
      BY <3>4 DEF Open, OpenMine
    <3>6. ~Reading("portfolio") /\ ~Reading("watchlist")
      BY <3>1, <3>4 DEF Reading, Reads, Writes
    <3>7. /\ t \in portfolio' => status[t] = "held"
          /\ t \in watchlist' /\ "bought" \notin past'[t] => status[t] = "watched"
          /\ "failed" \notin past'[t] => /\ status[t] = "held" => t \in portfolio'
                                         /\ status[t] = "watched" => t \in watchlist'
      <4>1. RowFits(r, t) /\ past[t] \subseteq past'[t]
        BY <1>5, <1>8, <2>1
      <4>2. \/ r.mine /\ r.ok /\ Succeeded(r)
            \/ Failed(r) /\ "failed" \in past'[t]
            \/ ~r.mine /\ UNCHANGED <<portfolio, watchlist>>
        BY <1>4, <1>8
      <4> HIDE DEF r
      <4> QED
        BY <1>2, <1>3, <2>1, <2>2, <3>1, <3>5, <3>6, <4>1, <4>2, WriteEndsRow
    <3>8. Lonely(t)'
      BY <3>3 DEF Lonely
    <3> QED
      BY <1>3, <3>3, <3>7, <3>8 DEF RowInv, RowRight
  <2>3. CASE r.ticker # t
    <3>1. r.op \in Reads /\ r.mine
      BY <1>2, <1>8, <2>3 DEF About, Sane
    <3>2. \A j \in DOMAIN requests : requests[j].ticker # t
      BY <1>8, <2>1, <2>3 DEF Lonely
    <3>3. \A k \in DOMAIN requests' : requests'[k].ticker # t
      BY <1>1, <3>2
    <3>4. \A k \in DOMAIN requests' : t \in About(requests'[k]) => RowFits(requests[k], t)'
      <4> SUFFICES ASSUME NEW k \in DOMAIN requests', t \in About(requests'[k])
                   PROVE  RowFits(requests[k], t)'
        OBVIOUS
      <4>1. requests'[k].op \in Reads
        BY <3>3 DEF About
      <4>2. RowFits(requests[at[k]], t) /\ requests'[k] = requests[at[k]]
        BY <1>1, <2>1
      <4> QED
        BY <1>3, <1>5, <4>1, <4>2 DEF RowFits, Reads
    <3>5. Quiet(t)
      BY <2>1, <3>2, QuietRow
    <3>6. RowRight(t)'
      <4>1. CASE Failed(r) /\ "failed" \in past'[t] 
        <5>1. portfolio' = portfolio /\ watchlist' = watchlist
          BY <4>1, <3>1 DEF Failed, AddFailed, WatchFailed, SetAlertFailed, Swallowed, pageVars, Reads
        <5>2. "bought" \in past[t] => "bought" \in past'[t]
          BY <1>5
        <5> QED
          BY <1>3, <3>5, <4>1, <5>1, <5>2 DEF RowRight, Quiet
      <4>2. CASE r.ok /\ Succeeded(r) /\ past' = past
        <5>1. /\ portfolio' = IF r.op = "portfolio" THEN r.result ELSE portfolio
              /\ watchlist' = IF r.op = "watchlist" THEN r.result ELSE watchlist
          BY <4>2, RowsAnswered
        <5>2. /\ r.op = "portfolio" => (t \in r.result <=> status[t] = "held")
              /\ r.op = "watchlist" => (t \in r.result <=> status[t] = "watched")
          BY <1>8, <2>1, <4>2 DEF RowFits
        <5>3. /\ Reading("portfolio") => r.op = "portfolio" \/ Reading("portfolio")'
              /\ Reading("watchlist") => r.op = "watchlist" \/ Reading("watchlist")'
          BY <1>1a DEF Reading
        <5> QED
          BY <1>3, <3>5, <4>2, <5>1, <5>2, <5>3 DEF RowRight, Quiet
      <4> QED
        BY <1>4, <1>8, <3>1, <4>1, <4>2
    <3> QED
      BY <3>3, <3>4, <3>6 DEF RowInv, Lonely
  <2> QED
    BY <2>2, <2>3
<1> QED
  BY <1>6, <1>7, <1>8 DEF RowsInv, RowInv

\* A write that the page has given up although it may still reach the server.
LEMMA GivenUpRows ==
  ASSUME TypeInv, RowsInv, NEW i \in DOMAIN requests, Throw(i), ~Gone(i)
  PROVE  RowsInv'
<1> DEFINE r == requests[i]
           s == requests'[i]
           at == [k \in DOMAIN requests |-> k]
<1>1. /\ DOMAIN requests' = DOMAIN requests
      /\ \A j \in DOMAIN requests \ {i} : requests'[j] = requests[j]
      /\ s.op = r.op /\ s.ticker = r.ticker /\ ~s.mine /\ s.ok = r.ok /\ s.state = r.state
  BY FailedFacts
<1>2. r \in Asked /\ Formed(r) /\ Sane(r)
  BY DEF TypeInv, RequestsTyped, RowsInv
<1>3. /\ Failed(r) /\ r.mine /\ r.op \in Writes /\ ~r.ok /\ status' = status
      /\ \A t \in Tickers : /\ past[t] \subseteq past'[t]
                            /\ t \in About(r) => "failed" \in past'[t]
  <2>1. /\ Mark(About(r), {"failed"}) /\ Failed(r) /\ r.mine /\ status' = status
        /\ r.op \in Writes /\ r.state = "sent"
    BY DEF Throw, serverVars
  <2>2. {"failed"} \subseteq Marks
    BY DEF Marks
  <2> QED
    BY <1>2, <2>1, <2>2, MarkFacts DEF TypeInv, Sane
<1>4. About(r) = {r.ticker} /\ About(s) = {r.ticker} /\ r.op \notin Reads
  BY <1>1, <1>3 DEF About, Reads, Writes
<1>5. (\A k \in DOMAIN requests : Sane(requests[k]))'
  BY <1>1, <1>2, <1>4 DEF RowsInv, Sane
<1>6. ASSUME NEW t \in Tickers, t # r.ticker
      PROVE  RowInv(t)'
  <2>1. (t \in portfolio' <=> t \in portfolio) /\ (t \in watchlist' <=> t \in watchlist)
    BY <1>3, <1>6, RowsAnswered
  <2>2. RowInv(t) /\ status'[t] = status[t] /\ past[t] \subseteq past'[t]
    BY <1>3 DEF RowsInv
  <2>3. \A k \in DOMAIN requests' : t \in About(requests'[k]) =>
          at[k] \in DOMAIN requests /\ requests'[k] = requests[at[k]]
    BY <1>1, <1>4, <1>6
  <2>4. \A k, l \in DOMAIN requests' :
          t \in About(requests'[k]) /\ t \in About(requests'[l]) /\ at[k] = at[l] => k = l
    BY <1>1
  <2>5. \A j \in DOMAIN requests : t \in About(requests[j]) =>
          \E k \in DOMAIN requests' : requests'[k] = requests[j]
    BY <1>1, <1>4, <1>6
  <2> HIDE DEF at
  <2> QED
    BY <2>1, <2>2, <2>3, <2>4, <2>5, RowFrame
<1>7. ASSUME NEW t \in Tickers, t = r.ticker, Clear(t)'
      PROVE  RowInv(t)'
  <2>1. /\ Lonely(t) /\ RowRight(t) /\ RowFits(r, t)
    <3>1. Clear(t)
      BY <1>3 , <1>7 DEF Clear
    <3> QED
      BY <1>4, <1>7, <3>1 DEF RowsInv, RowInv
  <2>2. \A j \in DOMAIN requests : t \in About(requests[j]) => j = i
    BY <1>7, <2>1 DEF Lonely
  <2>3. \A j \in DOMAIN requests : requests[j].ticker = t \/ requests[j].op \in Reads => j = i
    BY <2>2 DEF About
  <2>4. OpenMine("add", t) => r.op = "add"
    BY <2>3 DEF OpenMine
  <2>5. OpenMine("watch", t) => r.op = "watch"
    BY <2>3 DEF OpenMine
  <2>6. /\ r.op # "add" => portfolio' = portfolio
        /\ r.op # "watch" => watchlist' = watchlist
        /\ r.op = "add" => portfolio' = portfolio \ {t}
        /\ r.op = "watch" => watchlist' = watchlist \ {t}
    BY <1>3, <1>4, <1>7, RowsAnswered DEF Reads
  <2>7. "failed" \in past'[t] /\ ("bought" \in past[t] => "bought" \in past'[t])
    BY <1>3, <1>4, <1>7
  <2>8. RowRight(t)'
    BY <1>3, <2>1, <2>4, <2>5, <2>6, <2>7 DEF RowRight, RowFits
  <2>9. RowFits(requests[i], t)'
    BY <1>1, <1>3, <1>4, <2>1, <2>6, <2>7 DEF RowFits, Reads
  <2>10. \A k \in DOMAIN requests' : t \in About(requests'[k]) => k = i
    BY <1>1, <2>2
  <2>11. Lonely(t)'
    <3>1. \A q : q.ticker = t => t \in About(q)
      BY DEF About
    <3> QED
      BY <2>10, <3>1 DEF Lonely
  <2>12. \A k \in DOMAIN requests' : t \in About(requests'[k]) => RowFits(requests[k], t)'
    <3> SUFFICES ASSUME NEW k \in DOMAIN requests', t \in About(requests'[k])
                 PROVE  RowFits(requests[k], t)'
      OBVIOUS
    <3>1. k = i
      BY <2>10
    <3> QED
      BY <2>9, <3>1
  <2> QED
    BY <2>8, <2>11, <2>12 DEF RowInv
<1> QED
  BY <1>5, <1>6, <1>7 DEF RowsInv, RowInv

\* A page that is loaded anew waits for its lists; of the tickers that are clear, nothing of
\* the last page is on its way any more.
LEMMA ReloadRows ==
  ASSUME TypeInv, RowsInv, Reload
  PROVE  RowsInv'
<1> DEFINE m == Cardinality(Unseen)
<1>1. /\ m \in Nat /\ DOMAIN requests' = 1..(m + 3)
      /\ \A k \in 1..m : \E i \in Unseen :
           LET r == requests[i] s == requests'[k]
           IN /\ s.op = r.op /\ s.ticker = r.ticker /\ s.alert = r.alert /\ ~s.mine
              /\ s.state = r.state /\ s.ok = r.ok /\ s.result = r.result
      /\ requests'[m + 1] = Request("portfolio", None, None)
      /\ requests'[m + 2] = Request("watchlist", None, None)
      /\ requests'[m + 3] = Request("alerts", None, None)
      /\ past' = [t \in Tickers |-> IF \E i \in Unseen : requests[i].ticker = t
                                    THEN {"overlap"} ELSE {}]
  BY ReloadFacts
<1> HIDE DEF m
<1>2. \A k \in 1..(m + 3) : k \in 1..m \/ k = m + 1 \/ k = m + 2 \/ k = m + 3
  BY <1>1
<1>3. \A k \in DOMAIN requests' :
        \/ \E i \in Unseen : /\ requests'[k].op = requests[i].op
                             /\ requests'[k].ticker = requests[i].ticker
                             /\ requests'[k].ok = requests[i].ok
                             /\ requests'[k].state = requests[i].state
        \/ requests'[k].op \in Reads /\ requests'[k].ticker = None
           /\ requests'[k].mine /\ ~requests'[k].ok
  BY <1>1, <1>2 DEF Request, Reads
<1>4. (\A k \in DOMAIN requests : Sane(requests[k]))'
  <2>1. \A i \in Unseen : requests[i].op \in Writes /\ Sane(requests[i])
    BY DEF Unseen, RowsInv
  <2> QED
    BY <1>3, <2>1 DEF Sane, Reads, Writes
<1>5. ASSUME NEW t \in Tickers, Clear(t)'
      PROVE  RowInv(t)'
  <2>1. \A i \in Unseen : requests[i].ticker # t
    BY <1>1, <1>5 DEF Clear
  <2>2. t # None
    BY DashboardAssumption
  <2>3. \A k \in DOMAIN requests' : requests'[k].ticker # t
    BY <1>3, <2>1, <2>2
  <2>4. \A k \in DOMAIN requests' : t \in About(requests'[k]) =>
          requests'[k].op \in Reads /\ requests'[k].mine /\ ~requests'[k].ok
    <3> SUFFICES ASSUME NEW k \in DOMAIN requests', t \in About(requests'[k])
                 PROVE  requests'[k].op \in Reads /\ requests'[k].mine /\ ~requests'[k].ok
      OBVIOUS
    <3>1. requests'[k].op \in Reads
      BY <2>3 DEF About
    <3>2. \A i \in Unseen : requests[i].op \notin Reads
      BY DEF Unseen, Reads, Writes
    <3> QED
      BY <1>3, <3>1, <3>2
  <2>5. \A k \in DOMAIN requests' : t \in About(requests'[k]) => RowFits(requests[k], t)'
    BY <2>4 DEF RowFits, Reads
  <2>6. (Reading("portfolio") /\ Reading("watchlist"))'
    <3>1. m + 1 \in DOMAIN requests' /\ m + 2 \in DOMAIN requests'
      BY <1>1
    <3> QED
      BY <1>1, <3>1 DEF Reading, Request
  <2>7. portfolio' = {} /\ watchlist' = {}
    BY DEF Reload
  <2> QED
    BY <2>3, <2>5, <2>6, <2>7 DEF RowInv, RowRight, Lonely
<1> QED
  BY <1>4, <1>5 DEF RowsInv, RowInv

\* In every reachable state, for every ticker whose requests did not overlap, each request
\* in flight fits the row it is about, and a row that no request is about is right.
LEMMA RowsInvHolds == Spec => [](TypeInv /\ RowsInv)
<1>1. Init => RowsInv
  <2> SUFFICES ASSUME Init PROVE RowsInv
    OBVIOUS
  <2>1. /\ DOMAIN requests = 1..3
        /\ requests[1] = Request("portfolio", None, None)
        /\ requests[2] = Request("watchlist", None, None)
        /\ requests[3] = Request("alerts", None, None)
        /\ portfolio = {} /\ watchlist = {}
    BY DEF Init, Load
  <2>2. \A k \in DOMAIN requests : /\ requests[k].op \in Reads /\ requests[k].ticker = None
                                   /\ requests[k].mine /\ ~requests[k].ok
    BY <2>1 DEF Request, Reads
  <2>3. Reading("portfolio") /\ Reading("watchlist")
    BY <2>1 DEF Reading, Request
  <2>4. \A k \in DOMAIN requests : Sane(requests[k])
    BY <2>2 DEF Sane
  <2>5. ASSUME NEW t \in Tickers PROVE RowInv(t)
    <3>1. t # None
      BY DashboardAssumption
    <3>2. \A k \in DOMAIN requests : requests[k].ticker # t /\ RowFits(requests[k], t)
      BY <2>2, <3>1 DEF RowFits, Reads
    <3> QED
      BY <2>1, <2>3, <3>2 DEF RowInv, RowRight, Lonely
  <2> QED
    BY <2>4, <2>5 DEF RowsInv
<1>2. TypeInv /\ RowsInv /\ [Next]_vars => RowsInv'
  <2> SUFFICES ASSUME TypeInv, RowsInv, [Next]_vars PROVE RowsInv'
    OBVIOUS
  <2>1. CASE \/ \E id \in toasts : Dismiss(id)
             \/ OnPriceAlert \/ LoseFrame
             \/ \E a \in Alerts : Fire(a)
             \/ UNCHANGED vars
    <3>1. /\ UNCHANGED <<status, portfolio, watchlist, requests>>
          /\ \A t \in Tickers : past[t] \subseteq past'[t]
      <4>1. CASE OnPriceAlert \/ LoseFrame
        <5>1. \E S : Mark(S, {"missed"})
          BY <4>1 DEF OnPriceAlert, LoseFrame
        <5>2. {"missed"} \subseteq Marks
          BY DEF Marks
        <5>3. \A t \in Tickers : past[t] \subseteq past'[t]
          BY <5>1, <5>2, MarkFacts DEF TypeInv
        <5> QED
          BY <4>1, <5>3 DEF OnPriceAlert, LoseFrame, serverVars, pageVars
      <4>2. CASE UNCHANGED <<status, portfolio, watchlist, requests, past>>
        BY <4>2
      <4> QED
        BY <2>1, <4>1, <4>2 DEF Dismiss, Fire, vars, serverVars, pageVars
    <3>2. ASSUME NEW t \in Tickers PROVE RowInv(t)'
      <4>1. RowInv(t) /\ past[t] \subseteq past'[t]
        BY <3>1 DEF RowsInv
      <4>2. /\ Lonely(t)' <=> Lonely(t)
            /\ \A op : (Open(op, t)' <=> Open(op, t)) /\ (OpenMine(op, t)' <=> OpenMine(op, t))
            /\ \A op : Reading(op)' <=> Reading(op)
        BY <3>1 DEF Lonely, Open, OpenMine, Reading
      <4>3. \A k \in DOMAIN requests' : RowFits(requests[k], t) => RowFits(requests[k], t)'
        BY <3>1, <4>1 DEF RowFits
      <4>4. RowRight(t) => RowRight(t)'
        BY <3>1, <4>1, <4>2 DEF RowRight
      <4> QED
        BY <3>1, <4>1, <4>2, <4>3, <4>4 DEF RowInv, Clear
    <3> QED
      BY <3>1, <3>2 DEF RowsInv
  <2>2. CASE Reload
    BY <2>2, ReloadRows
  <2>3. ASSUME NEW i \in DOMAIN requests, Serve(i) \/ Answer(i) \/ Throw(i) \/ Forgotten(i)
        PROVE  RowsInv'
    <3>1. CASE Gone(i) /\ ~Serve(i)
      BY <2>3, <3>1, LeaveRows
    <3>2. CASE ~Gone(i) /\ ~Serve(i)
      BY <2>3, <3>2, GivenUpRows DEF Answer, Forgotten
    <3> QED
      BY <2>3, <3>1, <3>2, ServeRows
  <2> QED
    BY <2>1, <2>2, <2>3, UserRows DEF Next
<1>3. Init => TypeInv
  BY InitTyped
<1>4. TypeInv /\ [Next]_vars => TypeInv'
  BY NextTyped
<1> QED
  BY <1>1, <1>2, <1>3, <1>4, PTL DEF Spec

\* Once nothing is in flight, a row of the page is one that the server feeds, whatever
\* failed, was lost or was answered in another order, and where nothing failed the page
\* shows exactly the server's lists: RowsAgree, for any number of tickers and requests.
THEOREM RowsAgreeHolds == Spec => []RowsAgree
<1>1. RowsInv => RowsAgree
  <2> SUFFICES ASSUME RowsInv, AtRest, NEW t \in Tickers, "overlap" \notin past[t]
               PROVE  /\ t \in portfolio => status[t] = "held"
                      /\ t \in watchlist /\ "bought" \notin past[t] => status[t] = "watched"
                      /\ "failed" \notin past[t] => /\ status[t] = "held" => t \in portfolio
                                                    /\ status[t] = "watched" => t \in watchlist
    BY DEF RowsAgree
  <2>1. DOMAIN requests = {}
    BY DEF AtRest
  <2>2. RowRight(t)
    BY DEF RowsInv, RowInv, Clear
  <2> QED
    BY <2>1, <2>2 DEF RowRight, Open, OpenMine, Reading
<1> QED
  BY <1>1, RowsInvHolds, PTL

-----------------------------------------------------------------------------
(* The alerts.                                                             *)

\* What a step may do to the owners: an alert loses its owner, or is given one that nothing
\* refers to.
LEMMA OwnerSteps ==
  ASSUME TypeInv, OwnersRight, NEW i \in DOMAIN requests, Serve(i)
  PROVE  /\ \A a \in Alerts : \/ owner'[a] \in {owner[a], None}
                              \/ /\ Fresh(a) /\ requests[i].op = "setAlert" /\ requests'[i].ok
                                 /\ requests'[i].result = {a}
                                 /\ owner'[a] = requests[i].ticker
                                 /\ \A b \in Alerts : b # a => owner'[b] = owner[b]
         /\ \A a \in fired : owner'[a] # None => a \in fired'
         /\ fired' \subseteq fired
         /\ Lists'
<1> DEFINE r == requests[i]
           s == requests'[i]
<1>1. r \in Asked /\ Formed(r)
  BY DEF TypeInv, RequestsTyped
<1>2. r.op \in Writes => r.ticker \in Tickers /\ r.ticker # None
  BY <1>1, DashboardAssumption DEF Asked, Formed, Reads, Writes
<1> USE DEF TypeInv, ServerTyped, OwnersRight, Lists
<1>3. CASE UNCHANGED serverVars
  BY <1>3 DEF serverVars
<1>4. CASE ServesAdd(i) \/ ServesWatch(i)
  BY <1>2, <1>4 DEF ServesAdd, ServesWatch, Writes
<1>5. CASE ServesRemoval(i)
  BY <1>2, <1>5 DEF ServesRemoval, Writes
<1>6. CASE ServesDeleteAlert(i)
  <2>1. r.alert \in Alerts /\ status' = status
        /\ owner' = [owner EXCEPT ![r.alert] = None] /\ fired' = fired \ {r.alert}
    BY <1>1, <1>6 DEF ServesDeleteAlert, Formed
  <2> QED
    BY <2>1
<1>7. ASSUME NEW a \in Alerts, s.ok, s.result = {a}, ServesSetAlert(i), Fresh(a),
             owner' = [owner EXCEPT ![a] = r.ticker]
      PROVE  /\ \A b \in Alerts : \/ owner'[b] \in {owner[b], None}
                                  \/ /\ Fresh(b) /\ requests[i].op = "setAlert" /\ requests'[i].ok
                                     /\ requests'[i].result = {b}
                                     /\ owner'[b] = requests[i].ticker
                                     /\ \A c \in Alerts : c # b => owner'[c] = owner[c]
             /\ \A b \in fired : owner'[b] # None => b \in fired'
             /\ fired' \subseteq fired
             /\ Lists'
  <2>1. /\ r.op = "setAlert" /\ status[r.ticker] # "none" /\ UNCHANGED <<status, fired>>
        /\ r.ticker \in Tickers
    BY <1>2, <1>7 DEF ServesSetAlert, Writes
  <2>2. owner'[a] = r.ticker /\ \A b \in Alerts : b # a => owner'[b] = owner[b]
    BY <1>7
  <2>3. Lists'
    BY <2>1, <2>2
  <2> QED
    BY <1>7, <2>1, <2>2, <2>3
<1>8. \/ UNCHANGED serverVars
      \/ ServesAdd(i) \/ ServesWatch(i) \/ ServesRemoval(i) \/ ServesDeleteAlert(i)
      \/ \E a \in Alerts : /\ s.ok /\ s.result = {a} /\ ServesSetAlert(i) /\ Fresh(a)
                           /\ owner' = [owner EXCEPT ![a] = r.ticker]
  <2> HIDE DEF TypeInv, ServerTyped, OwnersRight, Lists
  <2> QED
    BY ServeFacts DEF Refuses
<1> QED
  BY <1>3, <1>4, <1>5, <1>6, <1>7, <1>8

\* What refers to an alert goes on referring to its owner when the server takes a step.
LEMMA ReferredStays ==
  ASSUME TypeInv, OwnersRight, NEW i \in DOMAIN requests, Serve(i)
  PROVE  /\ FramesOwned' /\ EntriesOwned'
         /\ \A j \in DOMAIN requests : Refers(requests[j])'
<1>1. /\ \A a \in Alerts : Fresh(a) \/ owner'[a] \in {owner[a], None}
      /\ \A a \in fired : owner'[a] # None => a \in fired'
  BY OwnerSteps
<1>2. UNCHANGED <<alerts, frames>>
  BY DEF Serve, pageVars
<1>3. FramesOwned'
  <2> SUFFICES ASSUME NEW k \in DOMAIN frames, owner'[frames[k]] # None
               PROVE  frames[k] \in fired'
    BY <1>2 DEF FramesOwned
  <2>1. frames[k] \in Alerts
    BY DEF TypeInv, FramesTyped
  <2>2. ~Fresh(frames[k])
    BY DEF Fresh
  <2> QED
    BY <1>1, <2>1, <2>2 DEF OwnersRight, FramesOwned
<1>4. EntriesOwned'
  <2> SUFFICES ASSUME NEW k \in DOMAIN alerts
               PROVE  owner'[alerts[k].id] \in {alerts[k].ticker, None}
    BY <1>2 DEF EntriesOwned, OwnerOf
  <2>1. alerts[k] \in Entry
    BY DEF TypeInv, AlertsTyped
  <2>2. ~Fresh(alerts[k].id) /\ alerts[k].id \in Alerts
    BY <2>1 DEF Fresh, Entry
  <2> QED
    BY <1>1, <2>2 DEF OwnersRight, EntriesOwned, OwnerOf
<1>5. ASSUME NEW j \in DOMAIN requests, requests'[j] = requests[j]
      PROVE  Refers(requests[j])'
  <2> DEFINE r == requests[j]
  <2>1. r \in Asked /\ Formed(r) /\ Refers(r)
    BY DEF TypeInv, RequestsTyped, OwnersRight
  <2>2. r.op = "deleteAlert" => owner'[r.alert] \in {owner[r.alert], None}
    <3> SUFFICES ASSUME r.op = "deleteAlert" PROVE owner'[r.alert] \in {owner[r.alert], None}
      OBVIOUS
    <3>1. r.alert \in Alerts /\ ~Fresh(r.alert)
      BY <2>1 DEF Formed, Fresh
    <3> QED
      BY <1>1, <3>1
  <2>3. r.op = "setAlert" => \A a \in r.result : owner'[a] \in {owner[a], None}
    <3> SUFFICES ASSUME r.op = "setAlert", NEW a \in r.result
                 PROVE  owner'[a] \in {owner[a], None}
      OBVIOUS
    <3>1. a \in Alerts /\ r.result = {a}
      BY <2>1 DEF Formed, Refers
    <3>2. ~Fresh(a)
      BY <3>1 DEF Fresh
    <3> QED
      BY <1>1, <3>1, <3>2
  <2>4. r.op = "alerts" => \A x \in r.result : owner'[x.id] \in {owner[x.id], None}
    <3> SUFFICES ASSUME r.op = "alerts", NEW x \in r.result
                 PROVE  owner'[x.id] \in {owner[x.id], None}
      OBVIOUS
    <3>1. x.id \in Alerts /\ ~Fresh(x.id)
      BY <2>1 DEF Formed, Entry, Fresh
    <3> QED
      BY <1>1, <3>1
  <2> HIDE DEF r
  <2>5. r.op = "deleteAlert" => owner'[r.alert] \in {r.ticker, None}
    BY <2>1, <2>2 DEF Refers, OwnerOf
  <2>6. r.op = "setAlert" => \A a \in r.result : owner'[a] \in {r.ticker, None} /\ r.result = {a}
    BY <2>1, <2>3 DEF Refers, OwnerOf
  <2>7. r.op = "alerts" => /\ \A x \in r.result : owner'[x.id] \in {x.ticker, None}
                           /\ \A x, y \in r.result : x.id = y.id => x = y
    <3> SUFFICES ASSUME r.op = "alerts"
                 PROVE  /\ \A x \in r.result : owner'[x.id] \in {x.ticker, None}
                        /\ \A x, y \in r.result : x.id = y.id => x = y
      OBVIOUS
    <3>1. /\ \A x \in r.result : owner[x.id] \in {x.ticker, None}
          /\ \A x, y \in r.result : x.id = y.id => x = y
      BY <2>1 DEF Refers, OwnerOf
    <3> QED
      BY <2>4, <3>1
  <2>8. requests'[j] = r
    BY <1>5 DEF r
  <2> QED
    BY <2>5, <2>6, <2>7, <2>8 DEF Refers, OwnerOf
<1>6. Refers(requests[i])'
  <2> DEFINE r == requests[i]
             s == requests'[i]
  <2>1. /\ s.op = r.op /\ s.ticker = r.ticker /\ s.alert = r.alert
        /\ \/ s.result = r.result /\ UNCHANGED serverVars
           \/ r.op = "alerts" /\ s.result = Listed /\ UNCHANGED serverVars
           \/ r.op \in {"portfolio", "watchlist", "add", "watch", "remove", "unwatch"}
           \/ r.op = "deleteAlert" /\ owner' = [owner EXCEPT ![r.alert] = None]
           \/ \E a \in Alerts : /\ r.op = "setAlert" /\ s.result = {a}
                                /\ owner' = [owner EXCEPT ![a] = r.ticker]
    BY ServeFacts DEF Refuses, ServesAdd, ServesWatch, ServesRemoval, ServesDeleteAlert,
                      ServesSetAlert
  <2>2. Refers(r) /\ Formed(r) /\ r \in Asked
    BY DEF OwnersRight, TypeInv, RequestsTyped
  <2>3. CASE s.result = r.result /\ UNCHANGED serverVars
    BY <2>1, <2>2, <2>3 DEF Refers, OwnerOf, serverVars
  <2>4. CASE r.op = "alerts" /\ s.result = Listed /\ UNCHANGED serverVars
    <3>1. \A x \in Listed : owner[x.id] = x.ticker
      BY DEF Listed, EntryOf
    <3>2. \A x, y \in Listed : x.id = y.id => x = y
      BY DEF Listed, EntryOf
    <3> QED
      BY <2>1, <2>4, <3>1, <3>2 DEF Refers, OwnerOf, serverVars
  <2>5. CASE r.op \in {"portfolio", "watchlist", "add", "watch", "remove", "unwatch"}
    BY <2>1, <2>5 DEF Refers
  <2>6. CASE r.op = "deleteAlert" /\ owner' = [owner EXCEPT ![r.alert] = None]
    <3>1. owner'[r.alert] = None
      BY <2>2, <2>6 DEF Formed, TypeInv, ServerTyped
    <3> QED
      BY <2>1, <2>6, <3>1 DEF Refers, OwnerOf
  <2>7. CASE \E a \in Alerts : /\ r.op = "setAlert" /\ s.result = {a}
                               /\ owner' = [owner EXCEPT ![a] = r.ticker]
    <3>1. PICK a \in Alerts : s.result = {a} /\ owner' = [owner EXCEPT ![a] = r.ticker]
      BY <2>7
    <3>2. owner'[a] = r.ticker
      BY <3>1 DEF TypeInv, ServerTyped
    <3> QED
      BY <2>1, <2>7, <3>1, <3>2 DEF Refers, OwnerOf
  <2> QED
    BY <2>1, <2>3, <2>4, <2>5, <2>6, <2>7
<1>7. \A j \in DOMAIN requests \ {i} : requests'[j] = requests[j]
  BY ServeFacts
<1> QED
  BY <1>3, <1>4, <1>5, <1>6, <1>7

\* Requests that say nothing of alerts, and what a step leaves alone of a ticker's alerts:
\* their owner, whether they fired, their entries (en says where each one was) and the
\* requests about them.
Plain == {"portfolio", "watchlist", "add", "watch"}
OwnersKept(t) == \A a \in Alerts : owner'[a] = t <=> owner[a] = t
ComingNext(a) == \E k \in DOMAIN frames' : frames'[k] = a
FiredKept(t) == \A a \in Alerts : owner[a] = t => /\ a \in fired => a \in fired'
                                                  /\ Coming(a) => ComingNext(a)
                                                  /\ a \in fired' => a \in fired \/ ComingNext(a)
EntriesKept(t, en) ==
  /\ \A k \in DOMAIN alerts' : alerts'[k].ticker = t =>
       en[k] \in DOMAIN alerts /\ alerts'[k] = alerts[en[k]]
  /\ \A k, l \in DOMAIN alerts' :
       alerts'[k].ticker = t /\ alerts'[l].ticker = t /\ en[k] = en[l] => k = l
  /\ \A k \in DOMAIN alerts : alerts[k].ticker = t =>
       \E l \in DOMAIN alerts' : alerts'[l] = alerts[k]
Alike(r, q) == /\ q.op = r.op /\ q.ticker = r.ticker /\ q.alert = r.alert
               /\ q.ok = r.ok /\ q.result = r.result
AsksKept(t) ==
  /\ \A k \in DOMAIN requests' : t \in About(requests'[k]) =>
       requests'[k].op \in Plain \/ \E j \in DOMAIN requests : Alike(requests[j], requests'[k])
  /\ \A j \in DOMAIN requests : t \in About(requests[j]) =>
       requests[j].op \in Plain \/ \E k \in DOMAIN requests' : Alike(requests[j], requests'[k])
ShowsNext(x, t) == x.ticker = t => /\ owner'[x.id] = t
                                   /\ x.triggered => x.id \in fired'
                                   /\ x.id \in fired' => x.triggered \/ ComingNext(x.id)

\* A step that leaves all this alone leaves the ticker's alerts as right as they were.
LEMMA AlertFrame ==
  ASSUME TypeInv, NEW t \in Tickers, AlertInv(t), past[t] \subseteq past'[t],
         OwnersKept(t), FiredKept(t), NEW en, EntriesKept(t, en), AsksKept(t)
  PROVE  AlertInv(t)'
<1> SUFFICES ASSUME Calm(t)'
             PROVE  OnceEach(t)' /\ AllShow(t)' /\ AllFit(t)' /\ Accounted(t)'
  BY DEF AlertInv
<1>1. OnceEach(t) /\ AllShow(t) /\ AllFit(t) /\ Accounted(t)
  BY DEF AlertInv, Calm
<1>2. \A a : Has(a, t)' <=> Has(a, t)
  <2> SUFFICES ASSUME NEW a PROVE Has(a, t)' <=> Has(a, t)
    OBVIOUS
  <2>1. Has(a, t)' => Has(a, t)
    BY DEF Has, EntriesKept
  <2>2. Has(a, t) => Has(a, t)'
    BY DEF Has, EntriesKept
  <2> QED
    BY <2>1, <2>2
<1>3. \A x : x.id \in Alerts /\ Shows(x, t) => ShowsNext(x, t)
  <2> SUFFICES ASSUME NEW x, x.id \in Alerts, Shows(x, t), x.ticker = t
               PROVE  /\ owner'[x.id] = t
                      /\ x.triggered => x.id \in fired'
                      /\ x.id \in fired' => x.triggered \/ ComingNext(x.id)
    BY DEF ShowsNext
  <2>1. /\ owner[x.id] = t /\ (x.triggered => x.id \in fired)
        /\ x.id \in fired => x.triggered \/ Coming(x.id)
    BY DEF Shows
  <2>2. /\ x.id \in fired => x.id \in fired'
        /\ Coming(x.id) => ComingNext(x.id)
        /\ x.id \in fired' => x.id \in fired \/ ComingNext(x.id)
    BY <2>1 DEF FiredKept
  <2>3. owner'[x.id] = t
    BY <2>1 DEF OwnersKept
  <2> QED
    BY <2>1, <2>2, <2>3
<1>4. OnceEach(t)'
  <2> SUFFICES ASSUME NEW k \in DOMAIN alerts', NEW l \in DOMAIN alerts',
                      alerts'[k].ticker = t, alerts'[l].ticker = t, alerts'[k].id = alerts'[l].id
               PROVE  k = l
    BY DEF OnceEach
  <2>1. /\ en[k] \in DOMAIN alerts /\ alerts'[k] = alerts[en[k]]
        /\ en[l] \in DOMAIN alerts /\ alerts'[l] = alerts[en[l]]
    BY DEF EntriesKept
  <2>2. en[k] = en[l]
    BY <1>1, <2>1 DEF OnceEach
  <2> QED
    BY <2>2 DEF EntriesKept
<1>5. AllShow(t)'
  <2> SUFFICES ASSUME NEW k \in DOMAIN alerts', alerts'[k].ticker = t
               PROVE  ShowsNext(alerts'[k], t)
    BY DEF AllShow, Shows, ShowsNext, ComingNext, Coming
  <2>1. en[k] \in DOMAIN alerts /\ alerts'[k] = alerts[en[k]]
    BY DEF EntriesKept
  <2>2. alerts[en[k]] \in Entry
    BY <2>1 DEF TypeInv, AlertsTyped
  <2>3. alerts[en[k]].id \in Alerts /\ Shows(alerts[en[k]], t)
    BY <1>1, <2>1, <2>2 DEF Entry, AllShow
  <2> QED
    BY <1>3, <2>1, <2>3
<1>6. AllFit(t)'
  <2> SUFFICES ASSUME NEW k \in DOMAIN requests', t \in About(requests'[k])
               PROVE  AlertFits(requests[k], t)'
    BY DEF AllFit
  <2>1. CASE requests'[k].op \in Plain
    BY <2>1 DEF AlertFits, Plain
  <2>2. ASSUME NEW j \in DOMAIN requests, Alike(requests[j], requests'[k])
        PROVE  AlertFits(requests[k], t)'
    <3> DEFINE r == requests[j]
    <3>1. t \in About(r) /\ Formed(r)
      BY <2>2 DEF Alike, About, TypeInv, RequestsTyped
    <3>a. AlertFits(r, t) /\ Alike(r, requests'[k])
      BY <1>1, <2>2, <3>1 DEF AllFit
    <3> HIDE DEF r
    <3>2. r.op # "unwatch" /\ (r.op \in {"alerts", "remove"} => \A a \in Alerts : ~Has(a, t)')
          /\ (r.op = "deleteAlert" => ~Has(r.alert, t))
      BY <1>2, <3>a DEF AlertFits
    <3>3. r.op = "alerts" /\ r.ok => \A x \in r.result : ShowsNext(x, t)
      <4>1. r.op = "alerts" => \A x \in r.result : x.id \in Alerts
        BY <3>1 DEF Formed, Entry
      <4> QED
        BY <1>3, <3>a, <4>1 DEF AlertFits
    <3>4. r.op = "setAlert" => \A a \in r.result : /\ owner'[a] = t /\ ~Has(a, t)'
                                                   /\ a \in fired' => ComingNext(a)
      <4> SUFFICES ASSUME r.op = "setAlert", NEW a \in r.result
                   PROVE  owner'[a] = t /\ ~Has(a, t)' /\ (a \in fired' => ComingNext(a))
        OBVIOUS
      <4>1. a \in Alerts /\ owner[a] = t /\ ~Has(a, t) /\ (a \in fired => Coming(a))
        BY <3>1, <3>a DEF Formed, AlertFits
      <4>2. (Coming(a) => ComingNext(a)) /\ (a \in fired' => a \in fired \/ ComingNext(a))
        BY <4>1 DEF FiredKept
      <4> QED
        BY <1>2, <4>1, <4>2 DEF OwnersKept
    <3> QED
      BY <1>2, <3>a, <3>2, <3>3, <3>4 DEF Alike, AlertFits, Has, Shows, ShowsNext, ComingNext, Coming
  <2> QED
    BY <2>1, <2>2 DEF AsksKept
<1>7. Accounted(t)'
  <2> SUFFICES ASSUME NEW a \in Alerts, owner'[a] = t
               PROVE  (Has(a, t) \/ ReadHas(a, t) \/ Made(a, t) \/ OpenDelete(a, t)
                         \/ Open("remove", t))'
    BY DEF Accounted
  <2>1. Has(a, t) \/ ReadHas(a, t) \/ Made(a, t) \/ OpenDelete(a, t) \/ Open("remove", t)
    BY <1>1 DEF Accounted, OwnersKept
  <2>2. \A j \in DOMAIN requests : t \in About(requests[j]) /\ requests[j].op \notin Plain =>
          \E k \in DOMAIN requests' : Alike(requests[j], requests'[k])
    BY DEF AsksKept
  <2>3. \A r : r.op = "alerts" \/ r.ticker = t => t \in About(r)
    BY DEF About, Reads
  <2>4. ReadHas(a, t) => ReadHas(a, t)'
    BY <2>2, <2>3 DEF ReadHas, Plain, Alike
  <2>5. Made(a, t) => Made(a, t)'
    BY <2>2, <2>3 DEF Made, Plain, Alike
  <2>6. OpenDelete(a, t) => OpenDelete(a, t)'
    BY <2>2, <2>3 DEF OpenDelete, Plain, Alike
  <2>7. Open("remove", t) => Open("remove", t)'
    BY <2>2, <2>3 DEF Open, Plain, Alike
  <2> QED
    BY <1>2, <2>1, <2>4, <2>5, <2>6, <2>7
<1> QED
  BY <1>4, <1>5, <1>6, <1>7

\* What a handler of the user's owes the alerts of the ticker it is about, when no request
\* is about that ticker yet.
HasAll(u) == \A b \in Alerts : owner[b] = u => Has(b, u)
SendShows(op, u, a, also) ==
  also \subseteq {"bought"} /\ OnceEach(u) /\ AllShow(u) /\ HasAll(u) =>
    /\ OnceEach(u)' /\ AllShow(u)' /\ AlertFits(Request(op, u, a), u)'
    /\ \A b \in Alerts : owner[b] = u => Has(b, u)' \/ op = "remove" \/ (op = "deleteAlert" /\ b = a)

\* A new request leaves the alerts of the other tickers alone, and those of its own
\* accounted for.
LEMMA SendAlerts ==
  ASSUME TypeInv, AlertsInv, NEW op \in Writes, NEW u \in Tickers, NEW a \in Alerts \cup {None},
         op = "deleteAlert" => a \in Alerts /\ OwnerOf(a, u), NEW also \in SUBSET Marks,
         Send(op, u, a, also), EntriesOwned', NEW en,
         \A t \in Tickers \ {u} : Calm(t) => EntriesKept(t, en), SendShows(op, u, a, also)
  PROVE  AlertsInv'
<1> DEFINE n == Len(requests)
           q == Request(op, u, a)
<1>1. /\ n \in Nat /\ DOMAIN requests = 1..n /\ DOMAIN requests' = 1..(n + 1)
      /\ \A i \in 1..n : requests'[i] = requests[i]
      /\ requests'[n + 1] = q
  BY SendFacts
<1>2. /\ q.op = op /\ q.ticker = u /\ q.alert = a /\ q.mine /\ ~q.ok /\ q.result = {}
      /\ op \notin Reads /\ u # None
  BY DashboardAssumption DEF Request, Reads, Writes
<1>3. About(q) = {u}
  BY <1>2 DEF About
<1> HIDE DEF q, n
<1>4. /\ UNCHANGED serverVars /\ frames' = frames
      /\ \A t \in Tickers : past[t] \subseteq past'[t]
      /\ past'[u] = past[u] \cup also \cup IF u \in Busy THEN {"overlap"} ELSE {}
  <2>1. /\ Mark({u}, also \cup IF u \in Busy THEN {"overlap"} ELSE {})
        /\ UNCHANGED serverVars /\ frames' = frames
    BY DEF Send
  <2>2. also \cup (IF u \in Busy THEN {"overlap"} ELSE {}) \subseteq Marks
    BY DEF Marks
  <2> QED
    BY <2>1, <2>2, MarkFacts DEF TypeInv
<1>5. OwnersRight'
  <2>1. OwnersRight
    BY DEF AlertsInv
  <2>2. Lists' /\ FramesOwned'
    BY <1>4, <2>1 DEF OwnersRight, Lists, FramesOwned, serverVars
  <2>3. \A i \in 1..(n + 1) : i \in 1..n \/ i = n + 1
    BY <1>1
  <2>4. OneRead'
    BY <1>1, <1>2, <2>1, <2>3 DEF OwnersRight, OneRead, Reads
  <2>5. ASSUME NEW k \in DOMAIN requests' PROVE Refers(requests[k])'
    <3>1. CASE k \in 1..n
      BY <1>1, <1>4, <2>1, <3>1 DEF OwnersRight, Refers, OwnerOf, serverVars
    <3>2. CASE k = n + 1
      BY <1>1, <1>2, <1>4, <3>2 DEF Refers, OwnerOf, serverVars, Reads
    <3> QED
      BY <1>1, <2>3, <3>1, <3>2
  <2> QED
    BY <2>1, <2>2, <2>4, <2>5 DEF OwnersRight
<1>6. ASSUME NEW t \in Tickers \ {u} PROVE AlertInv(t)'
  <2>1. AlertInv(t) /\ past[t] \subseteq past'[t]
    BY <1>4 DEF AlertsInv
  <2>2. CASE ~Calm(t)
    BY <2>1, <2>2 DEF AlertInv, Calm
  <2>3. CASE Calm(t)
    <3>1. OwnersKept(t) /\ FiredKept(t)
      BY <1>4 DEF OwnersKept, FiredKept, ComingNext, Coming, serverVars
    <3>2. AsksKept(t)
      BY <1>1, <1>3 DEF AsksKept, Alike
    <3>3. EntriesKept(t, en)
      BY <2>3
    <3> QED
      BY <2>1, <3>1, <3>2, <3>3, AlertFrame
  <2> QED
    BY <2>2, <2>3
<1>7. AlertInv(u)'
  <2> SUFFICES ASSUME Calm(u)' PROVE (OnceEach(u) /\ AllShow(u) /\ AllFit(u) /\ Accounted(u))'
    BY DEF AlertInv
  <2>1. u \notin Busy /\ also \subseteq {"bought"} /\ Calm(u)
    BY <1>4 DEF Calm
  <2>2. \A j \in DOMAIN requests : u \notin About(requests[j])
    BY <2>1 DEF Busy
  <2>3. \A j \in DOMAIN requests : requests[j].ticker # u /\ requests[j].op \notin Reads
    BY <2>2 DEF About
  <2>4. OnceEach(u) /\ AllShow(u) /\ Accounted(u)
    BY <2>1 DEF AlertsInv, AlertInv
  <2>5. HasAll(u)
    BY <2>3, <2>4 DEF HasAll, Accounted, ReadHas, Made, OpenDelete, Open, Reads
  <2>6. /\ OnceEach(u)' /\ AllShow(u)' /\ AlertFits(Request(op, u, a), u)'
        /\ \A b \in Alerts : owner[b] = u => Has(b, u)' \/ op = "remove" \/ (op = "deleteAlert" /\ b = a)
    BY <2>1, <2>4, <2>5 DEF SendShows
  <2>7. \A k \in DOMAIN requests' : u \in About(requests'[k]) => k = n + 1
    BY <1>1, <2>2
  <2>8. AllFit(u)'
    BY <1>1, <2>6, <2>7 DEF q, AllFit, AlertFits
  <2>9. n + 1 \in DOMAIN requests'
    BY <1>1
  <2>10. Accounted(u)'
    <3> SUFFICES ASSUME NEW b \in Alerts, owner[b] = u
                 PROVE  (Has(b, u) \/ OpenDelete(b, u) \/ Open("remove", u))'
      BY <1>4 DEF Accounted, serverVars
    <3>1. op = "remove" => Open("remove", u)'
      BY <1>1, <1>2, <2>9 DEF Open
    <3>2. op = "deleteAlert" => OpenDelete(a, u)'
      BY <1>1, <1>2, <2>9 DEF OpenDelete
    <3> QED
      BY <2>6, <3>1, <3>2
  <2> QED
    BY <2>6, <2>8, <2>10
<1> QED
  BY <1>5, <1>6, <1>7 DEF AlertsInv

\* A filter keeps the order and the wholeness of the entries it leaves.
LEMMA KeptEntries ==
  ASSUME AlertsTyped, EntriesOwned, NEW I, I \subseteq DOMAIN alerts, alerts' = Keep(alerts, I),
         UNCHANGED <<serverVars, frames>>
  PROVE  /\ EntriesOwned'
         /\ \A t : (OnceEach(t) => OnceEach(t)') /\ (AllShow(t) => AllShow(t)')
         /\ \A t : (\A k \in DOMAIN alerts : alerts[k].ticker = t => k \in I) =>
              EntriesKept(t, [k \in 1..Cardinality(I) |-> Nth(I, k)])
         /\ \A b, t : Has(b, t)' <=> \E k \in I : alerts[k].id = b /\ alerts[k].ticker = t
<1> DEFINE m == Cardinality(I)
           en == [k \in 1..m |-> Nth(I, k)]
<1>1. /\ DOMAIN alerts' = 1..m
      /\ \A k \in 1..m : en[k] \in I /\ alerts'[k] = alerts[en[k]]
      /\ \A k, l \in 1..m : en[k] = en[l] => k = l
      /\ \A i \in I : \E k \in 1..m : alerts'[k] = alerts[i]
  <2>1. /\ m \in 0..Len(alerts)
        /\ Keep(alerts, I) \in Seq(Entry) /\ Len(Keep(alerts, I)) = m
    BY KeepFacts DEF AlertsTyped
  <2>2. DOMAIN alerts' = 1..m
    BY <2>1
  <2> QED
    BY <2>2, KeptAlerts
<1> HIDE DEF en, m
<1>2. EntriesOwned'
  BY <1>1 DEF EntriesOwned, OwnerOf, serverVars
<1>3. ASSUME NEW t, OnceEach(t) PROVE OnceEach(t)'
  BY <1>1, <1>3 DEF OnceEach
<1>4. ASSUME NEW t, AllShow(t) PROVE AllShow(t)'
  BY <1>1, <1>4 DEF AllShow, Shows, Coming, serverVars
<1>5. ASSUME NEW t, \A k \in DOMAIN alerts : alerts[k].ticker = t => k \in I
      PROVE  EntriesKept(t, en)
  BY <1>1, <1>5 DEF EntriesKept
<1>6. ASSUME NEW b, NEW t
      PROVE  Has(b, t)' <=> \E k \in I : alerts[k].id = b /\ alerts[k].ticker = t
  BY <1>1 DEF Has
<1> QED
  BY <1>2, <1>3, <1>4, <1>5, <1>6 DEF en, m

\* A handler that leaves the entries alone.
LEMMA SameEntries ==
  ASSUME EntriesOwned, alerts' = alerts, UNCHANGED <<serverVars, frames>>
  PROVE  /\ EntriesOwned'
         /\ \A t : (OnceEach(t) => OnceEach(t)') /\ (AllShow(t) => AllShow(t)')
         /\ \A t : EntriesKept(t, [k \in DOMAIN alerts |-> k])
         /\ \A b, t : Has(b, t)' <=> Has(b, t)
<1>1. EntriesOwned'
  BY DEF EntriesOwned, OwnerOf, serverVars
<1>2. \A t : (OnceEach(t) => OnceEach(t)') /\ (AllShow(t) => AllShow(t)')
  BY DEF OnceEach, AllShow, Shows, Coming, serverVars
<1>3. \A t : EntriesKept(t, [k \in DOMAIN alerts |-> k])
  BY DEF EntriesKept
<1>4. \A b, t : Has(b, t)' <=> Has(b, t)
  BY DEF Has
<1> QED
  BY <1>1, <1>2, <1>3, <1>4

\* Each handler of the user's leaves the alerts accounted for: a removal forgets those of its
\* ticker, a deletion the one it is about.
LEMMA UserAlerts ==
  ASSUME TypeInv, AlertsInv,
         \/ \E t \in Tickers : \/ HandleAdd(t) \/ HandleRemove(t) \/ HandleSetAlert(t)
                               \/ HandleAddToWatchlist(t) \/ HandleRemoveFromWatchlist(t)
         \/ \E i \in DOMAIN alerts : HandleDeleteAlert(alerts[i])
  PROVE  AlertsInv'
<1>1. None \in Alerts \cup {None} /\ {} \in SUBSET Marks
      /\ {"bought"} \in SUBSET Marks /\ {"unwatched"} \in SUBSET Marks
  BY DEF Marks
<1>2. EntriesOwned /\ AlertsTyped
  BY DEF AlertsInv, OwnersRight, TypeInv
<1>3. \A op, u, a : LET q == Request(op, u, a)
                    IN q.op = op /\ q.alert = a /\ ~q.ok /\ q.result = {}
  BY DEF Request
<1>4. \A op, u, a, also : Send(op, u, a, also) => UNCHANGED <<serverVars, frames>>
  BY DEF Send
<1>5. ASSUME NEW op \in Writes \ {"remove", "deleteAlert"}, NEW u \in Tickers,
             NEW also \in SUBSET Marks, Send(op, u, None, also), alerts' = alerts,
             op = "unwatch" => also = {"unwatched"}
      PROVE  AlertsInv'
  <2>1. /\ EntriesOwned'
        /\ \A t : (OnceEach(t) => OnceEach(t)') /\ (AllShow(t) => AllShow(t)')
        /\ \A t : EntriesKept(t, [k \in DOMAIN alerts |-> k])
        /\ \A b, t : Has(b, t)' <=> Has(b, t)
    BY <1>2, <1>4, <1>5, SameEntries
  <2>2. op \notin {"alerts", "remove", "deleteAlert"}
    BY DEF Writes
  <2>3. op # "unwatch" => AlertFits(Request(op, u, None), u)'
    BY <1>3, <2>2 DEF AlertFits
  <2>4. op = "unwatch" => ~(also \subseteq {"bought"})
    BY <1>5
  <2>5. SendShows(op, u, None, also)
    BY <2>1, <2>3, <2>4 DEF SendShows, HasAll
  <2>6. op \in Writes /\ op # "deleteAlert"
    OBVIOUS
  <2> QED
    BY <1>1, <1>5, <2>1, <2>5, <2>6, SendAlerts
<1>6. ASSUME NEW u \in Tickers, HandleRemove(u) PROVE AlertsInv'
  <2> DEFINE I == {i \in DOMAIN alerts : alerts[i].ticker # u}
             en == [k \in 1..Cardinality(I) |-> Nth(I, k)]
  <2>1. Send("remove", u, None, {}) /\ alerts' = Keep(alerts, I) /\ I \subseteq DOMAIN alerts
    BY <1>6 DEF HandleRemove
  <2>2. /\ EntriesOwned'
        /\ \A t : (OnceEach(t) => OnceEach(t)') /\ (AllShow(t) => AllShow(t)')
        /\ \A t : (\A k \in DOMAIN alerts : alerts[k].ticker = t => k \in I) => EntriesKept(t, en)
        /\ \A b, t : Has(b, t)' <=> \E k \in I : alerts[k].id = b /\ alerts[k].ticker = t
    <3> HIDE DEF I
    <3> QED
      BY <1>2, <1>4, <2>1, KeptEntries
  <2>3. \A b : ~Has(b, u)'
    BY <2>2
  <2>4. \A t \in Tickers \ {u} : EntriesKept(t, en)
    <3> HIDE DEF en
    <3> QED
      BY <2>2
  <2> HIDE DEF I, en
  <2>5. AlertFits(Request("remove", u, None), u)'
    BY <1>3, <2>3 DEF AlertFits
  <2>6. SendShows("remove", u, None, {})
    BY <2>2, <2>5 DEF SendShows
  <2>7. "remove" \in Writes /\ "remove" # "deleteAlert"
    BY DEF Writes
  <2> QED
    BY <1>1, <2>1, <2>2, <2>4, <2>6, <2>7, SendAlerts
<1>7. ASSUME NEW i \in DOMAIN alerts, HandleDeleteAlert(alerts[i]) PROVE AlertsInv'
  <2>3. alerts[i] \in Entry
    BY <1>2 DEF AlertsTyped
  <2>0. PICK a \in Alerts, u \in Tickers : a = alerts[i].id /\ u = alerts[i].ticker
    BY <2>3 DEF Entry
  <2> DEFINE I == {k \in DOMAIN alerts : alerts[k].id # a}
             en == [k \in 1..Cardinality(I) |-> Nth(I, k)]
  <2>1. Send("deleteAlert", u, a, {}) /\ alerts' = Keep(alerts, I) /\ I \subseteq DOMAIN alerts
    BY <1>7, <2>0 DEF HandleDeleteAlert
  <2>2. /\ EntriesOwned'
        /\ \A t : (OnceEach(t) => OnceEach(t)') /\ (AllShow(t) => AllShow(t)')
        /\ \A t : (\A k \in DOMAIN alerts : alerts[k].ticker = t => k \in I) => EntriesKept(t, en)
        /\ \A b, t : Has(b, t)' <=> \E k \in I : alerts[k].id = b /\ alerts[k].ticker = t
    <3> HIDE DEF I
    <3> QED
      BY <1>2, <1>4, <2>1, KeptEntries
  <2>4. u \in Tickers /\ a \in Alerts /\ OwnerOf(a, u)
    BY <1>2, <2>0 DEF EntriesOwned
  <2>5. ASSUME NEW t \in Tickers \ {u}, Calm(t) PROVE EntriesKept(t, en)
    <3>1. AllShow(t)
      BY <2>5 DEF AlertsInv, AlertInv
    <3>2. \A k \in DOMAIN alerts : alerts[k].ticker = t => owner[alerts[k].id] = t
      BY <3>1 DEF AllShow, Shows
    <3>3. t # None /\ owner[a] \in {u, None}
      BY <2>4, DashboardAssumption DEF OwnerOf
    <3>4. \A k \in DOMAIN alerts : alerts[k].ticker = t => k \in I
      BY <3>2, <3>3
    <3> HIDE DEF en, I
    <3> QED
      BY <2>2, <3>4
  <2>6. ~Has(a, u)'
    BY <2>2
  <2>7. \A b : Has(b, u) /\ b # a => Has(b, u)'
    BY <2>2 DEF Has
  <2> HIDE DEF I, en
  <2>8. AlertFits(Request("deleteAlert", u, a), u)'
    <3> DEFINE q == Request("deleteAlert", u, a)
    <3>1. q.op = "deleteAlert" /\ q.alert = a
      BY <1>3
    <3> HIDE DEF q
    <3>2. AlertFits(q, u)'
      BY <2>6, <3>1 DEF AlertFits
    <3> QED
      BY <3>2 DEF q
  <2>9. SendShows("deleteAlert", u, a, {})
    BY <2>2, <2>7, <2>8 DEF SendShows, HasAll
  <2>10. "deleteAlert" \in Writes /\ a \in Alerts \cup {None}
    BY <2>4 DEF Writes
  <2> QED
    BY <1>1, <2>1, <2>2, <2>4, <2>5, <2>9, <2>10, SendAlerts
<1>8. {"add", "watch", "unwatch", "setAlert"} \subseteq Writes \ {"remove", "deleteAlert"}
  BY DEF Writes
<1>9. ASSUME NEW u \in Tickers, \/ HandleAdd(u) \/ HandleSetAlert(u) \/ HandleAddToWatchlist(u)
                                \/ HandleRemoveFromWatchlist(u)
      PROVE  AlertsInv'
  <2>1. \E op \in {"add", "watch", "unwatch", "setAlert"}, also \in SUBSET Marks :
          Send(op, u, None, also) /\ alerts' = alerts /\ (op = "unwatch" => also = {"unwatched"})
    <3>1. HandleAdd(u) => /\ Send("add", u, None, IF u \in watchlist THEN {"bought"} ELSE {})
                          /\ alerts' = alerts
      BY DEF HandleAdd
    <3>2. HandleSetAlert(u) => Send("setAlert", u, None, {}) /\ alerts' = alerts
      BY DEF HandleSetAlert
    <3>3. HandleAddToWatchlist(u) => Send("watch", u, None, {}) /\ alerts' = alerts
      BY DEF HandleAddToWatchlist
    <3>4. HandleRemoveFromWatchlist(u) => Send("unwatch", u, None, {"unwatched"}) /\ alerts' = alerts
      BY DEF HandleRemoveFromWatchlist
    <3>5. (IF u \in watchlist THEN {"bought"} ELSE {}) \in SUBSET Marks
      BY <1>1
    <3> QED
      BY <1>1, <1>9, <3>1, <3>2, <3>3, <3>4, <3>5
  <2> QED
    BY <1>5, <1>8, <2>1
<1> QED
  BY <1>6, <1>7, <1>9

\* The server answers or refuses: the answer to a read of the alerts tells of every alert, a
\* removal and a deletion end what the page has forgotten, and a new alert is told of by the
\* answer that makes it.
LEMMA ServeAlerts ==
  ASSUME TypeInv, RowsInv, AlertsInv, NEW i \in DOMAIN requests, Serve(i)
  PROVE  AlertsInv'
<1> DEFINE r == requests[i]
           s == requests'[i]
<1>1. /\ DOMAIN requests' = DOMAIN requests
      /\ \A j \in DOMAIN requests \ {i} : requests'[j] = requests[j]
      /\ s.op = r.op /\ s.ticker = r.ticker /\ s.alert = r.alert
      /\ \/ Refuses(i) /\ s.ok = r.ok /\ s.result = r.result
         \/ s.ok /\ \/ r.op = "portfolio" /\ UNCHANGED serverVars
                    \/ r.op = "watchlist" /\ UNCHANGED serverVars
                    \/ r.op = "alerts" /\ s.result = Listed /\ UNCHANGED serverVars
                    \/ ServesAdd(i) \/ ServesWatch(i) \/ ServesRemoval(i)
                    \/ \E a \in Alerts : /\ s.result = {a} /\ ServesSetAlert(i) /\ Fresh(a)
                                         /\ owner' = [owner EXCEPT ![a] = r.ticker]
                    \/ ServesDeleteAlert(i)
  BY ServeFacts
<1>2. UNCHANGED <<alerts, frames, past>> /\ r.state = "sent"
  BY DEF Serve, pageVars
<1>3. r \in Asked /\ Formed(r) /\ ~r.ok /\ Refers(r)
  BY <1>2 DEF TypeInv, RequestsTyped, RowsInv, Sane, AlertsInv, OwnersRight
<1>4. OwnersRight'
  <2>1. Lists'
    BY OwnerSteps DEF AlertsInv
  <2>2. FramesOwned' /\ EntriesOwned' /\ \A j \in DOMAIN requests : Refers(requests[j])'
    BY ReferredStays DEF AlertsInv
  <2>3. \A j \in DOMAIN requests : requests'[j].op = requests[j].op
    BY <1>1
  <2>4. OneRead'
    BY <1>1, <2>3 DEF AlertsInv, OwnersRight, OneRead
  <2> QED
    BY <1>1, <2>1, <2>2, <2>4 DEF OwnersRight
<1>5. ASSUME NEW t \in Tickers, Calm(t) PROVE AlertInv(t)'
  <2>1. AlertInv(t) /\ OnceEach(t) /\ AllShow(t) /\ AllFit(t) /\ Accounted(t)
    BY <1>5 DEF AlertsInv, AlertInv
  <2>2. OnceEach(t)' /\ \A b : Has(b, t)' <=> Has(b, t)
    BY <1>2, <2>1 DEF OnceEach, Has
  <2>3. t # None /\ owner \in [Alerts -> Tickers \cup {None}] /\ \A k \in DOMAIN alerts : alerts[k] \in Entry
    BY DashboardAssumption DEF TypeInv, ServerTyped, AlertsTyped
  <2>4. \A k \in DOMAIN alerts : alerts[k].id \in Alerts
    BY <2>3 DEF Entry
  <2>5. SUFFICES (AllShow(t)' /\ AllFit(t)' /\ Accounted(t)') \/ AlertInv(t)'
    BY <2>2 DEF AlertInv
  <2>6. ASSUME OwnersKept(t), FiredKept(t),
               t \in About(r) => Alike(r, s) \/ r.op \in Plain
        PROVE  AlertInv(t)'
    <3>1. EntriesKept(t, [k \in DOMAIN alerts |-> k])
      BY <1>2 DEF EntriesKept
    <3>2. AsksKept(t)
      <4>1. (t \in About(s) <=> t \in About(r)) /\ s.op = r.op
        BY <1>1 DEF About
      <4>2. \A j \in DOMAIN requests \ {i} : Alike(requests[j], requests'[j])
        BY <1>1 DEF Alike
      <4> HIDE DEF r, s
      <4> QED
        BY <1>1, <2>6, <4>1, <4>2 DEF AsksKept, r, s
    <3> HIDE DEF r, s
    <3> QED
      BY <1>2, <2>1, <2>6, <3>1, <3>2, AlertFrame
  <2>7. ASSUME r.ticker = t
        PROVE  /\ \A j \in DOMAIN requests : t \in About(requests[j]) => j = i
               /\ \A b \in Alerts : owner[b] = t => Has(b, t) \/ OpenDelete(b, t) \/ Open("remove", t)
               /\ AlertFits(r, t)
    <3>1. t \in About(r)
      BY <2>7 DEF About, Reads
    <3>2. \A j \in DOMAIN requests : t \in About(requests[j]) => j = i
      BY <1>5, <2>7 DEF Calm, RowsInv, RowInv, Clear, Lonely
    <3>3. \A b : ~ReadHas(b, t) /\ ~Made(b, t)
      <4>1. \A q : q.op = "alerts" \/ q.ticker = t => t \in About(q)
        BY DEF About, Reads
      <4>2. r.op # "alerts"
        BY <1>3, <2>3, <2>7 DEF Formed, Reads
      <4> QED
        BY <1>3, <3>2, <4>1, <4>2 DEF ReadHas, Made
    <3> QED
      BY <2>1, <3>1, <3>2, <3>3 DEF AllFit, Accounted
  <2>8. CASE UNCHANGED <<owner, fired>> /\ ((s.ok = r.ok /\ s.result = r.result) \/ r.op \in Plain)
    <3>1. OwnersKept(t) /\ FiredKept(t)
      BY <1>2, <2>8 DEF OwnersKept, FiredKept, Coming, ComingNext
    <3>2. Alike(r, s) \/ r.op \in Plain
      BY <1>1, <2>8 DEF Alike
    <3> QED
      BY <2>6, <3>1, <3>2
  <2>9. CASE r.op = "alerts" /\ s.ok /\ s.result = Listed /\ UNCHANGED serverVars
    <3>1. AllShow(t)'
      BY <1>2, <2>1, <2>9 DEF AllShow, Shows, Coming, serverVars
    <3>2. \A b \in Alerts : owner[b] = t => \E x \in Listed : x.id = b /\ x.ticker = t
      <4> SUFFICES ASSUME NEW b \in Alerts, owner[b] = t
                   PROVE  \E x \in Listed : x.id = b /\ x.ticker = t
        OBVIOUS
      <4>1. EntryOf(b) \in Listed /\ EntryOf(b).id = b /\ EntryOf(b).ticker = t
        BY <2>3 DEF Listed, Owned, EntryOf
      <4> QED
        BY <4>1
    <3>3. Accounted(t)'
      BY <1>1, <2>9, <3>2 DEF Accounted, ReadHas, serverVars
    <3>4. \A x \in Listed : /\ x.ticker = t => owner[x.id] = t
                            /\ x.triggered <=> x.id \in fired
      <4> SUFFICES ASSUME NEW b \in Owned
                   PROVE  LET x == EntryOf(b)
                          IN (x.ticker = t => owner[x.id] = t) /\ (x.triggered <=> x.id \in fired)
        BY DEF Listed
      <4>1. EntryOf(b).id = b /\ EntryOf(b).ticker = owner[b]
        BY DEF EntryOf
      <4>2. EntryOf(b).triggered = (b \in fired)
        BY DEF EntryOf
      <4> QED
        BY <4>1, <4>2
    <3>5. ASSUME NEW k \in DOMAIN requests', t \in About(requests'[k])
          PROVE  AlertFits(requests[k], t)'
      <4>1. CASE k = i
        <5>1. t \in About(r)
          BY <2>9 DEF About, Reads
        <5>2. AlertFits(r, t)
          BY <2>1, <5>1 DEF AllFit
        <5> HIDE DEF r, s
        <5>4. /\ s.op = "alerts" /\ (\A a \in Alerts : ~Has(a, t)')
              /\ \A x \in s.result : ShowsNext(x, t)
          BY <1>1, <2>2, <2>9, <3>4, <5>2 DEF AlertFits, ShowsNext, serverVars
        <5> QED
          BY <4>1, <5>4 DEF s, AlertFits, Has, Shows, ShowsNext, ComingNext, Coming
      <4>2. CASE k # i
        <5>1. requests'[k] = requests[k] /\ AlertFits(requests[k], t)
          BY <1>1, <2>1, <3>5, <4>2 DEF AllFit
        <5> QED
          BY <1>2, <2>9, <5>1 DEF AlertFits, Has, Shows, Coming, serverVars
      <4> QED
        BY <4>1, <4>2
    <3> QED
      BY <3>1, <3>3, <3>5 DEF AllFit
  <2>10. CASE ServesRemoval(i)
    <3> DEFINE u == r.ticker
    <3>1. /\ r.op \in {"remove", "unwatch"} /\ u # None
          /\ owner' = [b \in Alerts |-> IF owner[b] = u THEN None ELSE owner[b]]
          /\ fired' = {b \in fired : owner[b] # u}
      BY <1>3, <2>10 DEF ServesRemoval, Formed, Reads
    <3>2. CASE u # t
      <4>1. OwnersKept(t) /\ FiredKept(t)
        BY <1>2, <2>3, <3>1, <3>2 DEF OwnersKept, FiredKept, Coming, ComingNext
      <4>2. t \notin About(r)
        BY <3>1, <3>2 DEF About, Reads
      <4> QED
        BY <2>6, <4>1, <4>2
    <3>3. CASE u = t
      <4>1. /\ \A j \in DOMAIN requests : t \in About(requests[j]) => j = i
            /\ AlertFits(r, t)
        BY <2>7, <3>3
      <4>2. r.op = "remove" /\ \A b \in Alerts : ~Has(b, t)
        BY <3>1, <4>1 DEF AlertFits
      <4>3. \A k \in DOMAIN alerts : alerts[k].ticker # t
        BY <2>4, <4>2 DEF Has
      <4>4. AllShow(t)'
        BY <1>2, <4>3 DEF AllShow, Shows
      <4>5. \A b \in Alerts : owner'[b] # t
        BY <2>3, <3>1, <3>3
      <4>6. AlertFits(requests[i], t)'
        BY <1>1, <2>2, <4>2 DEF AlertFits
      <4>7. AllFit(t)'
        BY <1>1, <4>1, <4>6 DEF AllFit
      <4> QED
        BY <4>4, <4>5, <4>7 DEF Accounted
    <3> QED
      BY <3>2, <3>3
  <2>11. ASSUME NEW a \in Alerts, s.ok, s.result = {a}, ServesSetAlert(i), Fresh(a),
                owner' = [owner EXCEPT ![a] = r.ticker]
         PROVE  (AllShow(t)' /\ AllFit(t)' /\ Accounted(t)') \/ AlertInv(t)'
    <3>1. /\ r.op = "setAlert" /\ fired' = fired /\ owner[a] = None /\ a \notin fired
          /\ owner'[a] = r.ticker /\ \A b \in Alerts : b # a => owner'[b] = owner[b]
      BY <2>3, <2>11 DEF ServesSetAlert, Fresh, TypeInv, ServerTyped
    <3>2. CASE r.ticker # t
      <4>1. OwnersKept(t) /\ FiredKept(t)
        BY <1>2, <2>3, <3>1, <3>2 DEF OwnersKept, FiredKept, Coming, ComingNext
      <4>2. t \notin About(r)
        BY <3>1, <3>2 DEF About, Reads
      <4> QED
        BY <2>6, <4>1, <4>2
    <3>3. CASE r.ticker = t
      <4>1. /\ \A j \in DOMAIN requests : t \in About(requests[j]) => j = i
            /\ \A b \in Alerts : owner[b] = t => Has(b, t) \/ OpenDelete(b, t) \/ Open("remove", t)
        BY <2>7, <3>3
      <4>2. \A k \in DOMAIN alerts : alerts[k].id # a
        BY <2>11 DEF Fresh
      <4>3. AllShow(t)'
        BY <1>2, <2>1, <2>4, <3>1, <4>2 DEF AllShow, Shows, Coming
      <4>4. ~Has(a, t)
        BY <4>2 DEF Has
      <4>5. AlertFits(requests[i], t)'
        BY <1>1, <2>2, <2>11, <3>1, <3>3, <4>4 DEF AlertFits
      <4>6. AllFit(t)'
        BY <1>1, <4>1, <4>5 DEF AllFit
      <4>7. \A b \in Alerts : owner[b] = t => Has(b, t)
        BY <3>1, <4>1 DEF OpenDelete, Open, About
      <4>8. Made(a, t)'
        BY <1>1, <2>11, <3>1, <3>3 DEF Made
      <4>9. Accounted(t)'
        BY <2>2, <3>1, <4>7, <4>8 DEF Accounted
      <4> QED
        BY <4>3, <4>6, <4>9
    <3> QED
      BY <3>2, <3>3
  <2>12. CASE ServesDeleteAlert(i)
    <3>0. PICK a \in Alerts : a = r.alert
      BY <1>3, <2>12 DEF ServesDeleteAlert, Formed
    <3>1. /\ r.op = "deleteAlert" /\ fired' = fired \ {a} /\ owner[a] \in {r.ticker, None}
          /\ owner'[a] = None /\ \A b \in Alerts : b # a => owner'[b] = owner[b]
      BY <1>3, <2>3, <2>12, <3>0 DEF ServesDeleteAlert, Refers, OwnerOf
    <3>2. CASE r.ticker # t
      <4>1. OwnersKept(t) /\ FiredKept(t)
        BY <1>2, <2>3, <3>1, <3>2 DEF OwnersKept, FiredKept, Coming, ComingNext
      <4>2. t \notin About(r)
        BY <3>1, <3>2 DEF About, Reads
      <4> QED
        BY <2>6, <4>1, <4>2
    <3>3. CASE r.ticker = t
      <4>1. /\ \A j \in DOMAIN requests : t \in About(requests[j]) => j = i
            /\ \A b \in Alerts : owner[b] = t => Has(b, t) \/ OpenDelete(b, t) \/ Open("remove", t)
            /\ AlertFits(r, t)
        BY <2>7, <3>3
      <4>2. ~Has(a, t)
        BY <3>0, <3>1, <4>1 DEF AlertFits
      <4>3. \A k \in DOMAIN alerts : alerts[k].ticker = t => alerts[k].id # a
        BY <4>2 DEF Has
      <4>4. AllShow(t)'
        BY <1>2, <2>1, <2>4, <3>1, <4>3 DEF AllShow, Shows, Coming
      <4>5. AlertFits(requests[i], t)'
        BY <1>1, <2>2, <3>0, <3>1, <4>2 DEF AlertFits
      <4>6. AllFit(t)'
        BY <1>1, <4>1, <4>5 DEF AllFit
      <4>7. \A b \in Alerts : owner[b] = t /\ b # a => Has(b, t)
        BY <3>0, <3>1, <4>1 DEF OpenDelete, Open, About
      <4>8. Accounted(t)'
        BY <2>2, <2>3, <3>1, <4>7 DEF Accounted
      <4> QED
        BY <4>4, <4>6, <4>8
    <3> QED
      BY <3>2, <3>3
  <2>13. CASE Refuses(i) /\ s.ok = r.ok /\ s.result = r.result
    BY <2>8, <2>13 DEF Refuses, serverVars
  <2>14. CASE r.op \in {"portfolio", "watchlist"} /\ UNCHANGED serverVars
    BY <2>8, <2>14 DEF Plain, serverVars
  <2>15. CASE ServesAdd(i) \/ ServesWatch(i)
    BY <2>8, <2>15 DEF Plain, ServesAdd, ServesWatch
  <2> QED
    BY <1>1, <2>9, <2>10, <2>11, <2>12, <2>13, <2>14, <2>15
<1>6. ASSUME NEW t \in Tickers PROVE AlertInv(t)'
  BY <1>2, <1>5 DEF AlertInv, Calm
<1> QED
  BY <1>4, <1>6 DEF AlertsInv

\* What the page does with an answer, or with an error, to its list of alerts.
LEMMA AlertsAnswered ==
  ASSUME NEW r, Succeeded(r) \/ Failed(r)
  PROVE  /\ Succeeded(r) => \/ r.op = "alerts" /\ alerts' = SetToSeq(r.result)
                            \/ r.op = "setAlert" /\ \E a \in r.result : alerts' =
                                 Append(alerts, [id |-> a, ticker |-> r.ticker, triggered |-> FALSE])
                            \/ r.op \in Plain \cup {"remove", "unwatch", "deleteAlert"}
                               /\ alerts' = alerts
         /\ Failed(r) => alerts' = alerts
<1>1. Failed(r) => alerts' = alerts
  BY DEF Failed, AddFailed, WatchFailed, SetAlertFailed, Swallowed, pageVars
<1>2. Succeeded(r) => \/ r.op = "alerts" /\ alerts' = SetToSeq(r.result)
                      \/ r.op = "setAlert" /\ \E a \in r.result : alerts' =
                           Append(alerts, [id |-> a, ticker |-> r.ticker, triggered |-> FALSE])
                      \/ r.op \in Plain \cup {"remove", "unwatch", "deleteAlert"}
                         /\ alerts' = alerts
  BY DEF Succeeded, SetHoldings, SetWatchlist, SetAlerts, AlertMade, NothingToDo, pageVars, Plain
<1> QED
  BY <1>1, <1>2

\* The ends a request may come to, as far as the alerts go.
LEMMA EndFacts ==
  ASSUME TypeInv, NEW i \in DOMAIN requests, Answer(i) \/ Throw(i) \/ Forgotten(i)
  PROVE  LET r == requests[i]
         IN /\ UNCHANGED <<serverVars, frames>>
            /\ \A t \in Tickers : past[t] \subseteq past'[t]
            /\ \/ r.mine /\ r.ok /\ Succeeded(r)
               \/ alerts' = alerts /\ \A t \in Tickers : t \in About(r) => "failed" \in past'[t]
               \/ alerts' = alerts /\ ~r.mine /\ past' = past
<1> DEFINE r == requests[i]
<1>1. UNCHANGED <<serverVars, frames>>
  BY DEF Answer, Throw, Forgotten
<1>2. CASE Answer(i) /\ r.ok
  <2>1. Mark({}, {"failed"}) /\ Succeeded(r) /\ r.mine
    BY <1>2 DEF Answer
  <2>2. past' = past
    BY <2>1 DEF Mark, TypeInv, PastTyped
  <2> QED
    BY <1>1, <1>2, <2>1, <2>2
<1>3. CASE (Answer(i) /\ ~r.ok) \/ Throw(i)
  <2>1. Mark(About(r), {"failed"}) /\ Failed(r)
    BY <1>3 DEF Answer, Throw
  <2>2. {"failed"} \subseteq Marks
    BY DEF Marks
  <2>3. \A t \in Tickers : /\ past[t] \subseteq past'[t]
                           /\ t \in About(r) => "failed" \in past'[t]
    BY <2>1, <2>2, MarkFacts DEF TypeInv
  <2> QED
    BY <1>1, <2>1, <2>3, AlertsAnswered
<1>4. CASE Forgotten(i)
  BY <1>1, <1>4 DEF Forgotten, pageVars
<1> QED
  BY <1>2, <1>3, <1>4

\* An answer to a read or to a new alert brings entries whose owner is who they say.
LEMMA EntriesBrought ==
  ASSUME TypeInv, OwnersRight, NEW i \in DOMAIN requests, requests[i].ok, Succeeded(requests[i]),
         UNCHANGED <<serverVars, frames>>
  PROVE  EntriesOwned'
<1> DEFINE r == requests[i]
<1>1. Formed(r) /\ Refers(r) /\ alerts \in Seq(Entry) /\ EntriesOwned /\ owner' = owner
  BY DEF TypeInv, RequestsTyped, OwnersRight, AlertsTyped, serverVars
<1>2. CASE r.op = "alerts" /\ alerts' = SetToSeq(r.result)
  <2>1. r.result \subseteq Entry /\ IsFiniteSet(r.result) /\ \A x \in r.result : OwnerOf(x.id, x.ticker)
    BY <1>1, <1>2 DEF Formed, Refers
  <2>2. alerts' \in Seq(r.result)
    BY <1>2, <2>1, SetToSeqFacts
  <2>3. \A k \in DOMAIN alerts' : alerts'[k] \in r.result
    BY <2>2
  <2> QED
    BY <1>1, <2>1, <2>3 DEF EntriesOwned, OwnerOf
<1>3. ASSUME NEW a \in r.result, r.op = "setAlert",
             alerts' = Append(alerts, [id |-> a, ticker |-> r.ticker, triggered |-> FALSE])
      PROVE  EntriesOwned'
  <2> DEFINE x == [id |-> a, ticker |-> r.ticker, triggered |-> FALSE]
             n == Len(alerts)
  <2>1. OwnerOf(a, r.ticker) /\ x.id = a /\ x.ticker = r.ticker
    BY <1>1, <1>3 DEF Refers
  <2>2. /\ n \in Nat /\ DOMAIN alerts = 1..n /\ DOMAIN alerts' = 1..(n + 1)
        /\ \A k \in 1..n : alerts'[k] = alerts[k]
        /\ alerts'[n + 1] = x
    BY <1>1, <1>3
  <2> HIDE DEF x, n
  <2>3. \A k \in 1..(n + 1) : k \in 1..n \/ k = n + 1
    BY <2>2
  <2> QED
    BY <1>1, <2>1, <2>2, <2>3 DEF EntriesOwned, OwnerOf
<1>4. CASE alerts' = alerts
  BY <1>1, <1>4 DEF EntriesOwned, OwnerOf
<1> QED
  BY <1>2, <1>3, <1>4, AlertsAnswered

\* A request that leaves: only an answer that comes back unhurt changes what the page knows
\* of a calm ticker's alerts, and then it brings what was accounted to it.
LEMMA LeaveAlerts ==
  ASSUME TypeInv, RowsInv, AlertsInv, NEW i \in DOMAIN requests, Gone(i),
         Answer(i) \/ Throw(i) \/ Forgotten(i)
  PROVE  AlertsInv'
<1> DEFINE r == requests[i]
           n == Len(requests)
           at == [k \in 1..(n - 1) |-> Skip(i, k)]
<1>1. /\ n \in Nat /\ DOMAIN requests = 1..n /\ DOMAIN requests' = 1..(n - 1)
      /\ \A k \in 1..(n - 1) : at[k] \in (1..n) \ {i} /\ requests'[k] = requests[at[k]]
      /\ \A k, l \in 1..(n - 1) : at[k] = at[l] => k = l
      /\ \A j \in (1..n) \ {i} : \E k \in 1..(n - 1) : at[k] = j
  <2>1. /\ n \in Nat /\ DOMAIN requests = 1..n /\ DOMAIN requests' = 1..(n - 1)
        /\ \A k \in 1..(n - 1) : Skip(i, k) \in (1..n) \ {i} /\ requests'[k] = requests[Skip(i, k)]
        /\ \A k, l \in 1..(n - 1) : Skip(i, k) = Skip(i, l) => k = l
        /\ \A j \in (1..n) \ {i} : \E k \in 1..(n - 1) : Skip(i, k) = j
    BY GoneFacts
  <2>2. \A k \in 1..(n - 1) : at[k] = Skip(i, k)
    OBVIOUS
  <2> HIDE DEF at, n
  <2> QED
    BY <2>1, <2>2
<1>2. \A k \in DOMAIN requests' : \E j \in DOMAIN requests \ {i} : requests'[k] = requests[j]
  <2> SUFFICES ASSUME NEW k \in 1..(n - 1)
               PROVE  \E j \in DOMAIN requests \ {i} : requests'[k] = requests[j]
    BY <1>1
  <2> HIDE DEF at, n
  <2>1. at[k] \in DOMAIN requests \ {i} /\ requests'[k] = requests[at[k]]
    BY <1>1
  <2> QED
    BY <2>1
<1>3. \A j \in DOMAIN requests \ {i} : \E k \in DOMAIN requests' : requests'[k] = requests[j]
  <2> SUFFICES ASSUME NEW j \in DOMAIN requests \ {i}
               PROVE  \E k \in DOMAIN requests' : requests'[k] = requests[j]
    OBVIOUS
  <2>1. PICK k \in 1..(n - 1) : at[k] = j
    BY <1>1
  <2> HIDE DEF at, n
  <2> QED
    BY <1>1, <2>1
<1> HIDE DEF at, n
<1>4. /\ UNCHANGED <<serverVars, frames>>
      /\ \A t \in Tickers : past[t] \subseteq past'[t]
      /\ \/ r.mine /\ r.ok /\ Succeeded(r)
         \/ alerts' = alerts /\ \A t \in Tickers : t \in About(r) => "failed" \in past'[t]
         \/ alerts' = alerts /\ ~r.mine /\ past' = past
  BY EndFacts
<1>5. Formed(r) /\ Refers(r) /\ r \in Asked /\ alerts \in Seq(Entry) /\ EntriesOwned
  BY DEF TypeInv, RequestsTyped, AlertsInv, OwnersRight, AlertsTyped
<1>6. OwnersRight'
  <2>1. OwnersRight
    BY DEF AlertsInv
  <2>2. Lists' /\ FramesOwned'
    BY <1>4, <2>1 DEF OwnersRight, Lists, FramesOwned, serverVars
  <2>3. EntriesOwned'
    <3>1. CASE alerts' = alerts
      BY <1>4, <1>5, <3>1 DEF EntriesOwned, OwnerOf, serverVars
    <3>2. CASE r.ok /\ Succeeded(r)
      BY <1>4, <2>1, <3>2, EntriesBrought
    <3> QED
      BY <1>4, <3>1, <3>2
  <2>4. OneRead'
    <3> SUFFICES ASSUME NEW k \in 1..(n - 1), NEW l \in 1..(n - 1),
                        requests'[k].op = "alerts", requests'[l].op = "alerts"
                 PROVE  k = l
      BY <1>1 DEF OneRead
    <3>1. at[k] = at[l]
      BY <1>1, <2>1 DEF OwnersRight, OneRead
    <3> QED
      BY <1>1, <3>1
  <2>5. \A k \in DOMAIN requests' : Refers(requests[k])'
    BY <1>2, <1>4, <2>1 DEF OwnersRight, Refers, OwnerOf, serverVars
  <2> QED
    BY <2>2, <2>3, <2>4, <2>5 DEF OwnersRight
<1>7. ASSUME NEW t \in Tickers, Calm(t)' PROVE AlertInv(t)'
  <2>1. AlertInv(t) /\ Calm(t) /\ OnceEach(t) /\ AllShow(t) /\ AllFit(t) /\ Accounted(t)
    BY <1>4, <1>7 DEF AlertsInv, AlertInv, Calm
  <2>2. t # None
    BY DashboardAssumption
  <2>3. ASSUME t \in About(r) => r.op \in Plain, NEW en, EntriesKept(t, en)
        PROVE  AlertInv(t)'
    <3>1. OwnersKept(t) /\ FiredKept(t)
      BY <1>4 DEF OwnersKept, FiredKept, Coming, ComingNext, serverVars
    <3>2. AsksKept(t)
      BY <1>2, <1>3, <2>3 DEF AsksKept, Alike
    <3> QED
      BY <1>4, <2>1, <2>3, <3>1, <3>2, AlertFrame
  <2>4. ASSUME alerts' = alerts PROVE EntriesKept(t, [k \in DOMAIN alerts |-> k])
    BY <2>4 DEF EntriesKept
  <2>5. CASE t \notin About(r) /\ alerts' = alerts
    BY <2>3, <2>4, <2>5
  <2>6. ASSUME t \in About(r) PROVE r.mine /\ r.ok /\ Succeeded(r) /\ AlertFits(r, t)
    <3>1. ~r.mine => "failed" \in past[t]
      BY <2>1, <2>6 DEF RowsInv, RowInv, Clear, Calm, RowFits
    <3>2. "failed" \notin past'[t] /\ "failed" \notin past[t]
      BY <1>7, <2>1 DEF Calm
    <3> QED
      BY <1>4, <2>1, <2>6, <3>1, <3>2 DEF AllFit
  <2>7. CASE r.op \in Plain /\ alerts' = alerts
    BY <2>3, <2>4, <2>7
  <2>8. ASSUME t \in About(r), r.op \in Writes
        PROVE  /\ \A k \in DOMAIN requests' : t \notin About(requests'[k])
               /\ r.ticker = t
               /\ \A b \in Alerts : owner[b] = t => Has(b, t) \/ (r.op = "setAlert" /\ b \in r.result)
    <3>1. r.ticker = t /\ r.op # "alerts"
      BY <2>8 DEF About, Reads, Writes
    <3>2. \A j \in DOMAIN requests : t \in About(requests[j]) => j = i
      BY <2>1, <3>1 DEF Calm, RowsInv, RowInv, Clear, Lonely
    <3>3. \A q : q.op = "alerts" \/ q.ticker = t => t \in About(q)
      BY DEF About, Reads
    <3>4. r.ok
      BY <2>6, <2>8
    <3>5. \A b \in Alerts : owner[b] = t => Has(b, t) \/ Made(b, t)
      BY <2>1, <3>1, <3>2, <3>3, <3>4 DEF Accounted, ReadHas, OpenDelete, Open
    <3> QED
      BY <1>2, <3>1, <3>2, <3>3, <3>5 DEF Made, About
  <2>9. CASE t \in About(r) /\ r.op \in {"remove", "deleteAlert"} /\ alerts' = alerts
    <3>1. /\ \A k \in DOMAIN requests' : t \notin About(requests'[k])
          /\ \A b \in Alerts : owner[b] = t => Has(b, t)
      BY <2>8, <2>9 DEF Writes
    <3>2. OnceEach(t)' /\ AllShow(t)' /\ \A b : Has(b, t)' <=> Has(b, t)
      BY <1>4, <1>5, <2>1, <2>9, SameEntries
    <3> QED
      BY <1>4, <3>1, <3>2 DEF AlertInv, AllFit, Accounted, serverVars
  <2>10. CASE r.op = "unwatch" /\ t \in About(r)
    BY <2>6, <2>10 DEF AlertFits
  <2>11. ASSUME NEW a \in r.result, r.op = "setAlert",
                alerts' = Append(alerts, [id |-> a, ticker |-> r.ticker, triggered |-> FALSE])
         PROVE  AlertInv(t)'
    <3> DEFINE x == [id |-> a, ticker |-> r.ticker, triggered |-> FALSE]
               m == Len(alerts)
               en == [k \in 1..m |-> k]
    <3>1. x.id = a /\ x.ticker = r.ticker /\ ~x.triggered /\ a \in Alerts /\ r.result = {a}
      BY <1>5, <2>11 DEF Formed, Refers
    <3>2. /\ m \in Nat /\ DOMAIN alerts = 1..m /\ DOMAIN alerts' = 1..(m + 1)
          /\ \A k \in 1..m : alerts'[k] = alerts[k]
          /\ alerts'[m + 1] = x
          /\ m + 1 \in 1..(m + 1) /\ m + 1 \notin 1..m
      BY <1>5, <2>11
    <3> HIDE DEF x, m
    <3>3. \A k \in 1..(m + 1) : k \in 1..m \/ k = m + 1
      BY <3>2
    <3>4. CASE r.ticker # t
      <4>1. EntriesKept(t, en)
        BY <3>1, <3>2, <3>3, <3>4 DEF EntriesKept
      <4>2. t \notin About(r)
        BY <2>11, <3>4 DEF About, Reads
      <4> HIDE DEF en
      <4> QED
        BY <2>3, <4>1, <4>2
    <3>5. CASE r.ticker = t
      <4>1. t \in About(r) /\ r.op \in Writes
        BY <2>11, <3>5 DEF About, Reads, Writes
      <4>2. /\ \A k \in DOMAIN requests' : t \notin About(requests'[k])
            /\ \A b \in Alerts : owner[b] = t => Has(b, t) \/ b = a
        BY <2>8, <3>1, <4>1
      <4>3. owner[a] = t /\ ~Has(a, t) /\ (a \in fired => Coming(a))
        BY <2>6, <2>11, <4>1 DEF AlertFits
      <4>4. \A k \in 1..m : alerts[k].ticker = t => alerts[k].id # a
        BY <3>2, <4>3 DEF Has
      <4>5. OnceEach(t)'
        BY <2>1, <3>1, <3>2, <3>3, <4>4 DEF OnceEach
      <4>6. AllShow(t)'
        <5> SUFFICES ASSUME NEW k \in 1..(m + 1) PROVE ShowsNext(alerts'[k], t)
          BY <3>2 DEF AllShow, Shows, ShowsNext, Coming, ComingNext
        <5>1. \A y : Shows(y, t) => ShowsNext(y, t)
          BY <1>4 DEF Shows, ShowsNext, Coming, ComingNext, serverVars
        <5>2. CASE k \in 1..m
          BY <2>1, <3>2, <5>1, <5>2 DEF AllShow
        <5>3. CASE k = m + 1
          BY <3>1, <3>2, <4>3, <5>1, <5>3 DEF Shows
        <5> QED
          BY <3>3, <5>2, <5>3
      <4>7. \A b : Has(b, t) \/ b = a => Has(b, t)'
        BY <3>1, <3>2, <3>5 DEF Has
      <4>8. AllFit(t)' /\ Accounted(t)'
        BY <1>4, <4>2, <4>7 DEF AllFit, Accounted, serverVars
      <4> QED
        BY <4>5, <4>6, <4>8 DEF AlertInv
    <3> QED
      BY <3>4, <3>5
  <2>12. CASE r.op = "alerts" /\ alerts' = SetToSeq(r.result)
    <3>1. t \in About(r)
      BY <2>12 DEF About, Reads
    <3>2. /\ r.ok /\ (\A b \in Alerts : ~Has(b, t)) /\ \A x \in r.result : Shows(x, t)
      BY <2>6, <2>12, <3>1 DEF AlertFits
    <3>3. /\ alerts' \in Seq(r.result)
          /\ \A k, l \in DOMAIN alerts' : alerts'[k] = alerts'[l] => k = l
          /\ \A x \in r.result : \E k \in DOMAIN alerts' : alerts'[k] = x
      BY <1>5, <2>12, SetToSeqFacts DEF Formed
    <3>4. \A k \in DOMAIN alerts' : alerts'[k] \in r.result
      BY <3>3
    <3>5. OnceEach(t)'
      BY <1>5, <2>12, <3>3, <3>4 DEF OnceEach, Refers
    <3>6. AllShow(t)'
      <4>1. \A y : Shows(y, t) => ShowsNext(y, t)
        BY <1>4 DEF Shows, ShowsNext, Coming, ComingNext, serverVars
      <4>2. \A k \in DOMAIN alerts' : ShowsNext(alerts'[k], t)
        BY <3>2, <3>4, <4>1
      <4> QED
        BY <4>2 DEF AllShow, Shows, ShowsNext, Coming, ComingNext
    <3>7. \A j \in DOMAIN requests \ {i} : t \in About(requests[j]) => requests[j].op \in Plain
      <4> SUFFICES ASSUME NEW j \in DOMAIN requests \ {i}, t \in About(requests[j])
                   PROVE  requests[j].op \in Plain
        OBVIOUS
      <4>1. requests[j].ticker # t
        BY <2>1, <3>1 DEF Calm, RowsInv, RowInv, Clear, Lonely
      <4>2. requests[j].op \in Reads
        BY <4>1 DEF About
      <4>3. requests[j].op # "alerts"
        BY <2>12 DEF AlertsInv, OwnersRight, OneRead
      <4> QED
        BY <4>2, <4>3 DEF Reads, Plain
    <3>8. AllFit(t)'
      <4>1. \A k \in DOMAIN requests' : t \in About(requests'[k]) => requests'[k].op \in Plain
        BY <1>2, <3>7
      <4> QED
        BY <4>1 DEF AllFit, AlertFits, Plain
    <3>9. Accounted(t)'
      <4> SUFFICES ASSUME NEW b \in Alerts, owner[b] = t PROVE Has(b, t)'
        BY <1>4 DEF Accounted, serverVars
      <4>1. \A q : q.ticker = t => t \in About(q)
        BY <2>2 DEF About, Reads
      <4>2. ~Made(b, t) /\ ~OpenDelete(b, t) /\ ~Open("remove", t)
        BY <2>12, <3>7, <4>1 DEF Made, OpenDelete, Open, Plain
      <4>3. ReadHas(b, t)
        BY <2>1, <3>2, <4>2 DEF Accounted
      <4>4. \E x \in r.result : x.id = b /\ x.ticker = t
        BY <2>12, <3>2, <4>3 DEF ReadHas, AlertsInv, OwnersRight, OneRead
      <4> QED
        BY <3>3, <4>4 DEF Has
    <3> QED
      BY <3>5, <3>6, <3>8, <3>9 DEF AlertInv
  <2>13. CASE t \notin About(r) /\ alerts' # alerts
    <3>1. Succeeded(r)
      BY <1>4, <2>13
    <3> QED
      BY <2>11, <2>12, <2>13, <3>1, AlertsAnswered
  <2>14. CASE t \in About(r)
    <3>1. Succeeded(r)
      BY <2>6, <2>14
    <3> QED
      BY <2>7, <2>9, <2>10, <2>11, <2>12, <2>14, <3>1, AlertsAnswered
  <2> QED
    BY <2>5, <2>13, <2>14
<1>8. ASSUME NEW t \in Tickers PROVE AlertInv(t)'
  BY <1>7 DEF AlertInv
<1> QED
  BY <1>6, <1>8 DEF AlertsInv

\* A write that the page has given up says nothing to it any more.
LEMMA GivenUpAlerts ==
  ASSUME TypeInv, RowsInv, AlertsInv, NEW i \in DOMAIN requests, Throw(i), ~Gone(i)
  PROVE  AlertsInv'
<1> DEFINE r == requests[i]
           s == requests'[i]
<1>1. /\ DOMAIN requests' = DOMAIN requests
      /\ \A j \in DOMAIN requests \ {i} : requests'[j] = requests[j]
      /\ s.op = r.op /\ s.ticker = r.ticker /\ s.alert = r.alert
      /\ s.ok = r.ok /\ s.result = r.result
  BY FailedFacts
<1>2. ~r.ok
  BY DEF Throw, RowsInv, Sane
<1>3. /\ UNCHANGED <<serverVars, frames, alerts>>
      /\ \A t \in Tickers : /\ past[t] \subseteq past'[t]
                            /\ t \in About(r) => "failed" \in past'[t]
  <2>1. r.mine
    BY DEF Throw
  <2> QED
    BY <1>2, <2>1, EndFacts
<1>4. \A j \in DOMAIN requests : Alike(requests[j], requests'[j])
  BY <1>1 DEF Alike
<1> HIDE DEF r, s
<1>5. OwnersRight'
  <2>1. OwnersRight
    BY DEF AlertsInv
  <2>2. (Lists /\ FramesOwned /\ EntriesOwned)'
    BY <1>3, <2>1 DEF OwnersRight, Lists, FramesOwned, EntriesOwned, OwnerOf, serverVars
  <2>3. OneRead'
    BY <1>1, <1>4, <2>1 DEF OwnersRight, OneRead, Alike
  <2>4. \A j \in DOMAIN requests : Refers(requests[j])'
    BY <1>3, <1>4, <2>1 DEF OwnersRight, Refers, OwnerOf, Alike, serverVars
  <2> QED
    BY <1>1, <2>2, <2>3, <2>4 DEF OwnersRight
<1>6. ASSUME NEW t \in Tickers PROVE AlertInv(t)'
  <2>1. OwnersKept(t) /\ FiredKept(t) /\ EntriesKept(t, [k \in DOMAIN alerts |-> k])
    BY <1>3 DEF OwnersKept, FiredKept, EntriesKept, Coming, ComingNext, serverVars
  <2>2. \A j \in DOMAIN requests : t \in About(requests[j]) <=> t \in About(requests'[j])
    BY <1>4 DEF Alike, About
  <2>3. AsksKept(t)
    BY <1>1, <1>4, <2>2 DEF AsksKept
  <2>4. AlertInv(t)
    BY DEF AlertsInv
  <2> QED
    BY <1>3, <2>1, <2>3, <2>4, AlertFrame
<1> QED
  BY <1>5, <1>6 DEF AlertsInv

\* A page that is loaded anew has no alerts, and a read of them under way.
LEMMA ReloadAlerts ==
  ASSUME TypeInv, AlertsInv, Reload
  PROVE  AlertsInv'
<1> DEFINE m == Cardinality(Unseen)
<1>1. /\ m \in Nat /\ DOMAIN requests' = 1..(m + 3)
      /\ \A k \in 1..m : \E i \in Unseen :
           LET r == requests[i] s == requests'[k]
           IN /\ s.op = r.op /\ s.ticker = r.ticker /\ s.alert = r.alert /\ ~s.mine
              /\ s.state = r.state /\ s.ok = r.ok /\ s.result = r.result
      /\ requests'[m + 1] = Request("portfolio", None, None)
      /\ requests'[m + 2] = Request("watchlist", None, None)
      /\ requests'[m + 3] = Request("alerts", None, None)
      /\ past' = [t \in Tickers |-> IF \E i \in Unseen : requests[i].ticker = t
                                    THEN {"overlap"} ELSE {}]
  BY ReloadFacts
<1> HIDE DEF m
<1>2. alerts' = <<>> /\ frames' = <<>> /\ UNCHANGED serverVars
  BY DEF Reload
<1>3. \A k \in 1..(m + 3) : k \in 1..m \/ k = m + 1 \/ k = m + 2 \/ k = m + 3
  BY <1>1
<1>4. \A k \in 1..m : \E i \in Unseen : Alike(requests[i], requests'[k])
  BY <1>1 DEF Alike
<1>5. \A i \in Unseen : requests[i].op \in Writes /\ i \in DOMAIN requests
  BY DEF Unseen
<1>6. \A k \in 1..(m + 3) : k \in 1..m \/ /\ requests'[k].op \in Reads /\ ~requests'[k].ok
                                          /\ requests'[k].ticker = None
                                          /\ requests'[k].result = {}
                                          /\ requests'[k].op = "alerts" => k = m + 3
  BY <1>1, <1>3 DEF Request, Reads
<1>7. \A k \in 1..m : requests'[k].op \in Writes /\ requests'[k].op \notin Reads
  BY <1>4, <1>5 DEF Alike, Reads, Writes
<1>8. OwnersRight'
  <2>1. OwnersRight
    BY DEF AlertsInv
  <2>2. (Lists /\ FramesOwned /\ EntriesOwned)'
    BY <1>2, <2>1 DEF OwnersRight, Lists, FramesOwned, EntriesOwned, serverVars
  <2>3. OneRead'
    BY <1>1, <1>6, <1>7 DEF OneRead, Reads
  <2>4. ASSUME NEW k \in 1..(m + 3) PROVE Refers(requests[k])'
    <3>1. CASE k \in 1..m
      <4>1. PICK i \in Unseen : Alike(requests[i], requests'[k])
        BY <1>4, <3>1
      <4>2. Refers(requests[i])
        BY <1>5, <2>1 DEF OwnersRight
      <4> QED
        BY <1>2, <4>1, <4>2 DEF Refers, OwnerOf, Alike, serverVars
    <3>2. CASE k \notin 1..m
      BY <1>6, <3>2 DEF Refers, Reads
    <3> QED
      BY <3>1, <3>2
  <2> QED
    BY <1>1, <2>2, <2>3, <2>4 DEF OwnersRight
<1>9. ASSUME NEW t \in Tickers, Calm(t)' PROVE AlertInv(t)'
  <2>1. \A i \in Unseen : requests[i].ticker # t
    BY <1>1, <1>9 DEF Calm
  <2>2. \A k \in 1..m : t \notin About(requests'[k])
    BY <1>4, <1>7, <2>1 DEF About, Alike
  <2>3. \A b : ~Has(b, t)'
    BY <1>2 DEF Has
  <2>4. AllFit(t)'
    BY <1>1, <1>6, <2>2, <2>3 DEF AllFit, AlertFits, Reads
  <2>5. \A b : ReadHas(b, t)'
    <3>1. m + 3 \in DOMAIN requests'
      BY <1>1
    <3> QED
      BY <1>1, <3>1 DEF ReadHas, Request
  <2> QED
    BY <1>2, <2>4, <2>5 DEF AlertInv, OnceEach, AllShow, Accounted
<1>10. ASSUME NEW t \in Tickers PROVE AlertInv(t)'
  BY <1>9 DEF AlertInv
<1> QED
  BY <1>8, <1>10 DEF AlertsInv

\* Steps that leave the requests alone: an alert fires, a frame marks its entry or is lost.
LEMMA FrameAlerts ==
  ASSUME TypeInv, AlertsInv,
         \/ \E id \in toasts : Dismiss(id)
         \/ OnPriceAlert \/ LoseFrame
         \/ \E a \in Alerts : Fire(a)
         \/ UNCHANGED vars
  PROVE  AlertsInv'
<1>0. /\ OwnersRight /\ frames \in Seq(Alerts) /\ alerts \in Seq(Entry)
      /\ \A t \in Tickers : t # None
  BY DashboardAssumption DEF AlertsInv, TypeInv, FramesTyped, AlertsTyped
<1>1. UNCHANGED <<status, owner, requests>>
  BY DEF Dismiss, OnPriceAlert, LoseFrame, Fire, vars, serverVars, pageVars
<1>2. Lists' /\ OneRead' /\ \A k \in DOMAIN requests' : Refers(requests[k])'
  BY <1>0, <1>1 DEF OwnersRight, Lists, OneRead, Refers, OwnerOf
<1>3. ASSUME FramesOwned', UNCHANGED <<alerts, past>>, \A t \in Tickers : FiredKept(t)
      PROVE  AlertsInv'
  <2>1. EntriesOwned'
    BY <1>0, <1>1, <1>3 DEF OwnersRight, EntriesOwned, OwnerOf
  <2>2. ASSUME NEW t \in Tickers PROVE AlertInv(t)'
    <3>1. OwnersKept(t) /\ EntriesKept(t, [k \in DOMAIN alerts |-> k]) /\ AsksKept(t)
      BY <1>1, <1>3 DEF OwnersKept, EntriesKept, AsksKept, Alike
    <3>2. AlertInv(t) /\ FiredKept(t) /\ past[t] \subseteq past'[t]
      BY <1>3 DEF AlertsInv
    <3> QED
      BY <3>1, <3>2, AlertFrame
  <2> QED
    BY <1>2, <1>3, <2>1, <2>2 DEF AlertsInv, OwnersRight
<1>4. CASE (\E id \in toasts : Dismiss(id)) \/ UNCHANGED vars
  <2>1. UNCHANGED <<fired, frames, alerts, past>>
    BY <1>4 DEF Dismiss, vars, serverVars, pageVars
  <2>2. FramesOwned' /\ \A t \in Tickers : FiredKept(t)
    BY <1>0, <1>1, <2>1 DEF OwnersRight, FramesOwned, FiredKept, Coming, ComingNext
  <2> QED
    BY <1>3, <2>1, <2>2
<1>5. ASSUME NEW a \in Alerts, Fire(a) PROVE AlertsInv'
  <2>1. fired' = fired \cup {a} /\ UNCHANGED <<alerts, past>>
    BY <1>5 DEF Fire, pageVars
  <2> DEFINE n == Len(frames)
  <2>2. /\ n \in Nat /\ DOMAIN frames = 1..n /\ DOMAIN frames' = 1..(n + 1)
        /\ \A k \in 1..n : frames'[k] = frames[k]
        /\ frames'[n + 1] = a
        /\ 1..n \subseteq 1..(n + 1) /\ n + 1 \in 1..(n + 1)
    BY <1>0, <1>5 DEF Fire
  <2> HIDE DEF n
  <2>3. \A k \in 1..(n + 1) : k \in 1..n \/ k = n + 1
    BY <2>2
  <2>4. FramesOwned'
    BY <1>0, <1>1, <2>1, <2>2, <2>3 DEF OwnersRight, FramesOwned
  <2>5. ComingNext(a) /\ \A b : Coming(b) => ComingNext(b)
    BY <2>2 DEF Coming, ComingNext
  <2>6. \A t \in Tickers : FiredKept(t)
    BY <2>1, <2>5 DEF FiredKept
  <2> QED
    BY <1>3, <2>1, <2>4, <2>6
<1>6. ASSUME OnPriceAlert \/ LoseFrame
      PROVE  /\ FramesOwned'
             /\ owner[Head(frames)] # None => Head(frames) \in fired
             /\ \A b : Coming(b) /\ b # Head(frames) => ComingNext(b)
             /\ fired' = fired
  <2> DEFINE n == Len(frames)
  <2>1. frames' = Tail(frames) /\ frames # <<>> /\ fired' = fired
    BY <1>6 DEF OnPriceAlert, LoseFrame, serverVars
  <2>2. /\ n \in Nat /\ DOMAIN frames = 1..n /\ DOMAIN frames' = 1..(n - 1)
        /\ \A k \in 1..(n - 1) : frames'[k] = frames[k + 1] /\ k + 1 \in 1..n
        /\ 1 \in 1..n /\ Head(frames) = frames[1]
        /\ \A k \in 1..n : k = 1 \/ (k - 1 \in 1..(n - 1) /\ (k - 1) + 1 = k)
    BY <1>0, <2>1
  <2> HIDE DEF n
  <2>3. FramesOwned'
    BY <1>0, <1>1, <2>1, <2>2 DEF OwnersRight, FramesOwned
  <2>4. owner[Head(frames)] # None => Head(frames) \in fired
    BY <1>0, <2>2 DEF OwnersRight, FramesOwned
  <2>5. \A b : Coming(b) /\ b # Head(frames) => ComingNext(b)
    <3> SUFFICES ASSUME NEW k \in 1..n, frames[k] # Head(frames) PROVE ComingNext(frames[k])
      BY <2>2 DEF Coming
    <3>1. k - 1 \in 1..(n - 1) /\ (k - 1) + 1 = k
      BY <2>2
    <3>2. frames'[k - 1] = frames[k]
      BY <2>2, <3>1
    <3> QED
      BY <2>2, <3>1, <3>2 DEF ComingNext
  <2> QED
    BY <2>1, <2>3, <2>4, <2>5
<1>7. CASE LoseFrame
  <2>1. alerts' = alerts /\ Mark(Tickers, {"missed"})
    BY <1>7 DEF LoseFrame, pageVars
  <2>2. \A t \in Tickers : "missed" \in past'[t]
    BY <2>1 DEF Mark
  <2>3. EntriesOwned'
    BY <1>0, <1>1, <2>1 DEF OwnersRight, EntriesOwned, OwnerOf
  <2>4. \A t \in Tickers : AlertInv(t)'
    BY <2>2 DEF AlertInv, Calm
  <2> QED
    BY <1>2, <1>6, <1>7, <2>3, <2>4 DEF AlertsInv, OwnersRight
<1>8. CASE OnPriceAlert
  <2>0. PICK a \in Alerts : a = Head(frames)
    BY <1>8, MarkedFacts DEF TypeInv
  <2>1. /\ DOMAIN alerts' = DOMAIN alerts
        /\ \A k \in DOMAIN alerts :
             /\ alerts'[k].id = alerts[k].id /\ alerts'[k].ticker = alerts[k].ticker
             /\ alerts'[k].triggered = (alerts[k].id = a \/ alerts[k].triggered)
    BY <1>8, <2>0, MarkedFacts DEF TypeInv
  <2>2. EntriesOwned'
    BY <1>0, <1>1, <2>1 DEF OwnersRight, EntriesOwned, OwnerOf
  <2>3. ASSUME NEW t \in Tickers, Calm(t)' PROVE AlertInv(t)'
    <3>1. Mark(IF \E k \in DOMAIN alerts : alerts[k].id = a THEN {} ELSE Tickers, {"missed"})
      BY <1>8, <2>0 DEF OnPriceAlert
    <3>2. past[t] \subseteq past'[t] /\ \E k \in DOMAIN alerts : alerts[k].id = a
      BY <2>3, <3>1 DEF Mark, Calm
    <3>3. OnceEach(t) /\ AllShow(t) /\ AllFit(t) /\ Accounted(t)
      BY <2>3, <3>2 DEF AlertsInv, AlertInv, Calm
    <3>4. owner[a] = t => Has(a, t) /\ a \in fired
      BY <1>0, <1>6, <1>8, <2>0, <3>2 DEF OwnersRight, EntriesOwned, OwnerOf, Has
    <3>5. OnceEach(t)' /\ \A b : Has(b, t)' <=> Has(b, t)
      BY <2>1, <3>3 DEF OnceEach, Has
    <3>6. AllShow(t)'
      <4> SUFFICES ASSUME NEW k \in DOMAIN alerts, alerts[k].ticker = t
                   PROVE  /\ owner[alerts[k].id] = t
                          /\ alerts'[k].triggered => alerts[k].id \in fired
                          /\ alerts[k].id \in fired => alerts'[k].triggered \/ ComingNext(alerts[k].id)
        BY <1>1, <1>6, <1>8, <2>1 DEF AllShow, Shows, Coming, ComingNext
      <4>1. /\ owner[alerts[k].id] = t
            /\ alerts[k].triggered => alerts[k].id \in fired
            /\ alerts[k].id \in fired => alerts[k].triggered \/ Coming(alerts[k].id)
        BY <3>3 DEF AllShow, Shows
      <4>2. alerts'[k].triggered = (alerts[k].id = a \/ alerts[k].triggered)
        BY <2>1
      <4> QED
        BY <1>6, <1>8, <2>0, <3>4, <4>1, <4>2
    <3>7. ASSUME NEW j \in DOMAIN requests', t \in About(requests'[j])
          PROVE  AlertFits(requests[j], t)'
      <4>1. requests'[j] = requests[j] /\ AlertFits(requests[j], t) /\ Formed(requests[j])
        BY <1>1, <3>3, <3>7 DEF AllFit, TypeInv, RequestsTyped
      <4>2. requests[j].op = "alerts" /\ requests[j].ok => \A x \in requests[j].result : ShowsNext(x, t)
        <5> SUFFICES ASSUME requests[j].op = "alerts", requests[j].ok, NEW x \in requests[j].result
                     PROVE  ShowsNext(x, t)
          OBVIOUS
        <5>1. Shows(x, t) /\ ~Has(a, t)
          BY <4>1 DEF AlertFits
        <5> QED
          BY <1>1, <1>6, <1>8, <2>0, <3>4, <5>1 DEF Shows, ShowsNext
      <4>3. requests[j].op = "setAlert" => \A b \in requests[j].result :
              owner[b] = t /\ ~Has(b, t) /\ (b \in fired' => ComingNext(b))
        BY <1>6, <1>8, <2>0, <3>4, <4>1 DEF AlertFits
      <4> QED
        BY <1>1, <3>5, <4>1, <4>2, <4>3 DEF AlertFits, Has, Shows, ShowsNext, Coming, ComingNext
    <3>8. AllFit(t)'
      BY <3>7 DEF AllFit
    <3>9. Accounted(t)'
      BY <1>1, <3>3, <3>5 DEF Accounted, ReadHas, Made, OpenDelete, Open
    <3> QED
      BY <3>5, <3>6, <3>8, <3>9 DEF AlertInv
  <2>4. \A t \in Tickers : AlertInv(t)'
    BY <2>3 DEF AlertInv
  <2> QED
    BY <1>2, <1>6, <1>8, <2>2, <2>4 DEF AlertsInv, OwnersRight
<1> QED
  BY <1>4, <1>5, <1>7, <1>8

\* At first no alert has an owner that the page knows of, and their read is under way.
LEMMA AlertsStart == Init => AlertsInv
<1> SUFFICES ASSUME Init PROVE AlertsInv
  OBVIOUS
<1>1. /\ DOMAIN requests = 1..3
      /\ requests[1] = Request("portfolio", None, None)
      /\ requests[2] = Request("watchlist", None, None)
      /\ requests[3] = Request("alerts", None, None)
      /\ alerts = <<>> /\ frames = <<>> /\ \A a \in Alerts : owner[a] = None
  BY DEF Init, Load
<1>2. \A k \in DOMAIN requests : /\ requests[k].op \in Reads /\ ~requests[k].ok
                                 /\ requests[k].result = {}
                                 /\ requests[k].op = "alerts" => k = 3
  BY <1>1 DEF Request, Reads
<1>3. OwnersRight
  BY <1>1, <1>2 DEF OwnersRight, Lists, FramesOwned, EntriesOwned, OneRead, Refers, Reads
<1>4. ASSUME NEW t \in Tickers PROVE AlertInv(t)
  <2>1. t # None /\ \A b : ~Has(b, t)
    BY <1>1, DashboardAssumption DEF Has
  <2>2. AllFit(t)
    BY <1>2, <2>1 DEF AllFit, AlertFits, Reads
  <2> QED
    BY <1>1, <2>1, <2>2 DEF AlertInv, OnceEach, AllShow, Accounted
<1> QED
  BY <1>3, <1>4 DEF AlertsInv

\* In every reachable state each alert of the server's that belongs to a calm ticker is on
\* the page or accounted for by a request, and each entry on the page says what is true of
\* it, or will be when the frames on their way are in.
LEMMA AlertsInvHolds == Spec => [](TypeInv /\ RowsInv /\ AlertsInv)
<1>1. TypeInv /\ RowsInv /\ AlertsInv /\ [Next]_vars => AlertsInv'
  <2> SUFFICES ASSUME TypeInv, RowsInv, AlertsInv, [Next]_vars PROVE AlertsInv'
    OBVIOUS
  <2>1. CASE \/ \E id \in toasts : Dismiss(id)
             \/ OnPriceAlert \/ LoseFrame
             \/ \E a \in Alerts : Fire(a)
             \/ UNCHANGED vars
    BY <2>1, FrameAlerts
  <2>2. CASE Reload
    BY <2>2, ReloadAlerts
  <2>3. ASSUME NEW i \in DOMAIN requests, Serve(i) \/ Answer(i) \/ Throw(i) \/ Forgotten(i)
        PROVE  AlertsInv'
    <3>1. CASE Gone(i) /\ ~Serve(i)
      BY <2>3, <3>1, LeaveAlerts
    <3>2. CASE ~Gone(i) /\ ~Serve(i)
      BY <2>3, <3>2, GivenUpAlerts DEF Answer, Forgotten
    <3> QED
      BY <2>3, <3>1, <3>2, ServeAlerts
  <2> QED
    BY <2>1, <2>2, <2>3, UserAlerts DEF Next
<1> QED
  BY <1>1, AlertsStart, RowsInvHolds, PTL DEF Spec

\* Once nothing is in flight, the page has each alert of the server once, in the row of its
\* ticker, with a chip that says whether it fired, and its badge counts those that did:
\* AlertsAgree, for any number of tickers, alerts and requests.
THEOREM AlertsAgreeHolds == Spec => []AlertsAgree
<1>1. TypeInv /\ RowsInv /\ AlertsInv => AlertsAgree
  <2> SUFFICES ASSUME TypeInv, RowsInv, AlertsInv, AtRest PROVE AlertsAgree
    BY DEF AlertsAgree
  <2>1. /\ DOMAIN requests = {} /\ DOMAIN frames = {} /\ alerts \in Seq(Entry)
        /\ owner \in [Alerts -> Tickers \cup {None}] /\ fired \subseteq Alerts
        /\ \A a \in fired : owner[a] # None
    BY DEF AtRest, TypeInv, AlertsTyped, ServerTyped
  <2>2. ASSUME NEW t \in Tickers, Calm(t)
        PROVE  /\ OnceEach(t)
               /\ \A k \in DOMAIN alerts : alerts[k].ticker = t =>
                    owner[alerts[k].id] = t /\ (alerts[k].triggered <=> alerts[k].id \in fired)
               /\ \A a \in Alerts : owner[a] = t => Has(a, t)
    <3>1. OnceEach(t) /\ AllShow(t) /\ Accounted(t)
      BY <2>2 DEF AlertsInv, AlertInv
    <3>2. \A a : ~Coming(a) /\ ~ReadHas(a, t) /\ ~Made(a, t) /\ ~OpenDelete(a, t) /\ ~Open("remove", t)
      BY <2>1 DEF Coming, ReadHas, Made, OpenDelete, Open
    <3> QED
      BY <3>1, <3>2 DEF AllShow, Shows, Accounted
  <2>3. \A k \in DOMAIN alerts : alerts[k] \in Entry
    BY <2>1
  <2>4. ASSUME NEW t \in Tickers, Calm(t)
        PROVE  /\ Range(Chips(t)) = {[id |-> a, title |-> IF a \in fired THEN "fired" ELSE "watching"] :
                                     a \in {b \in Alerts : owner[b] = t}}
               /\ IsInjective(AlertsOf(t))
               /\ AlertsOf(t) # <<>> => t \in portfolio \cup watchlist
    <3> DEFINE I == {i \in DOMAIN alerts : alerts[i].ticker = t}
               m == Cardinality(I)
               mine == AlertsOf(t)
               Chip(a) == [id |-> a, title |-> IF a \in fired THEN "fired" ELSE "watching"]
    <3>1. /\ m \in Nat /\ DOMAIN mine = 1..m
          /\ \A k \in 1..m : Nth(I, k) \in I /\ mine[k] = alerts[Nth(I, k)]
          /\ \A k, l \in 1..m : Nth(I, k) = Nth(I, l) => k = l
          /\ \A i \in I : \E k \in 1..m : Nth(I, k) = i
      <4>1. mine = Keep(alerts, I)
        BY DEF AlertsOf
      <4> HIDE DEF I, mine
      <4>2. I \subseteq DOMAIN alerts
        BY DEF I
      <4>3. /\ m \in 0..Len(alerts) /\ mine \in Seq(Entry) /\ Len(mine) = m
            /\ \A k \in 1..m : Nth(I, k) \in I /\ mine[k] = alerts[Nth(I, k)]
            /\ \A k, l \in 1..m : Nth(I, k) = Nth(I, l) => k = l
            /\ \A i \in I : \E k \in 1..m : Nth(I, k) = i
        BY <2>1, <4>1, <4>2, KeepFacts
      <4> HIDE DEF m
      <4>4. Len(alerts) \in Nat
        BY <2>1
      <4>5. m \in Nat /\ DOMAIN mine = 1..m
        BY <4>3, <4>4
      <4> QED
        BY <4>3, <4>5
    <3>2. \A i \in I : alerts[i].ticker = t /\ i \in DOMAIN alerts
      OBVIOUS
    <3> HIDE DEF I, m
    <3>3. IsInjective(mine)
      BY <2>2, <2>4, <3>1, <3>2 DEF IsInjective, OnceEach
    <3>4. Chips(t) = [k \in 1..m |-> [id |-> mine[k].id,
                                      title |-> IF mine[k].triggered THEN "fired" ELSE "watching"]]
      BY <3>1 DEF Chips
    <3>5. \A k \in 1..m : Chips(t)[k] = Chip(mine[k].id) /\ mine[k].id \in Alerts /\ owner[mine[k].id] = t
      <4> SUFFICES ASSUME NEW k \in 1..m
                   PROVE  Chips(t)[k] = Chip(mine[k].id) /\ mine[k].id \in Alerts /\ owner[mine[k].id] = t
        OBVIOUS
      <4>1. PICK i \in I : mine[k] = alerts[i]
        BY <3>1
      <4>2. owner[alerts[i].id] = t /\ (alerts[i].triggered <=> alerts[i].id \in fired)
        BY <2>2, <2>4, <3>2
      <4>3. alerts[i].id \in Alerts
        BY <2>3, <3>2 DEF Entry
      <4> HIDE DEF mine
      <4> QED
        BY <3>4, <4>1, <4>2, <4>3
    <3>6. \A a \in Alerts : owner[a] = t => \E k \in 1..m : mine[k].id = a
      <4> SUFFICES ASSUME NEW a \in Alerts, owner[a] = t PROVE \E k \in 1..m : mine[k].id = a
        OBVIOUS
      <4>1. PICK i \in DOMAIN alerts : alerts[i].id = a /\ alerts[i].ticker = t
        BY <2>2, <2>4 DEF Has
      <4>2. i \in I
        BY <4>1 DEF I
      <4> QED
        BY <3>1, <4>1, <4>2
    <3>7. Range(Chips(t)) = {Chip(a) : a \in {b \in Alerts : owner[b] = t}}
      <4>1. Range(Chips(t)) = {Chips(t)[k] : k \in 1..m}
        BY <3>4 DEF Range
      <4> HIDE DEF mine, Chip
      <4> QED
        BY <3>5, <3>6, <4>1
    <3>8. mine # <<>> => t \in portfolio \cup watchlist
      <4> SUFFICES ASSUME mine # <<>> PROVE t \in portfolio \cup watchlist
        OBVIOUS
      <4>1. \E k \in 1..m : TRUE
        <5>1. m = 0 => mine = <<>>
          BY <3>1 DEF AlertsOf, Keep
        <5> HIDE DEF mine
        <5> QED
          BY <3>1, <5>1
      <4>2. status[t] # "none" /\ status[t] \in {"none", "held", "watched"}
        <5>1. \E b \in Alerts : owner[b] = t
          BY <3>5, <4>1
        <5>2. t # None /\ Lists /\ status \in [Tickers -> {"none", "held", "watched"}]
          BY DashboardAssumption DEF AlertsInv, OwnersRight, TypeInv, ServerTyped
        <5> QED
          BY <5>1, <5>2 DEF Lists
      <4>3. RowRight(t) /\ "failed" \notin past[t]
        BY <2>4 DEF RowsInv, RowInv, Clear, Calm
      <4> QED
        BY <2>1, <4>2, <4>3 DEF RowRight, Open, Reading
    <3> QED
      BY <3>3, <3>7, <3>8
  <2>5. ASSUME \A t \in Tickers : Calm(t)
        PROVE  Badge = Cardinality(fired)
    <3> DEFINE T == {i \in DOMAIN alerts : alerts[i].triggered}
               f == [i \in T |-> alerts[i].id]
    <3>1. \A i \in DOMAIN alerts : /\ alerts[i].ticker \in Tickers
                                   /\ owner[alerts[i].id] = alerts[i].ticker
                                   /\ alerts[i].triggered <=> alerts[i].id \in fired
      <4>1. \A i \in DOMAIN alerts : alerts[i].ticker \in Tickers
        BY <2>3 DEF Entry
      <4> QED
        BY <2>2, <2>5, <4>1
    <3>2. \A i, j \in T : f[i] = f[j] => i = j
      BY <2>2, <2>5, <3>1 DEF OnceEach
    <3>3. f \in [T -> fired]
      BY <3>1
    <3>4. \A a \in fired : \E i \in T : f[i] = a
      <4> SUFFICES ASSUME NEW a \in fired PROVE \E i \in T : f[i] = a
        OBVIOUS
      <4>1. a \in Alerts /\ owner[a] \in Tickers
        BY <2>1
      <4>2. Has(a, owner[a])
        BY <2>2, <2>5, <4>1
      <4> QED
        BY <3>1, <4>2 DEF Has
    <3>5. f \in Bijection(T, fired)
      BY <3>2, <3>3, <3>4 DEF Bijection, Injection, Surjection, IsInjective
    <3>6. IsFiniteSet(T)
      <4>1. Len(alerts) \in Nat /\ T \subseteq 1..Len(alerts)
        BY <2>1
      <4> QED
        BY <4>1, FS_Interval, FS_Subset
    <3>7. ExistsBijection(T, fired)
      BY <3>5 DEF ExistsBijection
    <3> HIDE DEF T
    <3>8. Cardinality(fired) = Cardinality(T)
      BY <3>6, <3>7, FS_Bijection
    <3> QED
      BY <3>8 DEF Badge, T
  <2> QED
    BY <2>4, <2>5 DEF AlertsAgree, Calm
<1> QED
  BY <1>1, AlertsInvHolds, PTL
==============================================================================
