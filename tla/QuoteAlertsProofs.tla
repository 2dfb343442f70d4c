-------------------------- MODULE QuoteAlertsProofs --------------------------
(***************************************************************************)
(* Proofs about the quotes of a ticker on their way to its alerts, for any *)
(* prices and targets and any number of quotes, calls of on_quote in       *)
(* progress and alerts: an alert is pushed no more often than there are    *)
(* calls, not lost unless a broadcast raised, and no crossing is missed.   *)
(***************************************************************************)
EXTENDS QuoteAlerts, FiniteSetTheorems, TLAPS

\* A call t has the data its next step uses, and none is left when it is over.
RecordOK(t) ==
  /\ t.pc = "idle" => t = Idle
  /\ t.pc # "idle" => t.price # None
  /\ t.pc \in {"listIds", "readAlert", "mark", "notify"} => t.prev # None
  /\ t.pc = "mark" => t.fire # {}
  /\ t.pc = "notify" <=> t.now # None
  /\ t.pc \in {"readAlert", "mark", "notify"} \/ t.fire = {}
  /\ t.now \notin t.fire

TypeInv == TypeOK /\ \A k \in Tasks : RecordOK(task[k])

\* A call that will push alert a, if nothing raises.
Holds(t, a) == a \in t.fire \/ t.now = a
HoldersIn(tasks, a) == {k \in Tasks : Holds(tasks[k], a)}
Holders(a) == HoldersIn(task, a)

\* Yahoo's poller awaits one quote before it makes the next.
OneAtATime ==
  feed = "yahoo" =>
    \A j, k \in Tasks : task[j].pc = "idle" \/ task[k].pc = "idle" \/ j = k

-----------------------------------------------------------------------------
(* One call's step                                                         *)

\* A call that goes to another label keeps its data.
LEMMA Going ==
  ASSUME TypeInv, NEW k \in Tasks, NEW l \in Labels, Goto(k, l)
  PROVE  /\ task' \in [Tasks -> Records]
         /\ \A j \in Tasks \ {k} : task'[j] = task[j]
         /\ task'[k].pc = l /\ task'[k].price = task[k].price /\ task'[k].prev = task[k].prev
         /\ task'[k].ids = task[k].ids /\ task'[k].fire = task[k].fire
         /\ task'[k].now = task[k].now /\ task'[k].seq = task[k].seq
<1>1. task \in [Tasks -> Records] /\ task[k] \in Records
  BY DEF TypeInv, TypeOK
<1> DEFINE t == [task[k] EXCEPT !.pc = l]
<1>2. task' = [task EXCEPT ![k] = t]
  BY <1>1 DEF Goto
<1>3. t \in Records /\ t.pc = l /\ t.price = task[k].price /\ t.prev = task[k].prev
      /\ t.ids = task[k].ids /\ t.fire = task[k].fire /\ t.now = task[k].now /\ t.seq = task[k].seq
  BY <1>1 DEF Records
<1> HIDE DEF t
<1> QED
  BY <1>1, <1>2, <1>3

\* A call that is over is as good as new.
LEMMA Ending ==
  ASSUME TypeInv, NEW k \in Tasks, End(k)
  PROVE  /\ task' \in [Tasks -> Records] /\ task'[k] = Idle /\ RecordOK(Idle)
         /\ \A j \in Tasks \ {k} : task'[j] = task[j]
         /\ \A a \in Alerts : ~Holds(Idle, a)
         /\ Idle.pc = "idle" /\ Idle.now = None
<1>1. task \in [Tasks -> Records]
  BY DEF TypeInv, TypeOK
<1>2. Idle \in Records
  BY BoundsAssumption DEF Idle, Records, Labels
<1>3. RecordOK(Idle) /\ Idle.pc = "idle" /\ Idle.now = None /\ \A a \in Alerts : ~Holds(Idle, a)
  BY PricesAssumption DEF Idle, RecordOK, Holds
<1> QED
  BY <1>1, <1>2, <1>3 DEF End

\* What on_quote does with the price.
LEMMA Recording ==
  ASSUME TypeInv, NEW k \in Tasks, Record(k), task[k].pc \in {"holding", "watchlist", "broadcast"}
  PROVE  /\ task' \in [Tasks -> Records] /\ RecordOK(task'[k])
         /\ \A j \in Tasks \ {k} : task'[j] = task[j]
         /\ task'[k].now = None /\ \A a \in Alerts : ~Holds(task'[k], a)
         /\ lastPrice = None => task'[k] = Idle
         /\ lastPrice # None => /\ task'[k].pc = "listIds" /\ task'[k].prev = lastPrice
                                /\ task'[k].price = task[k].price
         /\ lastPrice' = task[k].price /\ lastPrice' \in Prices
         /\ lastSeq' = task[k].seq /\ lastSeq' \in 0..MaxTicks /\ newest' = newest
         /\ base' \in [Alerts -> Prices \cup {None}]
<1>1. /\ task \in [Tasks -> Records] /\ task[k] \in Records /\ RecordOK(task[k])
      /\ lastPrice \in Prices \cup {None} /\ base \in [Alerts -> Prices \cup {None}]
  BY DEF TypeInv, TypeOK
<1>2. /\ task[k].price \in Prices /\ task[k].fire = {} /\ task[k].now = None
      /\ task[k].seq \in 0..MaxTicks
  BY <1>1 DEF RecordOK, Records
<1>3. /\ lastPrice' = task[k].price /\ lastSeq' = task[k].seq /\ newest' = newest
      /\ base' \in [Alerts -> Prices \cup {None}]
  BY <1>1, <1>2 DEF Record
<1>4. CASE lastPrice = None
  <2>1. End(k)
    BY <1>4 DEF Record
  <2> QED
    BY <1>2, <1>3, <1>4, <2>1, Ending
<1>5. CASE lastPrice # None
  <2> DEFINE t == [[task[k] EXCEPT !.pc = "listIds"] EXCEPT !.prev = lastPrice]
  <2>1. task' = [task EXCEPT ![k] = t]
    BY <1>1, <1>5 DEF Record
  <2>2. /\ t \in Records /\ t.pc = "listIds" /\ t.prev = lastPrice /\ t.price = task[k].price
        /\ t.fire = {} /\ t.now = None
    BY <1>1, <1>2, <1>5 DEF Records, Labels
  <2> HIDE DEF t
  <2>3. RecordOK(t) /\ \A a \in Alerts : ~Holds(t, a)
    BY <1>2, <1>5, <2>2, PricesAssumption DEF RecordOK, Holds
  <2> QED
    BY <1>1, <1>2, <1>3, <1>5, <2>1, <2>2, <2>3
<1> QED
  BY <1>4, <1>5

\* Reading an alert takes it from those to read, and may fire it.
LEMMA Reading ==
  ASSUME TypeInv, NEW k \in Tasks, NEW a \in Alerts, ReadAlert(k, a), alert[a] # "ghost"
  PROVE  /\ task' \in [Tasks -> Records]
         /\ \A j \in Tasks \ {k} : task'[j] = task[j]
         /\ task'[k].pc = "readAlert" /\ task'[k].ids = task[k].ids \ {a}
         /\ task'[k].price = task[k].price /\ task'[k].prev = task[k].prev
         /\ task'[k].now = task[k].now
         /\ task'[k].fire = IF alert[a] = "armed" /\ Crossed(task[k].prev, task[k].price, Target[a])
                            THEN task[k].fire \cup {a} ELSE task[k].fire
<1>1. task \in [Tasks -> Records] /\ task[k] \in Records /\ task[k].pc = "readAlert"
  BY DEF TypeInv, TypeOK, ReadAlert
<1> DEFINE f == IF alert[a] = "armed" /\ Crossed(task[k].prev, task[k].price, Target[a])
                THEN task[k].fire \cup {a} ELSE task[k].fire
           t == [[task[k] EXCEPT !.ids = task[k].ids \ {a}] EXCEPT !.fire = f]
<1>2. task' = [task EXCEPT ![k] = t]
  BY <1>1 DEF ReadAlert
<1>3. f \in SUBSET Alerts
  BY <1>1 DEF Records
<1> HIDE DEF f
<1>4. /\ t \in Records /\ t.pc = "readAlert" /\ t.ids = task[k].ids \ {a}
      /\ t.price = task[k].price /\ t.prev = task[k].prev /\ t.now = task[k].now /\ t.fire = f
  BY <1>1, <1>3 DEF Records
<1> HIDE DEF t
<1>5. task'[k] = t /\ \A j \in Tasks \ {k} : task'[j] = task[j]
  BY <1>1, <1>2
<1>6. task' \in [Tasks -> Records]
  BY <1>1, <1>2, <1>4
<1> QED
  BY <1>4, <1>5, <1>6 DEF f

\* Marking an alert leaves the others to be notified after it.
LEMMA Marking ==
  ASSUME TypeInv, NEW k \in Tasks, NEW a \in Alerts, MarkTriggered(k, a)
  PROVE  /\ task' \in [Tasks -> Records]
         /\ \A j \in Tasks \ {k} : task'[j] = task[j]
         /\ task'[k].pc = "notify" /\ task'[k].now = a /\ task'[k].fire = task[k].fire \ {a}
         /\ task'[k].price = task[k].price /\ task'[k].prev = task[k].prev
<1>1. task \in [Tasks -> Records] /\ task[k] \in Records
  BY DEF TypeInv, TypeOK
<1> DEFINE t == [[[task[k] EXCEPT !.pc = "notify"] EXCEPT !.now = a]
                  EXCEPT !.fire = task[k].fire \ {a}]
<1>2. task' = [task EXCEPT ![k] = t]
  BY <1>1 DEF MarkTriggered
<1>3. /\ t \in Records /\ t.pc = "notify" /\ t.now = a /\ t.fire = task[k].fire \ {a}
      /\ t.price = task[k].price /\ t.prev = task[k].prev
  BY <1>1 DEF Records, Labels
<1> HIDE DEF t
<1> QED
  BY <1>1, <1>2, <1>3

\* After an alert comes the next one, or the end.
LEMMA GoingOn ==
  ASSUME TypeInv, NEW k \in Tasks, NextAlert(k), task[k].fire # {}
  PROVE  /\ task' \in [Tasks -> Records]
         /\ \A j \in Tasks \ {k} : task'[j] = task[j]
         /\ task'[k].pc = "mark" /\ task'[k].now = None /\ task'[k].fire = task[k].fire
         /\ task'[k].price = task[k].price /\ task'[k].prev = task[k].prev
<1>1. task \in [Tasks -> Records] /\ task[k] \in Records
  BY DEF TypeInv, TypeOK
<1> DEFINE t == [[task[k] EXCEPT !.pc = "mark"] EXCEPT !.now = None]
<1>2. task' = [task EXCEPT ![k] = t]
  BY <1>1 DEF NextAlert
<1>3. /\ t \in Records /\ t.pc = "mark" /\ t.now = None /\ t.fire = task[k].fire
      /\ t.price = task[k].price /\ t.prev = task[k].prev
  BY <1>1 DEF Records, Labels
<1> HIDE DEF t
<1> QED
  BY <1>1, <1>2, <1>3

\* A step of a call keeps its data in order, is no step of another's, and holds an alert only
\* if it did before or the alert is armed.
LEMMA CallStep ==
  ASSUME TypeInv, NEW k \in Tasks, QuoteStep(k) \/ \E p \in Prices : Arrive(k, p)
  PROVE  /\ task' \in [Tasks -> Records] /\ RecordOK(task'[k])
         /\ \A j \in Tasks \ {k} : task'[j] = task[j]
         /\ \A a \in Alerts : Holds(task'[k], a) => Holds(task[k], a) \/ alert[a] = "armed"
         /\ task'[k].now = None \/ \E a \in Alerts : MarkTriggered(k, a) /\ task'[k].now = a
<1> DEFINE Goal == /\ task' \in [Tasks -> Records] /\ RecordOK(task'[k])
                   /\ \A j \in Tasks \ {k} : task'[j] = task[j]
                   /\ \A a \in Alerts : Holds(task'[k], a) => Holds(task[k], a) \/ alert[a] = "armed"
                   /\ \/ task'[k].now = None
                      \/ \E a \in Alerts : MarkTriggered(k, a) /\ task'[k].now = a
<1>0. task \in [Tasks -> Records] /\ task[k] \in Records /\ RecordOK(task[k])
  BY DEF TypeInv, TypeOK
<1>1. CASE \E p \in Prices : Arrive(k, p)
  <2>1. PICK p \in Prices : Arrive(k, p)
    BY <1>1
  <2> DEFINE t == [[[Idle EXCEPT !.pc = "holding"] EXCEPT !.price = p] EXCEPT !.seq = ticks + 1]
  <2>2. task' = [task EXCEPT ![k] = t] /\ ticks < MaxTicks /\ ticks \in 0..MaxTicks
    BY <2>1 DEF Arrive, TypeInv, TypeOK
  <2>3. t \in Records /\ t.pc = "holding" /\ t.price = p /\ t.fire = {} /\ t.now = None
    <3>1. ticks + 1 \in 0..MaxTicks /\ 0 \in 0..MaxTicks
      BY <2>2, BoundsAssumption
    <3>2. Idle \in Records /\ Idle.fire = {} /\ Idle.now = None
      BY <3>1 DEF Idle, Records, Labels
    <3> QED
      BY <3>1, <3>2 DEF Records, Labels
  <2> HIDE DEF t
  <2>4. RecordOK(t) /\ \A a \in Alerts : ~Holds(t, a)
    BY <2>3, PricesAssumption DEF RecordOK, Holds
  <2> QED
    BY <1>0, <2>2, <2>3, <2>4
<1>2. CASE End(k)
  BY <1>2, Ending
<1>3. CASE Record(k) /\ task[k].pc \in {"holding", "watchlist", "broadcast"}
  BY <1>3, Recording
<1>4. CASE Goto(k, "broadcast") /\ task[k].pc \in {"holding", "watchlist"}
  BY <1>0, <1>4, Going, PricesAssumption DEF RecordOK, Holds, Labels
<1>5. CASE Goto(k, "watchlist") /\ task[k].pc = "holding"
  BY <1>0, <1>5, Going, PricesAssumption DEF RecordOK, Holds, Labels
<1>6. CASE ListIds(k)
  <2> DEFINE ids == {a \in Alerts : Indexed(a)}
             t == [[task[k] EXCEPT !.pc = "readAlert"] EXCEPT !.ids = ids]
  <2>1. task' = [task EXCEPT ![k] = t] /\ task[k].pc = "listIds"
    BY <1>0, <1>6 DEF ListIds
  <2>2. /\ t \in Records /\ t.pc = "readAlert" /\ t.price = task[k].price /\ t.prev = task[k].prev
        /\ t.fire = task[k].fire /\ t.now = task[k].now
    BY <1>0 DEF Records, Labels
  <2> HIDE DEF t
  <2>3. RecordOK(t) /\ t.now = None /\ \A a \in Alerts : Holds(t, a) => Holds(task[k], a)
    BY <1>0, <2>1, <2>2 DEF RecordOK, Holds
  <2> QED
    BY <1>0, <2>1, <2>2, <2>3
<1>7. ASSUME NEW a \in Alerts, ReadAlert(k, a), alert[a] # "ghost" PROVE Goal
  <2>1. task[k].pc = "readAlert" /\ task[k].now = None
    BY <1>0, <1>7 DEF ReadAlert, RecordOK
  <2>2. /\ task' \in [Tasks -> Records]
        /\ \A j \in Tasks \ {k} : task'[j] = task[j]
        /\ task'[k].pc = "readAlert" /\ task'[k].price = task[k].price
        /\ task'[k].prev = task[k].prev /\ task'[k].now = task[k].now
        /\ \A b \in task'[k].fire : b \in task[k].fire \/ (b = a /\ alert[a] = "armed")
    <3>1. task'[k].fire \subseteq task[k].fire \cup {a}
          /\ (alert[a] # "armed" => task'[k].fire = task[k].fire)
      BY <1>7, Reading
    <3>2. \A b \in task'[k].fire : b \in task[k].fire \/ (b = a /\ alert[a] = "armed")
      BY <3>1
    <3> QED
      BY <1>7, <3>2, Reading
  <2>3. RecordOK(task'[k])
    <3>1. None \notin task'[k].fire
      BY <2>2, PricesAssumption DEF Records
    <3> QED
      BY <1>0, <2>1, <2>2, <3>1 DEF RecordOK
  <2> QED
    BY <2>1, <2>2, <2>3 DEF Holds
<1>8. CASE Goto(k, "mark") /\ task[k].pc = "readAlert" /\ task[k].fire # {}
  BY <1>0, <1>8, Going DEF RecordOK, Holds, Labels
<1>9. ASSUME NEW a \in Alerts, MarkTriggered(k, a) PROVE Goal
  <2>1. task[k].pc = "mark" /\ a \in task[k].fire
    BY <1>9 DEF MarkTriggered
  <2>2. RecordOK(task'[k])
    BY <1>0, <1>9, <2>1, Marking, PricesAssumption DEF RecordOK
  <2> QED
    BY <1>9, <2>1, <2>2, Marking DEF Holds
<1>10. CASE NextAlert(k) /\ task[k].pc = "notify" /\ task[k].fire # {}
  <2>1. RecordOK(task'[k])
    <3>1. None \notin task[k].fire
      BY <1>0, PricesAssumption DEF Records
    <3> QED
      BY <1>0, <1>10, <3>1, GoingOn DEF RecordOK
  <2> QED
    BY <1>10, <2>1, GoingOn, PricesAssumption DEF Holds
<1>11. CASE QuoteStep(k)
  BY <1>2, <1>3, <1>4, <1>5, <1>6, <1>7, <1>8, <1>9, <1>10, <1>11
  DEF QuoteStep, ReadHolding, ReadWatchlist, Publish, Broadcast, BroadcastRaises, ReadAlert,
      ReadDone, Notify, NotifyRaises, NextAlert
<1> QED
  BY <1>1, <1>11

-----------------------------------------------------------------------------
(* Types                                                                   *)

\* In the initial state nothing has happened.
LEMMA InitTypes == Init => TypeInv /\ OneAtATime
<1> SUFFICES ASSUME Init PROVE TypeInv /\ OneAtATime
  OBVIOUS
<1>1. /\ Idle \in Records /\ Idle.pc = "idle" /\ Idle.fire = {} /\ Idle.now = None
      /\ RecordOK(Idle)
  BY BoundsAssumption DEF Idle, Records, Labels, RecordOK
<1>2. held \in BOOLEAN /\ watched \in BOOLEAN
  BY Zenon DEF Init
<1>3. TypeOK
  BY <1>1, <1>2, BoundsAssumption DEF Init, TypeOK, AlertStates
<1> QED
  BY <1>1, <1>3 DEF Init, TypeInv, OneAtATime

\* Every step keeps the types.
LEMMA StepTypes ==
  ASSUME TypeInv, [Next]_vars
  PROVE  TypeInv'
<1>0. /\ TypeOK
      /\ \A k \in Tasks : task[k] \in Records /\ RecordOK(task[k])
  BY DEF TypeInv, TypeOK
<1>1. /\ task' \in [Tasks -> Records]
      /\ \A k \in Tasks : RecordOK(task'[k])
  <2>1. CASE \E k \in Tasks : QuoteStep(k) \/ \E p \in Prices : Arrive(k, p)
    BY <1>0, <2>1, CallStep
  <2>2. CASE UNCHANGED task
    BY <1>0, <2>2 DEF TypeOK
  <2> QED
    BY <2>1, <2>2 DEF Next, CreateAlert, DeleteAlert, MoveList, vars
<1>2. feed' = feed /\ held' \in BOOLEAN /\ watched' \in BOOLEAN
  <2>1. feed' = feed /\ (UNCHANGED <<held, watched>> \/ MoveList)
    BY DEF Next, QuoteStep, Arrive, ReadHolding, ReadWatchlist, Broadcast, BroadcastRaises,
           ListIds, ReadAlert, ReadDone, MarkTriggered, Notify, NotifyRaises, CreateAlert,
           DeleteAlert, MoveList, vars, lists
  <2>2. held' \in {held, TRUE, FALSE} /\ watched' \in {watched, FALSE, ~watched}
    BY <2>1, Zenon DEF MoveList
  <2> QED
    BY <1>0, <2>1, <2>2, Zenon DEF TypeOK
<1>3. /\ {lastPrice', lastEmitted'} \subseteq Prices \cup {None}
      /\ lastSeq' \in 0..MaxTicks /\ base' \in [Alerts -> Prices \cup {None}]
      /\ newest' \in [rivals : SUBSET (0..MaxTicks), excused : BOOLEAN]
  <2>1. lastEmitted' \in Prices \cup {None}
    BY <1>0 DEF Next, Arrive, Poll, TypeOK, vars
  <2>2. ASSUME NEW k \in Tasks, Record(k), task[k].pc \in {"holding", "watchlist", "broadcast"}
        PROVE  lastPrice' \in Prices /\ lastSeq' \in 0..MaxTicks
               /\ base' \in [Alerts -> Prices \cup {None}]
    BY <2>2, Recording
  <2>3. \/ UNCHANGED <<lastPrice, lastSeq, base>>
        \/ \E a \in Alerts : /\ base' = [base EXCEPT ![a] = lastPrice]
                             /\ UNCHANGED <<lastPrice, lastSeq>>
        \/ \E k \in Tasks : Record(k) /\ task[k].pc \in {"holding", "watchlist", "broadcast"}
    BY DEF Next, QuoteStep, Arrive, ReadHolding, ReadWatchlist, Publish, Broadcast,
           BroadcastRaises, ListIds, ReadAlert, ReadDone, MarkTriggered, Notify, NotifyRaises,
           CreateAlert, DeleteAlert, MoveList, vars, history
  <2>4. newest' \in [rivals : SUBSET (0..MaxTicks), excused : BOOLEAN]
    <3>1. CASE \E k \in Tasks, p \in Prices : Arrive(k, p)
      <4>1. /\ newest' = [rivals |-> {task[j].seq : j \in {i \in Tasks : Coming(i)}},
                          excused |-> ~held /\ ~watched]
        BY <3>1 DEF Arrive
      <4>2. {task[j].seq : j \in {i \in Tasks : Coming(i)}} \subseteq 0..MaxTicks
        BY <1>0 DEF Records
      <4> QED
        BY <4>1, <4>2
    <3>2. ASSUME NEW e, newest' = [newest EXCEPT !.excused = @ \/ e], e \in BOOLEAN
          PROVE  newest' \in [rivals : SUBSET (0..MaxTicks), excused : BOOLEAN]
      BY <1>0, <3>2 DEF TypeOK
    <3>3. \/ \E k \in Tasks, p \in Prices : Arrive(k, p)
          \/ UNCHANGED newest
          \/ \E e \in BOOLEAN : newest' = [newest EXCEPT !.excused = @ \/ e]
      <4>1. ASSUME NEW k \in Tasks, BroadcastRaises(k)
            PROVE  \E e \in BOOLEAN : newest' = [newest EXCEPT !.excused = @ \/ e]
        BY <4>1, Zenon DEF BroadcastRaises
      <4>2. ASSUME MoveList
            PROVE  \E e \in BOOLEAN : newest' = [newest EXCEPT !.excused = @ \/ e]
        BY <4>2, Zenon DEF MoveList
      <4> QED
        BY <4>1, <4>2
        DEF Next, QuoteStep, ReadHolding, ReadWatchlist, Publish, Broadcast, Record, ListIds,
            ReadAlert, ReadDone, MarkTriggered, Notify, NotifyRaises, CreateAlert, DeleteAlert,
            vars, history
    <3> QED
      BY <1>0, <3>1, <3>2, <3>3 DEF TypeOK
  <2> QED
    BY <1>0, <2>1, <2>2, <2>3, <2>4 DEF TypeOK
<1>4. /\ ticks' \in 0..MaxTicks /\ moves' \in 0..MaxMoves /\ raises' \in 0..MaxRaises
  <2>1. /\ UNCHANGED ticks \/ (ticks < MaxTicks /\ ticks' = ticks + 1)
        /\ UNCHANGED moves \/ (moves < MaxMoves /\ moves' = moves + 1)
        /\ UNCHANGED raises \/ (raises < MaxRaises /\ raises' = raises + 1)
    BY DEF Next, QuoteStep, Arrive, ReadHolding, ReadWatchlist, Broadcast, BroadcastRaises,
           ListIds, ReadAlert, ReadDone, MarkTriggered, Notify, NotifyRaises, CreateAlert,
           DeleteAlert, MoveList, vars, bounds
  <2> QED
    BY <1>0, <2>1, BoundsAssumption DEF TypeOK
<1>5. alert' \in [Alerts -> AlertStates]
  <2>1. \/ UNCHANGED alert
        \/ \E a \in Alerts, s \in AlertStates : alert' = [alert EXCEPT ![a] = s]
    BY DEF Next, QuoteStep, Arrive, ReadHolding, ReadWatchlist, Broadcast, BroadcastRaises,
           ListIds, ReadAlert, ReadDone, MarkTriggered, Notify, NotifyRaises, CreateAlert,
           DeleteAlert, MoveList, vars, AlertStates
  <2> QED
    BY <1>0, <2>1 DEF TypeOK
<1>6. pushes' \in [Alerts -> Nat]
  <2>1. \/ UNCHANGED pushes
        \/ \E a : pushes' = [pushes EXCEPT ![a] = pushes[a] + 1]
    BY DEF Next, QuoteStep, Arrive, ReadHolding, ReadWatchlist, Broadcast, BroadcastRaises,
           ListIds, ReadAlert, ReadDone, MarkTriggered, Notify, NotifyRaises, CreateAlert,
           DeleteAlert, MoveList, vars
  <2> QED
    BY <1>0, <2>1 DEF TypeOK
<1>7. TypeOK'
  BY <1>0, <1>1, <1>2, <1>3, <1>4, <1>5, <1>6 DEF TypeOK, RecordOK
<1> QED
  BY <1>1, <1>7 DEF TypeInv

\* Every variable keeps to its values, and a call in progress has the data its next step
\* uses, however many are in progress.
THEOREM QuoteTypeCorrect == Spec => []TypeOK
<1>1. TypeInv => TypeOK
  BY DEF TypeInv
<1> QED
  BY <1>1, InitTypes, StepTypes, PTL DEF Spec

\* The poller's quotes do not overlap.
LEMMA StepOneAtATime ==
  ASSUME TypeInv, OneAtATime, [Next]_vars
  PROVE  OneAtATime'
<1>1. feed' = feed
  BY DEF Next, QuoteStep, Arrive, ReadHolding, ReadWatchlist, Broadcast, BroadcastRaises,
         ListIds, ReadAlert, ReadDone, MarkTriggered, Notify, NotifyRaises, CreateAlert,
         DeleteAlert, MoveList, vars, lists
<1>2. CASE \E k \in Tasks, p \in Prices : Arrive(k, p)
  <2>1. PICK k \in Tasks, p \in Prices : Arrive(k, p)
    BY <1>2
  <2>2. \A j \in Tasks \ {k} : task'[j] = task[j]
    BY <2>1, CallStep
  <2>3. feed = "yahoo" => \A j \in Tasks : task[j].pc = "idle"
    BY <2>1 DEF Arrive, Poll, Quiet
  <2> QED
    BY <1>1, <2>2, <2>3 DEF OneAtATime
<1>3. ASSUME NEW k \in Tasks, QuoteStep(k) PROVE OneAtATime'
  <2>1. \A j \in Tasks \ {k} : task'[j] = task[j]
    BY <1>3, CallStep
  <2>2. task[k].pc # "idle"
    BY <1>3 DEF QuoteStep, ReadHolding, ReadWatchlist, Broadcast, BroadcastRaises, ListIds,
                ReadAlert, ReadDone, MarkTriggered, Notify, NotifyRaises
  <2> QED
    BY <1>1, <2>1, <2>2 DEF OneAtATime
<1>4. CASE UNCHANGED task
  BY <1>1, <1>4 DEF OneAtATime
<1> QED
  BY <1>2, <1>3, <1>4 DEF Next, CreateAlert, DeleteAlert, MoveList, vars

-----------------------------------------------------------------------------
(* Pushes                                                                  *)

\* PushesBounded's bound.
LimitOf(f) == IF f = "yahoo" THEN 1 ELSE Cardinality(Tasks)
Limit == LimitOf(feed)

\* What makes PushesBounded inductive: once an alert is marked no call fires it anew, so
\* the pushes it has had and those it will have are bounded by the calls in progress then.
PushInv ==
  \A a \in Alerts :
    /\ alert[a] \in {"new", "armed"} => /\ pushes[a] = 0
                                        /\ \A k \in Tasks : task[k].now # a
    /\ pushes[a] + Cardinality(Holders(a)) <= Limit

\* An alert is held by no more of the calls than may be in progress.
LEMMA HoldersBounded ==
  ASSUME NEW tasks, \A k \in Tasks : RecordOK(tasks[k]),
         NEW f, f = "yahoo" =>
           \A j, k \in Tasks : tasks[j].pc = "idle" \/ tasks[k].pc = "idle" \/ j = k,
         NEW a \in Alerts
  PROVE  /\ IsFiniteSet(HoldersIn(tasks, a)) /\ Cardinality(HoldersIn(tasks, a)) \in Nat
         /\ Cardinality(HoldersIn(tasks, a)) <= LimitOf(f)
<1> DEFINE H == HoldersIn(tasks, a)
<1>1. H \subseteq Tasks
  BY DEF HoldersIn
<1>2. /\ IsFiniteSet(H) /\ Cardinality(H) \in Nat
      /\ Cardinality(H) <= Cardinality(Tasks)
  BY <1>1, TasksAssumption, FS_Subset, FS_CardinalityType
<1>3. CASE f = "yahoo"
  <2>1. \A k \in H : tasks[k].pc # "idle"
    BY PricesAssumption DEF RecordOK, HoldersIn, Holds, Idle
  <2>2. \A j, k \in H : j = k
    BY <1>1, <1>3, <2>1
  <2>3. CASE H = {}
    BY <1>2, <1>3, <2>3, FS_EmptySet DEF LimitOf
  <2>4. CASE H # {}
    <3>0. PICK k \in H : TRUE
      BY <2>4
    <3>1. H = {k}
      BY <2>2, <3>0
    <3>2. Cardinality(H) = 1
      BY <3>1, FS_Singleton
    <3> QED
      BY <1>2, <1>3, <3>2 DEF LimitOf
  <2> QED
    BY <2>3, <2>4
<1> QED
  BY <1>2, <1>3 DEF LimitOf

\* What a step does to an alert, its pushes and the calls that hold it.
LEMMA PushStep ==
  ASSUME TypeInv, PushInv, [Next]_vars, NEW a \in Alerts
  PROVE  \/ alert'[a] \in {"new", "armed"} /\ alert[a] \in {"new", "armed"}
            /\ pushes'[a] = pushes[a] /\ \A k \in Tasks : task'[k].now # a
         \/ alert[a] \in {"new", "armed"} /\ alert'[a] \notin {"new", "armed"}
            /\ pushes'[a] = pushes[a]
         \/ alert[a] \notin {"new", "armed"} /\ alert'[a] \notin {"new", "armed"}
            /\ \/ pushes'[a] = pushes[a] /\ Holders(a)' \subseteq Holders(a)
               \/ \E k \in Holders(a) : /\ pushes'[a] = pushes[a] + 1
                                        /\ Holders(a)' \subseteq Holders(a) \ {k}
<1> DEFINE Goal ==
         \/ alert'[a] \in {"new", "armed"} /\ alert[a] \in {"new", "armed"}
            /\ pushes'[a] = pushes[a] /\ \A k \in Tasks : task'[k].now # a
         \/ alert[a] \in {"new", "armed"} /\ alert'[a] \notin {"new", "armed"}
            /\ pushes'[a] = pushes[a]
         \/ alert[a] \notin {"new", "armed"} /\ alert'[a] \notin {"new", "armed"}
            /\ \/ pushes'[a] = pushes[a] /\ Holders(a)' \subseteq Holders(a)
               \/ \E k \in Holders(a) : /\ pushes'[a] = pushes[a] + 1
                                        /\ Holders(a)' \subseteq Holders(a) \ {k}
<1>0. /\ alert \in [Alerts -> AlertStates] /\ pushes \in [Alerts -> Nat]
      /\ alert[a] \in {"new", "armed"} => \A k \in Tasks : task[k].now # a
  BY DEF TypeInv, TypeOK, PushInv
<1>1. ASSUME NEW k \in Tasks, NEW c \in Alerts, MarkTriggered(k, c)
      PROVE  Goal
  <2>1. /\ alert'[c] \in {"triggered", "ghost"} /\ pushes' = pushes
        /\ c # a => alert'[a] = alert[a]
    BY <1>0, <1>1 DEF MarkTriggered
  <2>2. QuoteStep(k)
    BY <1>1 DEF QuoteStep
  <2>3. Holders(a)' \subseteq Holders(a) \/ alert[a] = "armed"
    BY <2>2, CallStep DEF Holders, HoldersIn
  <2>4. task'[k].now = c /\ \A j \in Tasks \ {k} : task'[j] = task[j]
    BY <1>1, Marking
  <2> QED
    BY <1>0, <2>1, <2>3, <2>4
<1>2. ASSUME NEW k \in Tasks, Notify(k)
      PROVE  Goal
  <2>1. QuoteStep(k)
    BY <1>2 DEF QuoteStep
  <2>2. /\ alert' = alert /\ task[k].now # None
        /\ pushes' = [pushes EXCEPT ![task[k].now] = pushes[task[k].now] + 1]
    BY <1>2 DEF Notify, TypeInv, RecordOK
  <2>3. ~Holds(task'[k], task[k].now)
    <3>1. CASE task[k].fire = {}
      <4>1. End(k)
        BY <1>2, <3>1 DEF Notify, NextAlert
      <4>2. task[k].now \in Alerts
        BY <2>2 DEF TypeInv, TypeOK, Records
      <4> QED
        BY <4>1, <4>2, Ending
    <3>2. CASE task[k].fire # {}
      <4>1. task'[k].now = None /\ task'[k].fire = task[k].fire
        BY <1>2, <3>2, GoingOn DEF Notify
      <4> QED
        BY <2>2, <4>1 DEF Holds, TypeInv, RecordOK
    <3> QED
      BY <3>1, <3>2
  <2>4. /\ Holders(a)' \subseteq Holders(a) \/ alert[a] = "armed"
        /\ \A j \in Tasks : task'[j].now = a => task[j].now = a
    <3>1. ~ \E c \in Alerts : MarkTriggered(k, c)
      BY <1>2 DEF Notify, MarkTriggered
    <3>2. /\ \A j \in Tasks \ {k} : task'[j] = task[j]
          /\ Holds(task'[k], a) => Holds(task[k], a) \/ alert[a] = "armed"
          /\ task'[k].now = None
      BY <2>1, <3>1, CallStep
    <3> QED
      BY <3>2, PricesAssumption DEF Holders, HoldersIn
  <2>5. CASE task[k].now = a
    <3>1. k \in Holders(a) /\ k \notin Holders(a)' /\ pushes'[a] = pushes[a] + 1
      BY <1>0, <2>2, <2>3, <2>5 DEF Holders, HoldersIn, Holds
    <3> QED
      BY <1>0, <2>2, <2>4, <2>5, <3>1
  <2>6. CASE task[k].now # a
    BY <1>0, <2>2, <2>4, <2>6
  <2> QED
    BY <2>5, <2>6
<1>3. ASSUME NEW k \in Tasks, QuoteStep(k) \/ \E p \in Prices : Arrive(k, p),
             ~Notify(k), ~ \E c \in Alerts : MarkTriggered(k, c)
      PROVE  Goal
  <2>1. UNCHANGED <<alert, pushes>>
    BY <1>3 DEF QuoteStep, Arrive, ReadHolding, ReadWatchlist, Broadcast, BroadcastRaises,
                ListIds, ReadAlert, ReadDone, NotifyRaises
  <2>2. /\ \A j \in Tasks \ {k} : task'[j] = task[j]
        /\ Holds(task'[k], a) => Holds(task[k], a) \/ alert[a] = "armed"
        /\ task'[k].now = None
    BY <1>3, CallStep
  <2>3. Holders(a)' \subseteq Holders(a) \/ alert[a] = "armed"
    BY <2>2 DEF Holders, HoldersIn
  <2> QED
    BY <1>0, <2>1, <2>2, <2>3, PricesAssumption
<1>4. CASE UNCHANGED <<task, pushes>> /\ (UNCHANGED alert \/ MoveList
               \/ \E c \in Alerts : CreateAlert(c) \/ DeleteAlert(c))
  <2>1. Holders(a)' = Holders(a)
    BY <1>4 DEF Holders, HoldersIn
  <2>2. alert'[a] \in {"new", "armed"} => alert[a] \in {"new", "armed"}
    BY <1>0, <1>4 DEF CreateAlert, DeleteAlert, MoveList
  <2> QED
    BY <1>0, <1>4, <2>1, <2>2
<1> QED
  BY <1>1, <1>2, <1>3, <1>4 DEF Next, CreateAlert, DeleteAlert, MoveList, vars

\* Every step keeps the pushes bounded.
LEMMA StepPushes ==
  ASSUME TypeInv, TypeInv', OneAtATime', PushInv, [Next]_vars
  PROVE  PushInv'
<1> SUFFICES ASSUME NEW a \in Alerts
             PROVE  /\ alert'[a] \in {"new", "armed"} => /\ pushes'[a] = 0
                                                         /\ \A k \in Tasks : task'[k].now # a
                    /\ pushes'[a] + Cardinality(Holders(a)') <= Limit'
  BY DEF PushInv
<1>0. /\ alert[a] \in {"new", "armed"} => pushes[a] = 0
      /\ pushes[a] + Cardinality(Holders(a)) <= Limit
      /\ pushes[a] \in Nat /\ pushes'[a] \in Nat
  BY DEF PushInv, TypeInv, TypeOK
<1>1. /\ IsFiniteSet(Holders(a)') /\ Cardinality(Holders(a)') \in Nat
      /\ Cardinality(Holders(a)') <= Limit'
  BY HoldersBounded DEF TypeInv, OneAtATime, Holders, Limit
<1>2. Limit' = Limit /\ Limit \in Int
  <2>1. feed' = feed
    BY DEF Next, QuoteStep, Arrive, ReadHolding, ReadWatchlist, Broadcast, BroadcastRaises,
           ListIds, ReadAlert, ReadDone, MarkTriggered, Notify, NotifyRaises, CreateAlert,
           DeleteAlert, MoveList, vars, lists
  <2>2. Cardinality(Tasks) \in Nat
    BY TasksAssumption, FS_CardinalityType
  <2> QED
    BY <2>1, <2>2 DEF Limit, LimitOf
<1>3. CASE pushes'[a] = 0
  BY <1>0, <1>1, <1>3, PushStep
<1>4. CASE pushes'[a] # 0
  <2>1. alert'[a] \notin {"new", "armed"}
    BY <1>0, <1>4, PushStep
  <2>2. IsFiniteSet(Holders(a)) /\ Cardinality(Holders(a)) \in Nat
    <3>1. Holders(a) \subseteq Tasks
      BY DEF Holders, HoldersIn
    <3> QED
      BY <3>1, TasksAssumption, FS_Subset, FS_CardinalityType
  <2>3. CASE pushes'[a] = pushes[a] /\ Holders(a)' \subseteq Holders(a)
    <3>1. Cardinality(Holders(a)') <= Cardinality(Holders(a))
      BY <2>2, <2>3, FS_Subset
    <3> QED
      BY <1>0, <1>1, <1>2, <2>1, <2>2, <2>3, <3>1
  <2>4. ASSUME NEW k \in Holders(a), pushes'[a] = pushes[a] + 1,
               Holders(a)' \subseteq Holders(a) \ {k}
        PROVE  pushes'[a] + Cardinality(Holders(a)') <= Limit'
    <3>1. /\ IsFiniteSet(Holders(a) \ {k})
          /\ Cardinality(Holders(a) \ {k}) = Cardinality(Holders(a)) - 1
      BY <2>2, FS_RemoveElement
    <3>2. Cardinality(Holders(a)') <= Cardinality(Holders(a) \ {k})
      BY <2>4, <3>1, FS_Subset
    <3> QED
      BY <1>0, <1>1, <1>2, <2>2, <2>4, <3>1, <3>2
  <2> QED
    BY <1>0, <1>4, <2>1, <2>3, <2>4, PushStep
<1> QED
  BY <1>3, <1>4

\* An alert is pushed once if its quotes are handled in turn, and otherwise at most once by
\* each call of on_quote in progress, however quotes and requests interleave.
THEOREM PushesHold == Spec => []PushesBounded
<1>1. Init => PushInv
  <2> SUFFICES ASSUME Init, NEW a \in Alerts
               PROVE  /\ pushes[a] = 0 /\ \A k \in Tasks : task[k].now # a
                      /\ pushes[a] + Cardinality(Holders(a)) <= Limit
    BY DEF PushInv
  <2>1. pushes[a] = 0 /\ \A k \in Tasks : task[k].now # a
    BY PricesAssumption DEF Init, Idle
  <2>2. Cardinality(Holders(a)) \in Nat /\ Cardinality(Holders(a)) <= Limit
    BY InitTypes, HoldersBounded DEF TypeInv, OneAtATime, Holders, Limit
  <2> QED
    BY <2>1, <2>2
<1>2. TypeInv /\ OneAtATime /\ PushInv => PushesBounded
  <2> SUFFICES ASSUME TypeInv, OneAtATime, PushInv, NEW a \in Alerts
               PROVE  pushes[a] <= Limit
    BY DEF PushesBounded, Limit, LimitOf
  <2>1. pushes[a] \in Nat /\ Limit \in Int
    BY TasksAssumption, FS_CardinalityType DEF TypeInv, TypeOK, Limit, LimitOf
  <2>2. Cardinality(Holders(a)) \in Nat
    BY HoldersBounded DEF TypeInv, OneAtATime, Holders
  <2> QED
    BY <2>1, <2>2 DEF PushInv
<1> QED
  BY <1>1, <1>2, InitTypes, StepTypes, StepOneAtATime, StepPushes, PTL DEF Spec

-----------------------------------------------------------------------------
(* Alerts that are lost                                                    *)

\* Marked, not pushed, and no call is about to.
Lost == {a \in Alerts : /\ alert[a] = "triggered" /\ pushes[a] = 0
                        /\ \A k \in Tasks : task[k].now # a}
LostInv == IsFiniteSet(Lost) /\ Cardinality(Lost) <= raises

\* Only a broadcast that raises loses an alert, the one it was to tell of.
LEMMA LostStep ==
  ASSUME TypeInv, [Next]_vars
  PROVE  \/ Lost' \subseteq Lost /\ raises' \in {raises, raises + 1}
         \/ \E a \in Alerts : Lost' \subseteq Lost \cup {a} /\ raises' = raises + 1
<1> DEFINE Goal == \/ Lost' \subseteq Lost /\ raises' \in {raises, raises + 1}
                   \/ \E a \in Alerts : Lost' \subseteq Lost \cup {a} /\ raises' = raises + 1
<1>0. /\ alert \in [Alerts -> AlertStates] /\ pushes \in [Alerts -> Nat]
      /\ \A k \in Tasks : /\ task[k] \in Records /\ RecordOK(task[k])
                          /\ task[k].now \in Alerts \cup {None}
  BY DEF TypeInv, TypeOK, Records
<1>1. ASSUME NEW k \in Tasks, NEW c \in Alerts, MarkTriggered(k, c)
      PROVE  Goal
  <2>1. /\ pushes' = pushes /\ raises' = raises
        /\ \A a \in Alerts \ {c} : alert'[a] = alert[a]
    BY <1>0, <1>1 DEF MarkTriggered, bounds
  <2>2. task'[k].now = c /\ \A j \in Tasks \ {k} : task'[j] = task[j]
    BY <1>1, Marking
  <2>3. \A a \in Alerts : task[k].now # a
    BY <1>0, <1>1, PricesAssumption DEF MarkTriggered, RecordOK
  <2> QED
    BY <2>1, <2>2, <2>3 DEF Lost
<1>2. ASSUME NEW k \in Tasks, Notify(k) \/ NotifyRaises(k)
      PROVE  Goal
  <2>1. alert' = alert /\ task[k].now \in Alerts
    BY <1>0, <1>2 DEF Notify, NotifyRaises, RecordOK
  <2>2. \A j \in Tasks \ {k} : task'[j] = task[j]
    BY <1>2, CallStep DEF QuoteStep
  <2>3. Lost' \subseteq Lost \cup {task[k].now}
    <3>1. \A a \in Alerts \ {task[k].now} : pushes'[a] = pushes[a]
      BY <1>0, <1>2 DEF Notify, NotifyRaises
    <3> QED
      BY <2>1, <2>2, <3>1 DEF Lost
  <2>4. CASE Notify(k)
    <3>1. pushes'[task[k].now] # 0 /\ raises' = raises
      BY <1>0, <2>1, <2>4 DEF Notify, bounds
    <3>2. task[k].now \notin Lost'
      BY <3>1 DEF Lost
    <3> QED
      BY <2>3, <3>1, <3>2
  <2>5. CASE NotifyRaises(k)
    BY <2>1, <2>3, <2>5 DEF NotifyRaises
  <2> QED
    BY <1>2, <2>4, <2>5
<1>3. ASSUME NEW k \in Tasks, QuoteStep(k) \/ \E p \in Prices : Arrive(k, p),
             ~Notify(k), ~NotifyRaises(k), ~ \E c \in Alerts : MarkTriggered(k, c)
      PROVE  Goal
  <2>1. UNCHANGED <<alert, pushes>> /\ raises' \in {raises, raises + 1} /\ task[k].pc # "notify"
    BY <1>3 DEF QuoteStep, Arrive, ReadHolding, ReadWatchlist, Broadcast, BroadcastRaises,
                ListIds, ReadAlert, ReadDone, bounds
  <2>2. \A j \in Tasks \ {k} : task'[j] = task[j]
    BY <1>3, CallStep
  <2>3. \A a \in Alerts : task[k].now # a
    BY <1>0, <2>1, PricesAssumption DEF RecordOK
  <2> QED
    BY <2>1, <2>2, <2>3 DEF Lost
<1>4. CASE UNCHANGED <<task, pushes, raises>> /\ (UNCHANGED alert \/ MoveList
               \/ \E c \in Alerts : CreateAlert(c) \/ DeleteAlert(c))
  <2>1. \A a \in Alerts : alert'[a] = "triggered" => alert[a] = "triggered"
    BY <1>0, <1>4 DEF CreateAlert, DeleteAlert, MoveList
  <2> QED
    BY <1>4, <2>1 DEF Lost
<1> QED
  BY <1>1, <1>2, <1>3, <1>4 DEF Next, CreateAlert, DeleteAlert, MoveList, vars, bounds

\* The user does not lose a one-shot alert, but for one at most for every broadcast that
\* raised: overlapping calls, and requests between two of a call's steps, lose none.
THEOREM TriggeredHolds == Spec => []TriggeredIsPushed
<1>1. Init => LostInv
  <2> SUFFICES ASSUME Init PROVE LostInv
    OBVIOUS
  <2>1. Lost = {}
    BY DEF Init, Lost
  <2> QED
    BY <2>1, FS_EmptySet DEF LostInv, Init
<1>2. TypeInv /\ LostInv /\ [Next]_vars => LostInv'
  <2> SUFFICES ASSUME TypeInv, LostInv, [Next]_vars PROVE LostInv'
    OBVIOUS
  <2>0. raises \in Nat /\ IsFiniteSet(Lost) /\ Cardinality(Lost) \in Nat /\ Cardinality(Lost) <= raises
    BY BoundsAssumption, FS_CardinalityType DEF TypeInv, TypeOK, LostInv
  <2>1. CASE Lost' \subseteq Lost /\ raises' \in {raises, raises + 1}
    <3>1. /\ IsFiniteSet(Lost') /\ Cardinality(Lost') \in Nat
          /\ Cardinality(Lost') <= Cardinality(Lost)
      BY <2>0, <2>1, FS_Subset, FS_CardinalityType
    <3> QED
      BY <2>0, <2>1, <3>1 DEF LostInv
  <2>2. ASSUME NEW a \in Alerts, Lost' \subseteq Lost \cup {a}, raises' = raises + 1
        PROVE  LostInv'
    <3>1. /\ IsFiniteSet(Lost \cup {a})
          /\ Cardinality(Lost \cup {a}) \in Nat
          /\ Cardinality(Lost \cup {a}) <= Cardinality(Lost) + 1
      <4>1. IsFiniteSet(Lost \cup {a})
        BY <2>0, FS_AddElement
      <4>2. CASE a \in Lost
        <5>1. Lost \cup {a} = Lost
          BY <4>2
        <5>2. Cardinality(Lost \cup {a}) = Cardinality(Lost)
          BY <5>1
        <5> QED
          BY <2>0, <4>1, <5>2
      <4>3. CASE a \notin Lost
        <5>1. Cardinality(Lost \cup {a}) = Cardinality(Lost) + 1
          BY <2>0, <4>3, FS_AddElement
        <5> QED
          BY <2>0, <4>1, <5>1
      <4> QED
        BY <4>1, <4>2, <4>3
    <3>2. /\ IsFiniteSet(Lost') /\ Cardinality(Lost') \in Nat
          /\ Cardinality(Lost') <= Cardinality(Lost \cup {a})
      BY <2>2, <3>1, FS_Subset, FS_CardinalityType
    <3> QED
      BY <2>0, <2>2, <3>1, <3>2 DEF LostInv
  <2> QED
    BY <2>1, <2>2, LostStep
<1>3. TypeInv /\ LostInv => TriggeredIsPushed
  <2> SUFFICES ASSUME TypeInv, LostInv, Quiet
               PROVE  Cardinality({a \in Alerts : alert[a] = "triggered" /\ pushes[a] = 0}) <= raises
    BY DEF TriggeredIsPushed
  <2>1. \A k \in Tasks : task[k].now = None
    BY DEF TypeInv, RecordOK, Quiet, Idle
  <2>2. {a \in Alerts : alert[a] = "triggered" /\ pushes[a] = 0} = Lost
    BY <2>1, PricesAssumption DEF Lost
  <2> QED
    BY <2>2 DEF LostInv
<1> QED
  BY <1>1, <1>2, <1>3, InitTypes, StepTypes, PTL DEF Spec

-----------------------------------------------------------------------------
(* The latest price                                                        *)

\* What makes LatestPrice inductive: the quotes still to be recorded are the newest or its
\* rivals; the newest, unless it is excused, is on its way to be recorded or was, by itself
\* or a rival last; and on its way it finds its ticker on one list or the other.
Recorded == /\ lastSeq \in {ticks} \cup newest.rivals
            /\ feed = "yahoo" => lastPrice = lastEmitted
Expected(k) == Coming(k) /\ task[k].seq = ticks
Found(k) == /\ task[k].pc = "holding" => held \/ watched
            /\ task[k].pc = "watchlist" => watched
ComingRight(k) == Coming(k) => /\ task[k].seq <= ticks
                               /\ task[k].seq \in {ticks} \cup newest.rivals
                               /\ feed = "yahoo" => task[k].price = lastEmitted
LatestInv ==
  /\ feed = "yahoo" => newest.rivals = {}
  /\ \A k \in Tasks : ComingRight(k)
  /\ ~newest.excused => /\ Recorded \/ \E k \in Tasks : Expected(k)
                        /\ \A k \in Tasks : Expected(k) => Found(k)

\* The step of a call keeps it.
LEMMA CallLatest ==
  ASSUME TypeInv, LatestInv, NEW k \in Tasks, QuoteStep(k), UNCHANGED lastEmitted
  PROVE  LatestInv'
<1>0. /\ task[k] \in Records /\ RecordOK(task[k]) /\ \A j \in Tasks \ {k} : task'[j] = task[j]
      /\ newest \in [rivals : SUBSET (0..MaxTicks), excused : BOOLEAN]
  BY CallStep DEF TypeInv, TypeOK
<1>1. UNCHANGED <<feed, held, watched, ticks, lastEmitted>>
  BY DEF QuoteStep, ReadHolding, ReadWatchlist, Broadcast, BroadcastRaises, ListIds, ReadAlert,
         ReadDone, MarkTriggered, Notify, NotifyRaises, lists, bounds
<1>2. ASSUME NEW j \in Tasks, j # k
      PROVE  Coming(j)' = Coming(j) /\ Expected(j)' = Expected(j) /\ Found(j)' = Found(j)
  BY <1>0, <1>1, <1>2, Zenon DEF Coming, Expected, Found
<1>3. CASE ~Coming(k)
  <2>1. UNCHANGED <<lastPrice, lastSeq, newest>>
    BY <1>3 DEF Coming, QuoteStep, ReadHolding, ReadWatchlist, Broadcast, BroadcastRaises,
         ListIds, ReadAlert, ReadDone, MarkTriggered, Notify, NotifyRaises, history
  <2>2. task'[k].pc \in {"idle", "readAlert", "mark", "notify"}
    <3>1. CASE End(k)
      BY <3>1, Ending
    <3>2. CASE Goto(k, "mark")
      BY <3>2, Going DEF Labels
    <3>3. ASSUME NEW a \in Alerts, MarkTriggered(k, a) PROVE task'[k].pc = "notify"
      BY <3>3, Marking
    <3>4. ASSUME NEW a \in Alerts, ReadAlert(k, a), alert[a] # "ghost"
          PROVE  task'[k].pc = "readAlert"
      BY <3>4, Reading
    <3>5. CASE ListIds(k)
      BY <1>0, <3>5 DEF ListIds, TypeInv, TypeOK, Records
    <3>6. CASE NextAlert(k) /\ task[k].fire # {}
      BY <3>6, GoingOn
    <3> QED
      BY <1>3, <3>1, <3>2, <3>3, <3>4, <3>5, <3>6
      DEF Coming, QuoteStep, ReadHolding, ReadWatchlist, Broadcast, BroadcastRaises,
          ReadAlert, ReadDone, Notify, NotifyRaises, NextAlert
  <2>3. ~Coming(k)' /\ ~Expected(k)' /\ ~Expected(k)
    BY <1>3, <2>2 DEF Coming, Expected
  <2>4. Recorded' = Recorded
    BY <1>1, <2>1 DEF Recorded
  <2>5. \A j \in Tasks : ComingRight(j)'
    BY <1>0, <1>1, <1>2, <2>1, <2>3 DEF LatestInv, ComingRight
  <2> QED
    BY <1>1, <1>2, <2>1, <2>3, <2>4, <2>5 DEF LatestInv
<1>4. CASE Record(k) /\ Coming(k)
  <2>1. /\ lastPrice' = task[k].price /\ lastSeq' = task[k].seq /\ newest' = newest
        /\ ~Coming(k)' /\ ~Expected(k)'
    <3>1. task'[k] = Idle \/ task'[k].pc = "listIds"
      BY <1>4, Recording DEF Coming
    <3>2. ~Coming(k)'
      BY <3>1 DEF Coming, Idle
    <3> QED
      BY <1>4, <3>2 DEF Record, Expected
  <2>2. Recorded'
    BY <1>1, <1>4, <2>1 DEF LatestInv, ComingRight, Recorded
  <2>3. \A j \in Tasks : ComingRight(j)'
    BY <1>0, <1>1, <1>2, <2>1 DEF LatestInv, ComingRight
  <2> QED
    BY <1>1, <1>2, <2>1, <2>2, <2>3 DEF LatestInv
<1>5. CASE Goto(k, "broadcast") /\ Coming(k) /\ UNCHANGED <<lastPrice, history>>
  <2>1. task'[k].pc = "broadcast" /\ task'[k].seq = task[k].seq /\ task'[k].price = task[k].price
    BY <1>0, <1>5, Going DEF Labels
  <2>2. Coming(k)' /\ (Expected(k)' <=> Expected(k)) /\ Found(k)'
    BY <1>1, <1>5, <2>1 DEF Coming, Expected, Found
  <2>3. UNCHANGED <<lastPrice, lastSeq, newest>> /\ Recorded' = Recorded
    BY <1>1, <1>5 DEF Recorded, history
  <2>4. \A j \in Tasks : ComingRight(j)'
    BY <1>0, <1>1, <1>2, <1>5, <2>1, <2>3 DEF LatestInv, ComingRight
  <2> QED
    BY <1>1, <1>2, <2>2, <2>3, <2>4 DEF LatestInv
<1>6. CASE Goto(k, "watchlist") /\ task[k].pc = "holding" /\ ~held /\ UNCHANGED <<lastPrice, history>>
  <2>1. task'[k].pc = "watchlist" /\ task'[k].seq = task[k].seq /\ task'[k].price = task[k].price
    BY <1>0, <1>6, Going DEF Labels
  <2>2. Coming(k) /\ Coming(k)' /\ (Expected(k)' <=> Expected(k)) /\ (Found(k) => Found(k)')
    BY <1>1, <1>6, <2>1 DEF Coming, Expected, Found
  <2>3. UNCHANGED <<lastPrice, lastSeq, newest>> /\ Recorded' = Recorded
    BY <1>1, <1>6 DEF Recorded, history
  <2>4. \A j \in Tasks : ComingRight(j)'
    BY <1>0, <1>1, <1>2, <2>1, <2>2, <2>3 DEF LatestInv, ComingRight
  <2> QED
    BY <1>1, <1>2, <2>2, <2>3, <2>4 DEF LatestInv
<1>7. CASE End(k) /\ task[k].pc = "watchlist" /\ ~watched /\ UNCHANGED <<lastPrice, history>>
  <2>1. ~Coming(k)' /\ ~Expected(k)'
    BY <1>7, Ending DEF Coming, Expected, Idle
  <2>2. UNCHANGED <<lastPrice, lastSeq, newest>> /\ Recorded' = Recorded
    BY <1>1, <1>7 DEF Recorded, history
  <2>3. ~newest.excused => ~Expected(k)
    BY <1>7 DEF LatestInv, Found
  <2>4. \A j \in Tasks : ComingRight(j)'
    BY <1>0, <1>1, <1>2, <2>1, <2>2 DEF LatestInv, ComingRight
  <2> QED
    BY <1>1, <1>2, <2>1, <2>2, <2>3, <2>4 DEF LatestInv
<1>8. CASE BroadcastRaises(k)
  <2>1. ~Coming(k)' /\ ~Expected(k)'
    BY <1>8, Ending DEF Coming, Expected, Idle, BroadcastRaises
  <2>2. /\ UNCHANGED <<lastPrice, lastSeq>> /\ newest'.rivals = newest.rivals
        /\ newest'.excused <=> newest.excused \/ task[k].seq = ticks
    BY <1>0, <1>8 DEF BroadcastRaises
  <2>3. Recorded' = Recorded
    BY <1>1, <2>2 DEF Recorded
  <2>4. \A j \in Tasks : ComingRight(j)'
    BY <1>0, <1>1, <1>2, <2>1, <2>2 DEF LatestInv, ComingRight
  <2>5. ~newest'.excused => ~newest.excused /\ ~Expected(k)
    BY <2>2 DEF Expected
  <2> QED
    BY <1>1, <1>2, <2>1, <2>2, <2>3, <2>4, <2>5 DEF LatestInv
<1> QED
  BY <1>3, <1>4, <1>5, <1>6, <1>7, <1>8
  DEF Coming, QuoteStep, ReadHolding, ReadWatchlist, Publish, Broadcast, ListIds, ReadAlert,
      ReadDone, MarkTriggered, Notify, NotifyRaises

\* Every step keeps it.
LEMMA StepLatest ==
  ASSUME TypeInv, LatestInv, [Next]_vars
  PROVE  LatestInv'
<1>0. /\ \A k \in Tasks : task[k] \in Records /\ task[k].seq \in 0..MaxTicks
      /\ newest \in [rivals : SUBSET (0..MaxTicks), excused : BOOLEAN]
  BY DEF TypeInv, TypeOK, Records
<1>4. ticks \in Nat /\ MaxTicks \in Nat
  BY BoundsAssumption DEF TypeInv, TypeOK
<1>1. ASSUME NEW k \in Tasks, NEW p \in Prices, Arrive(k, p) PROVE LatestInv'
  <2>1. /\ ticks' = ticks + 1 /\ UNCHANGED <<feed, held, watched>>
        /\ task' = [task EXCEPT ![k] = [[[Idle EXCEPT !.pc = "holding"] EXCEPT !.price = p]
                                          EXCEPT !.seq = ticks + 1]]
        /\ newest'.rivals = {task[j].seq : j \in {i \in Tasks : Coming(i)}}
        /\ newest'.excused = (~held /\ ~watched)
        /\ feed = "yahoo" => Quiet /\ lastEmitted' = p
    BY <1>1 DEF Arrive, Poll, lists
  <2>2. task \in [Tasks -> Records] /\ Idle \in Records
    BY BoundsAssumption DEF TypeInv, TypeOK, Idle, Records, Labels
  <2>3. task'[k].pc = "holding" /\ task'[k].price = p /\ task'[k].seq = ticks'
    BY <2>1, <2>2 DEF Records
  <2>4. \A j \in Tasks \ {k} : task'[j] = task[j]
    BY <2>1, <2>2
  <2>5. feed = "yahoo" => \A j \in Tasks : ~Coming(j)
    BY <2>1 DEF Quiet, Coming
  <2>6. \A j \in Tasks \ {k} : Coming(j)' => /\ Coming(j) /\ task'[j].seq \in newest'.rivals
                                             /\ task'[j].seq <= ticks
    BY <2>1, <2>4 DEF Coming, LatestInv, ComingRight
  <2>7. \A j \in Tasks : ComingRight(j)'
    BY <1>0, <1>4, <2>1, <2>3, <2>4, <2>5, <2>6 DEF ComingRight
  <2>8. Expected(k)'
    BY <2>3 DEF Expected, Coming
  <2>9. ASSUME ~newest'.excused, NEW j \in Tasks, Expected(j)' PROVE Found(j)'
    <3>1. j = k
      BY <1>0, <1>4, <2>1, <2>4, <2>6, <2>9 DEF Expected, LatestInv, ComingRight
    <3> QED
      BY <2>1, <2>3, <2>9, <3>1 DEF Found
  <2>10. feed' = "yahoo" => newest'.rivals = {}
    BY <2>1, <2>5
  <2> QED
    BY <2>7, <2>8, <2>9, <2>10 DEF LatestInv
<1>2. ASSUME MoveList, UNCHANGED lastEmitted PROVE LatestInv'
  <2>1. /\ UNCHANGED <<feed, task, ticks, lastPrice, lastSeq, lastEmitted>>
        /\ newest'.rivals = newest.rivals
        /\ newest'.excused <=> \/ newest.excused
                               \/ \E k \in Tasks : /\ task[k].pc \in {"holding", "watchlist"}
                                                   /\ task[k].seq = ticks
    BY <1>0, <1>2 DEF MoveList
  <2> QED
    BY <2>1 DEF LatestInv, Recorded, Expected, Found, Coming, ComingRight
<1>3. CASE UNCHANGED <<feed, held, watched, task, ticks, lastEmitted, lastPrice, lastSeq, newest>>
  BY <1>3 DEF LatestInv, Recorded, Expected, Found, Coming, ComingRight
<1> QED
  BY <1>1, <1>2, <1>3, CallLatest DEF Next, CreateAlert, DeleteAlert, vars, bounds, history, lists

\* In any run of quotes, from either feed, only what befell the quote that arrived last can
\* keep its price from being the one on record, and only a quote it overlapped can follow it.
THEOREM LatestHolds == Spec => []LatestPrice
<1>1. Init => LatestInv
  <2> SUFFICES ASSUME Init PROVE LatestInv
    OBVIOUS
  <2>1. \A k \in Tasks : ~Coming(k)
    BY DEF Init, Idle, Coming
  <2> QED
    BY <2>1 DEF Init, LatestInv, Recorded, Expected, ComingRight
<1>2. LatestInv => LatestPrice
  BY DEF LatestInv, LatestPrice, Recorded, Expected, Coming, Quiet
<1> QED
  BY <1>1, <1>2, InitTypes, StepTypes, StepLatest, PTL DEF Spec

-----------------------------------------------------------------------------
(* Crossings                                                               *)

\* A path that crosses a target does so at one of its steps.
LEMMA CrossedSplits ==
  ASSUME NEW t \in Int, NEW p \in Int, NEW q \in Int, NEW r \in Int, Crossed(p, r, t)
  PROVE  Crossed(p, q, t) \/ Crossed(q, r, t)
BY DEF Crossed

\* A price crosses nothing on its way to itself.
LEMMA CrossedIsStrict ==
  ASSUME NEW t \in Int, NEW p \in Int
  PROVE  ~Crossed(p, p, t)
BY DEF Crossed

\* A call that will mark alert a: its quote crossed the target, and it has not read the
\* alert yet, or has and will fire it.
WillMark(t, a) ==
  \/ /\ t.pc = "listIds" \/ (t.pc = "readAlert" /\ a \in t.ids)
     /\ Crossed(t.prev, t.price, Target[a])
  \/ a \in t.fire

\* A ghost ends the call that reads it.
NoGhost == feed = "yahoo" \/ \A a \in Alerts : alert[a] # "ghost"

\* What makes NoMissedCrossing inductive: an armed alert whose target the price has crossed
\* since is about to be marked by the call whose quote crossed it, which no ghost will end.
MissInv ==
  /\ lastPrice = None => \A a \in Alerts : base[a] = None
  /\ feed = "yahoo" => \A k \in Tasks, a \in Alerts :
       task[k].pc = "readAlert" /\ a \in task[k].ids => alert[a] # "ghost"
  /\ raises = 0 /\ NoGhost =>
       \A a \in Alerts :
         alert[a] = "armed" /\ base[a] # None /\ Crossed(base[a], lastPrice, Target[a]) =>
           \E k \in Tasks : WillMark(task[k], a)

\* A ghost stays one, and only marking makes one.
LEMMA Ghosts ==
  ASSUME TypeInv, [Next]_vars, NEW a \in Alerts
  PROVE  /\ alert[a] = "ghost" => alert'[a] = "ghost"
         /\ alert'[a] = "ghost" => \/ alert[a] = "ghost"
                                   \/ \E k \in Tasks : MarkTriggered(k, a)
         /\ alert'[a] = "armed" => alert[a] = "armed" \/ CreateAlert(a)
<1>0. alert \in [Alerts -> AlertStates]
  BY DEF TypeInv, TypeOK
<1>1. \/ UNCHANGED alert
      \/ \E k \in Tasks, c \in Alerts : MarkTriggered(k, c)
      \/ \E c \in Alerts : CreateAlert(c) \/ DeleteAlert(c)
  BY DEF Next, QuoteStep, Arrive, ReadHolding, ReadWatchlist, Broadcast, BroadcastRaises,
         ListIds, ReadAlert, ReadDone, MarkTriggered, Notify, NotifyRaises, MoveList, vars
<1> QED
  BY <1>0, <1>1 DEF MarkTriggered, CreateAlert, DeleteAlert, Indexed

\* No ghost is read by the one call that Yahoo's poller has in progress.
LEMMA StepNoGhostRead ==
  ASSUME TypeInv, OneAtATime, MissInv, [Next]_vars, feed = "yahoo",
         NEW k \in Tasks, NEW a \in Alerts, task'[k].pc = "readAlert", a \in task'[k].ids
  PROVE  alert'[a] # "ghost"
<1>0. /\ \A j \in Tasks : task[j] \in Records /\ RecordOK(task[j])
      /\ task[k].pc = "readAlert" /\ a \in task[k].ids => alert[a] # "ghost"
  BY DEF TypeInv, TypeOK, MissInv
<1>1. ASSUME NEW j \in Tasks, NEW c \in Alerts, MarkTriggered(j, c)
      PROVE  FALSE
  <2>1. task'[j].pc = "notify" /\ \A i \in Tasks \ {j} : task'[i] = task[i]
    BY <1>1, Marking
  <2>2. \A i \in Tasks \ {j} : task[i].pc = "idle"
    BY <1>1 DEF MarkTriggered, OneAtATime
  <2> QED
    BY <2>1, <2>2
<1>2. alert[a] # "ghost"
  <2>1. CASE task[k].pc = "readAlert" /\ a \in task[k].ids
    BY <1>0, <2>1
  <2>2. CASE ~(task[k].pc = "readAlert" /\ a \in task[k].ids)
    <3>1. QuoteStep(k) \/ \E p \in Prices : Arrive(k, p)
      <4>1. ASSUME NEW j \in Tasks, j # k, QuoteStep(j) \/ \E p \in Prices : Arrive(j, p)
            PROVE  FALSE
        BY <2>2, <4>1, CallStep
      <4> QED
        BY <2>2, <4>1 DEF Next, CreateAlert, DeleteAlert, MoveList, vars
    <3>2. CASE ListIds(k)
      <4>1. task'[k].ids = {c \in Alerts : Indexed(c)}
        BY <1>0, <3>2 DEF ListIds, TypeInv, TypeOK, Records
      <4> QED
        BY <4>1 DEF Indexed
    <3>3. ASSUME NEW c \in Alerts, ReadAlert(k, c), alert[c] # "ghost" PROVE FALSE
      BY <2>2, <3>3, Reading DEF ReadAlert
    <3>4. CASE End(k) \/ Goto(k, "mark") \/ Goto(k, "broadcast") \/ Goto(k, "watchlist")
      BY <3>4, Ending, Going DEF Labels
    <3>5. CASE Record(k) /\ task[k].pc \in {"holding", "watchlist", "broadcast"}
      BY <3>5, Recording, Ending DEF Idle
    <3>6. CASE NextAlert(k) /\ task[k].fire # {}
      BY <3>6, GoingOn
    <3>7. ASSUME NEW p \in Prices, Arrive(k, p) PROVE FALSE
      BY <1>0, <3>7, BoundsAssumption DEF Arrive, Idle, TypeInv, TypeOK
    <3> QED
      BY <1>1, <3>1, <3>2, <3>3, <3>4, <3>5, <3>6, <3>7
      DEF QuoteStep, ReadHolding, ReadWatchlist, Publish, Broadcast, BroadcastRaises,
          ReadAlert, ReadDone, Notify, NotifyRaises, NextAlert
  <2> QED
    BY <2>1, <2>2
<1> QED
  BY <1>1, <1>2, Ghosts

\* A call that will mark an armed alert marks it, unless a broadcast raises or it reads a
\* ghost.
LEMMA Fates ==
  ASSUME TypeInv, NEW k \in Tasks, NEW a \in Alerts,
         QuoteStep(k) \/ \E p \in Prices : Arrive(k, p),
         WillMark(task[k], a), alert[a] = "armed", raises \in Nat, raises' = 0,
         task[k].pc = "readAlert" => \A c \in task[k].ids : alert[c] # "ghost"
  PROVE  WillMark(task'[k], a) \/ alert'[a] # "armed"
<1>0. /\ task[k] \in Records /\ RecordOK(task[k])
      /\ task[k].pc \in {"listIds", "readAlert", "mark", "notify"}
  BY DEF TypeInv, TypeOK, RecordOK, WillMark
<1>1. ~NotifyRaises(k)
  BY DEF NotifyRaises
<1>2. CASE ListIds(k)
  <2> DEFINE t == [[task[k] EXCEPT !.pc = "readAlert"] EXCEPT !.ids = {c \in Alerts : Indexed(c)}]
  <2>1. task'[k] = t /\ task[k].pc = "listIds"
    BY <1>2 DEF ListIds, TypeInv, TypeOK
  <2>2. /\ t.pc = "readAlert" /\ t.price = task[k].price /\ t.prev = task[k].prev
        /\ t.fire = task[k].fire /\ a \in t.ids
    BY <1>0 DEF Records, Indexed
  <2> HIDE DEF t
  <2> QED
    BY <2>1, <2>2 DEF WillMark
<1>3. ASSUME NEW c \in Alerts, ReadAlert(k, c) PROVE WillMark(task'[k], a)
  <2>1. alert[c] # "ghost" /\ task[k].pc = "readAlert"
    BY <1>3 DEF ReadAlert
  <2> QED
    BY <1>3, <2>1, Reading DEF WillMark
<1>4. CASE ReadDone(k)
  BY <1>4, Going DEF ReadDone, WillMark, Labels
<1>5. ASSUME NEW c \in Alerts, MarkTriggered(k, c) PROVE WillMark(task'[k], a) \/ alert'[a] # "armed"
  <2>1. CASE c = a
    BY <1>5, <2>1 DEF MarkTriggered, TypeInv, TypeOK
  <2>2. CASE c # a
    <3>1. a \in task[k].fire
      BY <1>5 DEF MarkTriggered, WillMark
    <3> QED
      BY <1>5, <2>2, <3>1, Marking DEF WillMark
  <2> QED
    BY <2>1, <2>2
<1>6. CASE Notify(k)
  <2>1. a \in task[k].fire
    BY <1>6 DEF Notify, WillMark
  <2> QED
    BY <1>6, <2>1, GoingOn DEF Notify, WillMark
<1> QED
  BY <1>0, <1>1, <1>2, <1>3, <1>4, <1>5, <1>6
  DEF QuoteStep, Arrive, ReadHolding, ReadWatchlist, Broadcast, BroadcastRaises

\* Every step keeps what is crossed about to be marked.
LEMMA StepMiss ==
  ASSUME TypeInv, TypeInv', OneAtATime, MissInv, [Next]_vars
  PROVE  MissInv'
<1>0. /\ \A k \in Tasks : task[k] \in Records /\ RecordOK(task[k])
      /\ raises \in Nat /\ raises' \in Nat
      /\ base \in [Alerts -> Prices \cup {None}] /\ base' \in [Alerts -> Prices \cup {None}]
      /\ lastPrice \in Prices \cup {None} /\ lastPrice' \in Prices \cup {None}
      /\ alert \in [Alerts -> AlertStates]
      /\ Prices \subseteq Int /\ \A a \in Alerts : Target[a] \in Int
  <2>1. Prices \subseteq Int /\ \A a \in Alerts : Target[a] \in Int
    BY PricesAssumption
  <2> QED
    BY <2>1, BoundsAssumption DEF TypeInv, TypeOK
<1>1. /\ feed' = feed
      /\ raises' \in {raises, raises + 1}
      /\ \/ UNCHANGED <<lastPrice, base>>
         \/ \E c \in Alerts : /\ CreateAlert(c) /\ UNCHANGED <<lastPrice, task>>
                               /\ base' = [base EXCEPT ![c] = lastPrice]
         \/ \E k \in Tasks : Record(k) /\ Coming(k) /\ QuoteStep(k) /\ UNCHANGED alert
  <2> DEFINE Keeps == /\ feed' = feed /\ raises' \in {raises, raises + 1}
                      /\ UNCHANGED <<lastPrice, base>>
  <2>1. ASSUME NEW k \in Tasks, ReadHolding(k) \/ ReadWatchlist(k) \/ Broadcast(k)
        PROVE  /\ feed' = feed /\ raises' = raises
               /\ \/ UNCHANGED <<lastPrice, base>>
                  \/ Record(k) /\ Coming(k) /\ UNCHANGED alert
    BY <2>1 DEF ReadHolding, ReadWatchlist, Publish, Broadcast, Record, Coming, lists, bounds, history
  <2>2. ASSUME NEW k \in Tasks, NEW a \in Alerts, ReadAlert(k, a) \/ MarkTriggered(k, a)
        PROVE  Keeps
    BY <2>2 DEF ReadAlert, MarkTriggered, lists, bounds, history
  <2>3. ASSUME NEW k \in Tasks, \/ BroadcastRaises(k) \/ ListIds(k) \/ ReadDone(k)
                               \/ Notify(k) \/ NotifyRaises(k)
        PROVE  Keeps
    BY <2>3 DEF BroadcastRaises, ListIds, ReadDone, Notify, NotifyRaises, lists, bounds, history
  <2>4. ASSUME \/ \E k \in Tasks, p \in Prices : Arrive(k, p)
               \/ \E a \in Alerts : DeleteAlert(a)
               \/ MoveList \/ UNCHANGED vars
        PROVE  Keeps
    BY <2>4 DEF Arrive, DeleteAlert, MoveList, vars, lists, bounds, history
  <2>5. ASSUME NEW c \in Alerts, CreateAlert(c)
        PROVE  /\ feed' = feed /\ raises' = raises /\ UNCHANGED <<lastPrice, task>>
               /\ base' = [base EXCEPT ![c] = lastPrice]
    BY <2>5 DEF CreateAlert, lists, bounds, history
  <2> HIDE DEF Keeps
  <2>6. CASE \E k \in Tasks : QuoteStep(k)
    <3>1. PICK k \in Tasks : QuoteStep(k)
      BY <2>6
    <3>2. CASE ReadHolding(k) \/ ReadWatchlist(k) \/ Broadcast(k)
      BY <2>1, <3>1, <3>2
    <3>3. CASE Keeps
      BY <3>3 DEF Keeps
    <3> QED
      BY <2>2, <2>3, <3>1, <3>2, <3>3 DEF QuoteStep
  <2>7. CASE Keeps
    BY <2>7 DEF Keeps
  <2>8. CASE \E c \in Alerts : CreateAlert(c)
    BY <2>5, <2>8
  <2> QED
    BY <2>4, <2>6, <2>7, <2>8 DEF Next
<1>2. ASSUME lastPrice' = None, NEW a \in Alerts PROVE base'[a] = None
  <2>1. ~ \E k \in Tasks : Record(k) /\ Coming(k)
    BY <1>0, <1>2 DEF Record, Coming, RecordOK
  <2> QED
    BY <1>0, <1>1, <1>2, <2>1 DEF MissInv
<1>3. ASSUME feed' = "yahoo", NEW k \in Tasks, NEW a \in Alerts, task'[k].pc = "readAlert",
             a \in task'[k].ids
      PROVE  alert'[a] # "ghost"
  BY <1>1, <1>3, StepNoGhostRead
<1>4. ASSUME raises' = 0, NoGhost', NEW a \in Alerts, alert'[a] = "armed", base'[a] # None,
             Crossed(base'[a], lastPrice', Target[a])
      PROVE  \E k \in Tasks : WillMark(task'[k], a)
  <2>1. raises = 0 /\ NoGhost
    BY <1>0, <1>1, <1>4, Ghosts DEF NoGhost
  <2>2. ASSUME NEW j \in Tasks, WillMark(task[j], a), alert[a] = "armed"
        PROVE  WillMark(task'[j], a)
    <3>1. task[j].pc = "readAlert" => \A c \in task[j].ids : alert[c] # "ghost"
      <4>1. task[j].ids \subseteq Alerts
        BY <1>0 DEF Records
      <4> QED
        BY <2>1, <4>1 DEF MissInv, NoGhost
    <3>2. CASE QuoteStep(j) \/ \E p \in Prices : Arrive(j, p)
      BY <1>0, <1>4, <2>2, <3>1, <3>2, Fates
    <3>3. CASE task'[j] = task[j]
      BY <2>2, <3>3
    <3> QED
      BY <3>2, <3>3, CallStep DEF Next, CreateAlert, DeleteAlert, MoveList, vars
  <2>3. ASSUME NEW k \in Tasks, Record(k), Coming(k), QuoteStep(k), UNCHANGED alert
        PROVE  \E j \in Tasks : WillMark(task'[j], a)
    <3>1. /\ lastPrice' = task[k].price /\ lastPrice' \in Int
          /\ base'[a] = IF base[a] = None /\ alert[a] # "new" THEN task[k].price ELSE base[a]
      BY <1>0, <2>3 DEF Record, Coming, RecordOK, Records
    <3>2. base'[a] = base[a] /\ base[a] \in Int
      <4>1. base'[a] # task[k].price
        BY <1>0, <1>4, <3>1, CrossedIsStrict
      <4> QED
        BY <1>0, <1>4, <3>1, <4>1
    <3>3. lastPrice # None /\ lastPrice \in Int
      BY <1>0, <1>4, <3>2 DEF MissInv
    <3>4. CASE Crossed(base[a], lastPrice, Target[a])
      BY <1>4, <2>1, <2>2, <2>3, <3>2, <3>4 DEF MissInv
    <3>5. CASE Crossed(lastPrice, lastPrice', Target[a])
      <4>1. task'[k].pc = "listIds" /\ task'[k].prev = lastPrice /\ task'[k].price = lastPrice'
        BY <2>3, <3>1, <3>3, Recording DEF Coming
      <4> QED
        BY <3>5, <4>1 DEF WillMark
    <3>6. Target[a] \in Int
      BY <1>0
    <3> QED
      BY <1>4, <3>1, <3>2, <3>3, <3>4, <3>5, <3>6, CrossedSplits
  <2>4. ASSUME NEW c \in Alerts, CreateAlert(c), UNCHANGED <<lastPrice, task>>,
               base' = [base EXCEPT ![c] = lastPrice]
        PROVE  \E j \in Tasks : WillMark(task'[j], a)
    <3>1. CASE c = a
      <4>1. base'[a] = lastPrice' /\ lastPrice' \in Int /\ Target[a] \in Int
        BY <1>0, <1>4, <2>4, <3>1
      <4> QED
        BY <1>4, <4>1, CrossedIsStrict
    <3>2. CASE c # a
      <4>1. alert[a] = "armed" /\ base'[a] = base[a]
        BY <1>0, <1>4, <2>4, <3>2 DEF CreateAlert
      <4> QED
        BY <1>4, <2>1, <2>2, <2>4, <4>1 DEF MissInv
    <3> QED
      BY <3>1, <3>2
  <2>5. CASE UNCHANGED <<lastPrice, base>>
    <3>1. CASE alert[a] = "armed"
      BY <1>4, <2>1, <2>2, <2>5, <3>1 DEF MissInv
    <3>2. CASE CreateAlert(a)
      <4>1. base' = [base EXCEPT ![a] = lastPrice]
        BY <3>2 DEF CreateAlert
      <4>2. base'[a] = lastPrice' /\ lastPrice' \in Int /\ Target[a] \in Int
        BY <1>0, <1>4, <2>5, <4>1
      <4> QED
        BY <1>4, <4>2, CrossedIsStrict
    <3> QED
      BY <1>4, <3>1, <3>2, Ghosts
  <2> QED
    BY <1>1, <2>3, <2>4, <2>5
<1> QED
  BY <1>2, <1>3, <1>4 DEF MissInv

\* Once every quote is dealt with, an armed alert has the last price on the side of its
\* target where the price was when it was created: a crossing is not missed between two
\* broadcasts, nor by calls that overlap, nor while alerts are created and deleted.
THEOREM CrossingsHold == Spec => []NoMissedCrossing
<1>1. Init => MissInv
  BY DEF Init, MissInv, Idle
<1>2. TypeInv /\ MissInv => NoMissedCrossing
  <2> SUFFICES ASSUME TypeInv, MissInv, Quiet, raises = 0,
                      feed = "yahoo" \/ \A a \in Alerts : alert[a] # "ghost",
                      NEW a \in Alerts, alert[a] = "armed", base[a] # None
               PROVE  ~Crossed(base[a], lastPrice, Target[a])
    BY DEF NoMissedCrossing
  <2>1. \A k \in Tasks : ~WillMark(task[k], a)
    BY DEF TypeInv, RecordOK, Quiet, WillMark
  <2> QED
    BY <2>1 DEF MissInv, NoGhost
<1> QED
  BY <1>1, <1>2, InitTypes, StepTypes, StepOneAtATime, StepMiss, PTL DEF Spec
=============================================================================
