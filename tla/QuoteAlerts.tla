----------------------------- MODULE QuoteAlerts -----------------------------
(***************************************************************************)
(* The quotes of one ticker on their way through WebSocketManager.on_quote *)
(* and its listener AlertService.check_and_trigger, with the alerts they   *)
(* look up in Redis and the requests that change lists and alerts          *)
(* meanwhile.                                                              *)
(*                                                                         *)
(* Alpaca's stream hands every quote to the event loop as a task of its    *)
(* own (run_coroutine_threadsafe), so several run at once; Yahoo's poller  *)
(* awaits one before it makes the next.  A step is one Redis command, one  *)
(* broadcast, or the stretch of the loop between two awaits.  Whether the  *)
(* throttle lets a price be broadcast depends on the clock alone and is    *)
(* left open.                                                              *)
(***************************************************************************)
EXTENDS Integers, FiniteSets

CONSTANTS
  Tasks,      \* on_quote calls that can be in progress at once
  Prices,     \* a set of integers
  Alerts,     \* alert ids, each created at most once (uuid4)
  Target,     \* target price of each alert
  None,
  Feeds,      \* where the ticker's quotes may come from: "yahoo", "alpaca"
  MaxTicks,   \* bound: quotes
  MaxMoves,   \* bound: changes of the two lists
  MaxRaises   \* bound: broadcasts that raise (Fanout shows how one does)

ASSUME PricesAssumption == /\ Prices \subseteq Int /\ None \notin Prices \cup Alerts
                           /\ Target \in [Alerts -> Prices]
ASSUME TasksAssumption == IsFiniteSet(Tasks) /\ Tasks # {}
ASSUME BoundsAssumption == /\ MaxTicks \in Nat /\ MaxMoves \in Nat /\ MaxRaises \in Nat
                           /\ Feeds \subseteq {"yahoo", "alpaca"}

VARIABLES
  feed,          \* where they come from, which the ticker decides
  \* Redis
  held, watched, \* is the ticker in the portfolio, on the watchlist?
  alert,         \* alert[a]: its hash, see AlertStates
  \* the process
  lastPrice,     \* _last_prices[ticker]
  lastEmitted,   \* _last_emitted[ticker] of Yahoo's poller
  task,          \* the on_quote calls in progress
  \* the world outside
  pushes,        \* pushes[a]: notify_all calls for alert a
  ticks, moves, raises,
  \* what the properties need to remember
  lastSeq,       \* which quote lastPrice came from, in order of arrival
  base,          \* base[a]: the first price on record since alert a was created
  newest         \* of the quote that arrived last: those before it that were still to be
                 \* recorded, and whether its own call has met something that may drop it

lists == <<feed, held, watched>>
history == <<lastSeq, base, newest>>
bounds == <<ticks, moves, raises>>
vars == <<lists, lastEmitted, alert, lastPrice, task, pushes, bounds, history>>

\* "ghost": the hash holds a "triggered" field and nothing else, and no index names it.
AlertStates == {"new", "armed", "triggered", "deleted", "ghost"}
Indexed(a) == alert[a] \in {"armed", "triggered"}

\* ids: alerts still to be read; fire: alerts read that this quote triggers; now: the
\* one being notified; seq: its place in the order of arrival.
Idle == [pc |-> "idle", price |-> None, prev |-> None, ids |-> {}, fire |-> {},
         now |-> None, seq |-> 0]

Labels == {"idle", "holding", "watchlist", "broadcast", "listIds", "readAlert", "mark", "notify"}
Records == [pc : Labels, price : Prices \cup {None}, prev : Prices \cup {None},
            ids : SUBSET Alerts, fire : SUBSET Alerts,
            now : Alerts \cup {None}, seq : 0..MaxTicks]

\* A call that has its price still to record.
Coming(k) == task[k].pc \in {"holding", "watchlist", "broadcast"}

Quiet == \A k \in Tasks : task[k].pc = "idle"
Goto(k, l) == task' = [task EXCEPT ![k].pc = l]
End(k) == task' = [task EXCEPT ![k] = Idle]

\* AlertService._crossed
CrossedStrictly(previous, price, target) ==
  \/ previous < target /\ target < price
  \/ previous > target /\ target > price

Crossed(previous, price, target) ==
  \/ previous < target /\ target <= price
  \/ previous > target /\ target >= price

-----------------------------------------------------------------------------
Init == /\ feed \in Feeds
        /\ held \in BOOLEAN /\ watched = ~held
        /\ alert = [a \in Alerts |-> "new"]
        /\ lastPrice = None /\ lastEmitted = None
        /\ task = [k \in Tasks |-> Idle]
        /\ pushes = [a \in Alerts |-> 0]
        /\ ticks = 0 /\ moves = 0 /\ raises = 0
        /\ lastSeq = 0
        /\ base = [a \in Alerts |-> None]
        /\ newest = [rivals |-> {}, excused |-> FALSE]

\* Yahoo's poller has one quote at a time, of a price other than the last it had; the
\* price counts as emitted before it is delivered.
Poll(p) == /\ feed = "yahoo"
           /\ Quiet /\ p # lastEmitted
           /\ lastEmitted' = p

\* A quote of the subscribed ticker arrives.
Arrive(k, p) ==
  /\ ticks < MaxTicks
  /\ task[k].pc = "idle"
  /\ \/ Poll(p)
     \/ feed = "alpaca" /\ UNCHANGED lastEmitted
  /\ ticks' = ticks + 1
  /\ task' = [task EXCEPT ![k] = [Idle EXCEPT !.pc = "holding", !.price = p, !.seq = ticks + 1]]
  /\ newest' = [rivals |-> {task[j].seq : j \in {i \in Tasks : Coming(i)}},
                excused |-> ~held /\ ~watched]
  /\ UNCHANGED <<lists, alert, lastPrice, pushes, moves, raises, lastSeq, base>>

-----------------------------------------------------------------------------
(* on_quote                                                                *)

\* The stretch that ends on_quote's own work: remember the price, and call the
\* listener if there was one before it.
Record(k) ==
  /\ lastPrice' = task[k].price
  /\ lastSeq' = task[k].seq
  /\ base' = [a \in Alerts |-> IF base[a] = None /\ alert[a] # "new" THEN task[k].price
                               ELSE base[a]]
  /\ UNCHANGED newest
  /\ IF lastPrice = None
     THEN End(k)
     ELSE task' = [task EXCEPT ![k].pc = "listIds", ![k].prev = lastPrice]

PublishOrForget(k) == /\ Goto(k, "broadcast") \/ End(k)
                      /\ UNCHANGED <<lastPrice, history>>

\* The throttle: the price is broadcast first, or it is not broadcast at all.
Publish(k) ==
  \/ /\ Goto(k, "broadcast")
     /\ UNCHANGED <<lastPrice, history>>
  \/ Record(k)

ReadHolding(k) ==
  /\ task[k].pc = "holding"
  /\ IF held THEN Publish(k)
     ELSE Goto(k, "watchlist") /\ UNCHANGED <<lastPrice, history>>
  /\ UNCHANGED <<lists, alert, pushes, bounds>>

ReadWatchlist(k) ==
  /\ task[k].pc = "watchlist"
  /\ IF watched THEN Publish(k) ELSE End(k) /\ UNCHANGED <<lastPrice, history>>
  /\ UNCHANGED <<lists, alert, pushes, bounds>>

Broadcast(k) ==
  /\ task[k].pc = "broadcast"
  /\ Record(k)
  /\ UNCHANGED <<lists, alert, pushes, bounds>>

\* broadcast raises: on_quote ends there, and its caller logs the exception.
BroadcastRaises(k) ==
  /\ task[k].pc = "broadcast"
  /\ raises < MaxRaises
  /\ raises' = raises + 1
  /\ End(k)
  /\ newest' = [newest EXCEPT !.excused = @ \/ task[k].seq = ticks]
  /\ UNCHANGED <<lists, alert, lastPrice, pushes, ticks, moves, lastSeq, base>>

-----------------------------------------------------------------------------
(* check_and_trigger                                                       *)

ListIds(k) ==
  /\ task[k].pc = "listIds"
  /\ task' = [task EXCEPT ![k].pc = "readAlert", ![k].ids = {a \in Alerts : Indexed(a)}]
  /\ UNCHANGED <<lists, alert, lastPrice, pushes, bounds, history>>

ReadAlertEvenTriggered(k, a) ==
  /\ task[k].pc = "readAlert"
  /\ a \in task[k].ids
  /\ IF alert[a] = "ghost" THEN End(k)
     ELSE task' = [task EXCEPT ![k].ids = @ \ {a},
                     ![k].fire = IF /\ Indexed(a)
                                    /\ Crossed(task[k].prev, task[k].price, Target[a])
                                 THEN @ \cup {a} ELSE @]
  /\ UNCHANGED <<lists, alert, lastPrice, pushes, bounds, history>>

\* list_alerts_for_ticker reads the alerts one by one.  One that was deleted since is
\* left out; a ghost has no "ticker" field and its KeyError ends the listener.
ReadAlert(k, a) ==
  /\ task[k].pc = "readAlert"
  /\ a \in task[k].ids
  /\ IF alert[a] = "ghost" THEN End(k)
     ELSE task' = [task EXCEPT ![k].ids = @ \ {a},
                     ![k].fire = IF /\ alert[a] = "armed"
                                    /\ Crossed(task[k].prev, task[k].price, Target[a])
                                 THEN @ \cup {a} ELSE @]
  /\ UNCHANGED <<lists, alert, lastPrice, pushes, bounds, history>>

ReadDone(k) ==
  /\ task[k].pc = "readAlert"
  /\ task[k].ids = {}
  /\ IF task[k].fire = {} THEN End(k) ELSE Goto(k, "mark")
  /\ UNCHANGED <<lists, alert, lastPrice, pushes, bounds, history>>

\* mark_triggered is a plain HSET: on an alert deleted since it was read it creates a
\* hash that was not there.
MarkTriggered(k, a) ==
  /\ task[k].pc = "mark"
  /\ a \in task[k].fire
  /\ alert' = [alert EXCEPT ![a] = IF Indexed(a) THEN "triggered" ELSE "ghost"]
  /\ task' = [task EXCEPT ![k].pc = "notify", ![k].now = a, ![k].fire = @ \ {a}]
  /\ UNCHANGED <<lists, lastPrice, pushes, bounds, history>>

NextAlert(k) == IF task[k].fire = {} THEN End(k)
                ELSE task' = [task EXCEPT ![k].pc = "mark", ![k].now = None]

NotifyWithoutPush(k) ==
  /\ task[k].pc = "notify"
  /\ NextAlert(k)
  /\ UNCHANGED <<lists, alert, lastPrice, pushes, bounds, history>>

\* The alert is broadcast, then the push is started; with no alert left the quote is done.
Notify(k) ==
  /\ task[k].pc = "notify"
  /\ pushes' = [pushes EXCEPT ![task[k].now] = @ + 1]
  /\ NextAlert(k)
  /\ UNCHANGED <<lists, alert, lastPrice, bounds, history>>

\* The broadcast raises after the alert was marked: no push, and the alerts left are
\* not looked at (on_quote logs "quote listener failed").
NotifyRaises(k) ==
  /\ task[k].pc = "notify"
  /\ raises < MaxRaises
  /\ raises' = raises + 1
  /\ End(k)
  /\ UNCHANGED <<lists, alert, lastPrice, pushes, ticks, moves, history>>

-----------------------------------------------------------------------------
(* Requests, as the other modules have them.                               *)

CreateAlert(a) ==
  /\ alert[a] = "new"
  /\ held \/ watched
  /\ alert' = [alert EXCEPT ![a] = "armed"]
  /\ base' = [base EXCEPT ![a] = lastPrice]
  /\ UNCHANGED <<lists, lastPrice, task, pushes, bounds, lastSeq, newest>>

DeleteAlert(a) ==
  /\ Indexed(a)
  /\ alert' = [alert EXCEPT ![a] = "deleted"]
  /\ UNCHANGED <<lists, lastPrice, task, pushes, bounds, history>>

\* Buying a watched ticker stores the holding first and leaves the watchlist after.
MoveList ==
  /\ moves < MaxMoves
  /\ moves' = moves + 1
  /\ \/ ~held /\ held' = TRUE /\ UNCHANGED watched
     \/ held /\ watched /\ watched' = FALSE /\ UNCHANGED held
     \/ held /\ ~watched /\ held' = FALSE /\ UNCHANGED watched
     \/ ~held /\ watched' = ~watched /\ UNCHANGED held
  /\ newest' = [newest EXCEPT !.excused =
                  @ \/ \E k \in Tasks : task[k].pc \in {"holding", "watchlist"} /\ task[k].seq = ticks]
  /\ UNCHANGED <<feed, alert, lastPrice, task, pushes, ticks, raises, lastSeq, base>>

-----------------------------------------------------------------------------
QuoteStep(k) == \/ ReadHolding(k) \/ ReadWatchlist(k) \/ Broadcast(k) \/ BroadcastRaises(k)
                \/ ListIds(k) \/ ReadDone(k) \/ Notify(k) \/ NotifyRaises(k)
                \/ \E a \in Alerts : ReadAlert(k, a) \/ MarkTriggered(k, a)

Next == \/ \E k \in Tasks, p \in Prices : Arrive(k, p)
        \/ /\ UNCHANGED lastEmitted
           /\ \/ \E k \in Tasks : QuoteStep(k)
              \/ \E a \in Alerts : CreateAlert(a) \/ DeleteAlert(a)
              \/ MoveList

Spec == Init /\ [][Next]_vars

-----------------------------------------------------------------------------
(* Properties                                                              *)

\* Every variable keeps to its values, and a call in progress has the data its next step
\* uses.
TypeOK ==
  /\ feed \in Feeds /\ held \in BOOLEAN /\ watched \in BOOLEAN
  /\ alert \in [Alerts -> AlertStates]
  /\ {lastPrice, lastEmitted} \subseteq Prices \cup {None}
  /\ task \in [Tasks -> Records]
  /\ \A k \in Tasks : /\ task[k].pc \notin {"idle"} => task[k].price # None
                      /\ task[k].pc \in {"listIds", "readAlert", "mark", "notify"} =>
                           task[k].prev # None
                      /\ task[k].pc = "mark" => task[k].fire # {}
                      /\ task[k].pc = "notify" <=> task[k].now # None
  /\ pushes \in [Alerts -> Nat]
  /\ ticks \in 0..MaxTicks /\ moves \in 0..MaxMoves /\ raises \in 0..MaxRaises
  /\ lastSeq \in 0..MaxTicks
  /\ base \in [Alerts -> Prices \cup {None}]
  /\ newest \in [rivals : SUBSET (0..MaxTicks), excused : BOOLEAN]

\* An alert is pushed once if its quotes are handled in turn, and otherwise at most once
\* by each quote that was in progress when it was first marked.
PushesBounded == \A a \in Alerts :
  pushes[a] <= IF feed = "yahoo" THEN 1 ELSE Cardinality(Tasks)

\* The throttle's comment: "a brief threshold crossing between broadcasts is never
\* missed".  Once every quote is dealt with, an alert that is still armed has the last
\* price on the same side of its target as the first price after its creation; unless a
\* broadcast raised, or overlapping quotes made a ghost of an alert deleted meanwhile.
NoMissedCrossing ==
  Quiet /\ raises = 0 /\ (feed = "yahoo" \/ \A a \in Alerts : alert[a] # "ghost") =>
    \A a \in Alerts : alert[a] = "armed" /\ base[a] # None =>
      ~Crossed(base[a], lastPrice, Target[a])

\* Once every quote is dealt with, the remembered price is that of the quote that arrived
\* last (test_websocket_manager.py: last_prices reflects the most recent tick), or of one
\* that was still to be recorded when it arrived; of Yahoo's it is the last, and the price
\* the poller will not repeat.  Only what befell the last quote itself excuses it: its own
\* broadcast raised, or its ticker was on neither list when it arrived, or the lists changed
\* before it had read them.  What befell the quotes before it does not.
LatestPrice == Quiet /\ ~newest.excused =>
  /\ lastSeq \in {ticks} \cup newest.rivals
  /\ feed = "yahoo" => lastSeq = ticks /\ lastPrice = lastEmitted

\* The user does not lose a one-shot alert: each that is marked triggered has had its
\* push, but for one at most for every broadcast that raised.
TriggeredIsPushed == Quiet =>
  Cardinality({a \in Alerts : alert[a] = "triggered" /\ pushes[a] = 0}) <= raises
=============================================================================
