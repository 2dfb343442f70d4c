------------------------------ MODULE Tracking ------------------------------
(***************************************************************************)
(* The portfolio, the watchlist and what follows them: main.py's add,      *)
(* remove, watch, unwatch and alert handlers, over the Redis stores they   *)
(* write (portfolio_store.py, watchlist_store.py, alert_store.py), the     *)
(* subscription bridge of websocket_manager.py and the start-up of the     *)
(* server.                                                                 *)
(*                                                                         *)
(* The backend is one asyncio event loop, so handlers interleave exactly   *)
(* at their awaits.  One action here is one Redis command (a MULTI is one  *)
(* command) with the local code around it, or one stretch of the loop that *)
(* touches shared memory.  Redis outlives the process; memory does not.    *)
(***************************************************************************)
EXTENDS Integers, FiniteSets

CONSTANTS
  Tickers,
  Alerts,            \* alert ids; a uuid in the code, so an id is never reused while known
  Reqs,              \* how many HTTP requests can be in flight at once
  None,
  MaxHoldings,       \* MAX_HOLDINGS
  MaxWatchlist,      \* MAX_WATCHLIST
  MaxFailures,       \* bound: requests that die half way (Redis or REST error)
  MaxCrashes         \* bound: crashes and restarts of the process

ASSUME LimitAssumption == /\ MaxHoldings \in Nat \ {0}
                          /\ MaxWatchlist \in Nat \ {0}
ASSUME ReqsAssumption == IsFiniteSet(Reqs) /\ Reqs # {}
ASSUME TickersAssumption == IsFiniteSet(Tickers) /\ None \notin Tickers
ASSUME BudgetAssumption == MaxFailures \in Nat /\ MaxCrashes \in Nat

VARIABLES
  \* Redis
  held,       \* portfolio:tickers
  watched,    \* watchlist:tickers
  alertOf,    \* alertOf[a]: ticker of the stored alert a, None when there is none
  \* the process
  prevClose,  \* tickers with an entry in WebSocketManager._prev_close
  subscribed, \* the price clients' _subscribed
  server,     \* "down", the two phases of the start-up, "up"
  bootTodo,   \* tickers the current start-up phase has yet to track
  req,        \* req[r]: the request in slot r
  \* history
  disturbed,  \* tickers an overlap, a failure or a crash has come upon, until they are at rest
  \* budgets
  failures, crashes

redis == <<held, watched, alertOf>>
memory == <<prevClose, subscribed>>
boot == <<server, bootTodo>>
budgets == <<failures, crashes>>
vars == <<redis, memory, boot, req, disturbed, budgets>>

TickerOps == {"add", "remove", "watch", "unwatch", "setAlert"}
Ops == TickerOps \cup {"deleteAlert", "none"}

\* Where a request of each kind can be: about to run the command or stretch so named.
CleanupLabels == {"check", "delete", "untrack", "forget", "listAlerts", "cascade"}
LabelsOf(op) ==
  CASE op = "add" -> {"count", "store", "track", "fetch", "leaveWatchlist"}
    [] op \in {"remove", "unwatch"} -> CleanupLabels
    [] op = "watch" -> {"check", "count", "store", "track", "fetch"}
    [] op = "setAlert" -> {"check", "checkWatched", "create"}
    [] op = "deleteAlert" -> {"cascade"}
    [] op = "none" -> {"idle"}
Labels == UNION {LabelsOf(op) : op \in Ops}

\* todo: the alerts a removal (or a DELETE /alerts) still has to delete.
Idle == [op |-> "none", pc |-> "idle", ticker |-> None, todo |-> {}]

Requests == [op : Ops, pc : Labels, ticker : Tickers \cup {None}, todo : SUBSET Alerts]

At(r, op, l) == req[r].op = op /\ req[r].pc = l
Goto(r, l) == req' = [req EXCEPT ![r].pc = l]
Finish(r) == req' = [req EXCEPT ![r] = Idle]

Busy(t) == \E r \in Reqs : req[r].ticker = t

-----------------------------------------------------------------------------
Init == /\ held = {} /\ watched = {}
        /\ alertOf = [a \in Alerts |-> None]
        /\ prevClose = {} /\ subscribed = {}
        /\ server = "down" /\ bootTodo = {}
        /\ req = [r \in Reqs |-> Idle]
        /\ disturbed = {} /\ failures = 0 /\ crashes = 0

\* No request is on the ticker, and nothing of what its last ones left behind is amiss.
AtRest(t) ==
  /\ ~Busy(t) /\ t \notin held \cap watched
  /\ server = "up" => (t \in subscribed <=> t \in held \cup watched)
  /\ \A a \in Alerts : alertOf[a] = t => t \in held \cup watched

\* What comes upon the tickers of T: the history every step keeps.
Disturb(T) == disturbed' = {t \in disturbed \cup T : ~AtRest(t)'}

\* uuid4: an id no stored alert has and no request still remembers.
FreshAlerts == {a \in Alerts : alertOf[a] = None /\ \A r \in Reqs : a \notin req[r].todo}

\* Bound: an alert is only asked for while an id is left for it.
IdLeft == Cardinality({r \in Reqs : req[r].op = "setAlert"}) < Cardinality(FreshAlerts)

\* A request about ticker t arrives.
Submit(r, op, t) ==
  /\ server = "up"
  /\ req[r].pc = "idle"
  /\ op = "setAlert" => IdLeft
  /\ req' = [req EXCEPT ![r] = [op |-> op, ticker |-> t, todo |-> {},
                                pc |-> IF op = "add" THEN "count" ELSE "check"]]
  /\ UNCHANGED <<redis, memory, boot, budgets>>
  /\ Disturb(IF Busy(t) THEN {t} ELSE {})

\* DELETE /alerts/{alert_id} of a stored alert (of any other id it changes nothing).
SubmitDeleteAlert(r, a) ==
  /\ server = "up"
  /\ alertOf[a] # None
  /\ req[r].pc = "idle"
  /\ req' = [req EXCEPT ![r] = [op |-> "deleteAlert", pc |-> "cascade", ticker |-> None,
                                todo |-> {a}]]
  /\ UNCHANGED <<redis, memory, boot, budgets>>
  /\ Disturb({})

-----------------------------------------------------------------------------
(* POST /portfolio/add                                                     *)

AddCountOffByOne(r) ==
  /\ At(r, "add", "count")
  /\ IF Cardinality(held) > MaxHoldings THEN Finish(r) ELSE Goto(r, "store")
  /\ UNCHANGED <<redis, memory, boot, budgets>>

\* count_holdings: at the limit the answer is 429, even for a ticker already held.
AddCount(r) ==
  /\ At(r, "add", "count")
  /\ IF Cardinality(held) >= MaxHoldings THEN Finish(r) ELSE Goto(r, "store")
  /\ UNCHANGED <<redis, memory, boot, budgets>>

AddStore(r) ==
  /\ At(r, "add", "store")
  /\ held' = held \cup {req[r].ticker}
  /\ Goto(r, "track")
  /\ UNCHANGED <<watched, alertOf, memory, boot, budgets>>

AddLeaveWatchlist(r) ==
  /\ At(r, "add", "leaveWatchlist")
  /\ watched' = watched \ {req[r].ticker}
  /\ Finish(r)
  /\ UNCHANGED <<held, alertOf, memory, boot, budgets>>

-----------------------------------------------------------------------------
(* track_ticker, from the two handlers that call it.                       *)

AfterTrackUnbranched(r) == Goto(r, "leaveWatchlist")

AfterTrack(r) == IF req[r].op = "add" THEN Goto(r, "leaveWatchlist") ELSE Finish(r)

\* A ticker with a previous close subscribes at once, in the same stretch of the loop.
TrackKnown(r) ==
  /\ req[r].pc = "track"
  /\ req[r].ticker \in prevClose
  /\ subscribed' = subscribed \cup {req[r].ticker}
  /\ AfterTrack(r)
  /\ UNCHANGED <<redis, prevClose, boot, budgets>>

\* Otherwise the handler first awaits get_previous_close ...
TrackUnknown(r) ==
  /\ req[r].pc = "track"
  /\ req[r].ticker \notin prevClose
  /\ Goto(r, "fetch")
  /\ UNCHANGED <<redis, memory, boot, budgets>>

TrackFetchedOnlyWithClose(r) ==
  /\ req[r].pc = "fetch"
  /\ \/ UNCHANGED memory
     \/ /\ prevClose' = prevClose \cup {req[r].ticker}
        /\ subscribed' = subscribed \cup {req[r].ticker}
  /\ AfterTrack(r)
  /\ UNCHANGED <<redis, boot, budgets>>

\* ... which answers with a price or with nothing, and then subscribes.
TrackFetched(r) ==
  /\ req[r].pc = "fetch"
  /\ prevClose' \in {prevClose, prevClose \cup {req[r].ticker}}
  /\ subscribed' = subscribed \cup {req[r].ticker}
  /\ AfterTrack(r)
  /\ UNCHANGED <<redis, boot, budgets>>

-----------------------------------------------------------------------------
(* DELETE /portfolio/{ticker} and DELETE /watchlist/{ticker}               *)

RemoveCheck(r) ==
  /\ At(r, "remove", "check")
  /\ IF req[r].ticker \in held THEN Goto(r, "delete") ELSE Finish(r)
  /\ UNCHANGED <<redis, memory, boot, budgets>>

RemoveStoreWithoutUntrack(r) ==
  /\ At(r, "remove", "delete")
  /\ held' = held \ {req[r].ticker}
  /\ Goto(r, "listAlerts")
  /\ UNCHANGED <<watched, alertOf, memory, boot, budgets>>

RemoveStore(r) ==
  /\ At(r, "remove", "delete")
  /\ held' = held \ {req[r].ticker}
  /\ Goto(r, "untrack")
  /\ UNCHANGED <<watched, alertOf, memory, boot, budgets>>

UnwatchCheck(r) ==
  /\ At(r, "unwatch", "check")
  /\ IF req[r].ticker \in watched THEN Goto(r, "delete") ELSE Finish(r)
  /\ UNCHANGED <<redis, memory, boot, budgets>>

UnwatchStore(r) ==
  /\ At(r, "unwatch", "delete")
  /\ watched' = watched \ {req[r].ticker}
  /\ Goto(r, "untrack")
  /\ UNCHANGED <<held, alertOf, memory, boot, budgets>>

UntrackOnlyWithClose(r) ==
  /\ req[r].pc = "untrack"
  /\ subscribed' = subscribed \ ({req[r].ticker} \cap prevClose)
  /\ prevClose' = prevClose \ {req[r].ticker}
  /\ Goto(r, "listAlerts")
  /\ UNCHANGED <<redis, boot, budgets>>

\* untrack_ticker: unsubscribe_quote leaves _subscribed first.  A live Alpaca stream
\* suspends the handler there (to_thread); Yahoo, or no stream, does not.
Untrack(r) ==
  /\ req[r].pc = "untrack"
  /\ subscribed' = subscribed \ {req[r].ticker}
  /\ \/ /\ req[r].ticker \in subscribed
        /\ Goto(r, "forget")
        /\ UNCHANGED prevClose
     \/ /\ prevClose' = prevClose \ {req[r].ticker}
        /\ Goto(r, "listAlerts")
  /\ UNCHANGED <<redis, boot, budgets>>

Forget(r) ==
  /\ req[r].pc = "forget"
  /\ prevClose' = prevClose \ {req[r].ticker}
  /\ Goto(r, "listAlerts")
  /\ UNCHANGED <<redis, subscribed, boot, budgets>>

ListAlertsOfHoldingsOnly(r) ==
  /\ req[r].pc = "listAlerts"
  /\ req' = [req EXCEPT ![r].pc = "cascade",
                        ![r].todo = {a \in Alerts : /\ alertOf[a] = req[r].ticker
                                                    /\ req[r].op = "remove"}]
  /\ UNCHANGED <<redis, memory, boot, budgets>>

\* delete_alerts_for_ticker: list the ticker's alerts, then delete them one by one.
ListAlerts(r) ==
  /\ req[r].pc = "listAlerts"
  /\ req' = [req EXCEPT ![r].pc = "cascade",
                        ![r].todo = {a \in Alerts : alertOf[a] = req[r].ticker}]
  /\ UNCHANGED <<redis, memory, boot, budgets>>

\* AlertStore.delete_alert; on an id that is already gone it changes nothing.
DeleteAlert(r, a) ==
  /\ req[r].pc = "cascade"
  /\ a \in req[r].todo
  /\ alertOf' = [alertOf EXCEPT ![a] = None]
  /\ req' = [req EXCEPT ![r].todo = @ \ {a}]
  /\ UNCHANGED <<held, watched, memory, boot, budgets>>

CascadeDone(r) ==
  /\ req[r].pc = "cascade"
  /\ req[r].todo = {}
  /\ Finish(r)
  /\ UNCHANGED <<redis, memory, boot, budgets>>

-----------------------------------------------------------------------------
(* POST /watchlist/add                                                     *)

WatchCheckDropped(r) ==
  /\ At(r, "watch", "check")
  /\ Goto(r, "count")
  /\ UNCHANGED <<redis, memory, boot, budgets>>

WatchCheck(r) ==
  /\ At(r, "watch", "check")
  /\ IF req[r].ticker \in held THEN Finish(r) ELSE Goto(r, "count")
  /\ UNCHANGED <<redis, memory, boot, budgets>>

WatchCount(r) ==
  /\ At(r, "watch", "count")
  /\ IF Cardinality(watched) >= MaxWatchlist THEN Finish(r) ELSE Goto(r, "store")
  /\ UNCHANGED <<redis, memory, boot, budgets>>

WatchStore(r) ==
  /\ At(r, "watch", "store")
  /\ watched' = watched \cup {req[r].ticker}
  /\ Goto(r, "track")
  /\ UNCHANGED <<held, alertOf, memory, boot, budgets>>

-----------------------------------------------------------------------------
(* POST /alerts: both lists are read, one after the other, then the alert  *)
(* is stored.                                                              *)

AlertCheckDropped(r) ==
  /\ At(r, "setAlert", "check")
  /\ Goto(r, "create")
  /\ UNCHANGED <<redis, memory, boot, budgets>>

AlertCheckHeld(r) ==
  /\ At(r, "setAlert", "check")
  /\ IF req[r].ticker \in held THEN Goto(r, "create") ELSE Goto(r, "checkWatched")
  /\ UNCHANGED <<redis, memory, boot, budgets>>

AlertCheckWatched(r) ==
  /\ At(r, "setAlert", "checkWatched")
  /\ IF req[r].ticker \in watched THEN Goto(r, "create") ELSE Finish(r)
  /\ UNCHANGED <<redis, memory, boot, budgets>>

AlertCreate(r, a) ==
  /\ At(r, "setAlert", "create")
  /\ a \in FreshAlerts
  /\ alertOf' = [alertOf EXCEPT ![a] = req[r].ticker]
  /\ Finish(r)
  /\ UNCHANGED <<held, watched, memory, boot, budgets>>

-----------------------------------------------------------------------------
(* The lifespan: start-up, failures, crashes.                              *)

BootStart ==
  /\ server = "down"
  /\ server' = "holdings"
  /\ bootTodo' = held
  /\ UNCHANGED <<redis, memory, req, budgets>>

\* load_initial_holdings and load_initial_watchlist await track_ticker on each ticker;
\* no request is served yet, so nothing comes between the steps of one track.
BootTrack(t) ==
  /\ t \in bootTodo
  /\ bootTodo' = bootTodo \ {t}
  /\ prevClose' \in {prevClose, prevClose \cup {t}}
  /\ subscribed' = subscribed \cup {t}
  /\ UNCHANGED <<redis, server, req, budgets>>

BootPhaseHoldingsOnly ==
  /\ bootTodo = {}
  /\ \/ server = "holdings" /\ server' = "watchlist"
     \/ server = "watchlist" /\ server' = "up"
  /\ UNCHANGED <<redis, memory, bootTodo, req, budgets>>

BootPhase ==
  /\ bootTodo = {}
  /\ \/ server = "holdings" /\ server' = "watchlist" /\ bootTodo' = watched
     \/ server = "watchlist" /\ server' = "up" /\ bootTodo' = {}
  /\ UNCHANGED <<redis, memory, req, budgets>>

\* A command or a REST call raises: the handler answers 500 and nothing undoes the
\* steps it has taken.
Fail(r) ==
  /\ failures < MaxFailures
  /\ req[r].pc # "idle"
  /\ failures' = failures + 1
  /\ Finish(r)
  /\ UNCHANGED <<redis, memory, boot, crashes>>
  /\ Disturb({req[r].ticker} \ {None})

\* The process dies, or its start-up raises: memory and requests are gone.
Crash ==
  /\ server # "down"
  /\ crashes < MaxCrashes
  /\ crashes' = crashes + 1
  /\ server' = "down" /\ bootTodo' = {}
  /\ prevClose' = {} /\ subscribed' = {}
  /\ req' = [r \in Reqs |-> Idle]
  /\ UNCHANGED <<redis, failures>>
  /\ Disturb({t \in Tickers : Busy(t)})

-----------------------------------------------------------------------------
AddStep(r) == AddCount(r) \/ AddStore(r) \/ AddLeaveWatchlist(r)
RemoveStep(r) == RemoveCheck(r) \/ RemoveStore(r) \/ UnwatchCheck(r) \/ UnwatchStore(r)
WatchStep(r) == WatchCheck(r) \/ WatchCount(r) \/ WatchStore(r)
TrackStep(r) == TrackKnown(r) \/ TrackUnknown(r) \/ TrackFetched(r) \/ Untrack(r) \/ Forget(r)
AlertStep(r) == \/ AlertCheckHeld(r) \/ AlertCheckWatched(r) \/ ListAlerts(r) \/ CascadeDone(r)
                \/ \E a \in Alerts : AlertCreate(r, a) \/ DeleteAlert(r, a)

Step(r) == /\ AddStep(r) \/ RemoveStep(r) \/ WatchStep(r) \/ TrackStep(r) \/ AlertStep(r)
           /\ Disturb({})
Arrive(r) == \/ \E op \in TickerOps, t \in Tickers : Submit(r, op, t)
             \/ \E a \in Alerts : SubmitDeleteAlert(r, a)
Boot == /\ BootStart \/ BootPhase \/ \E t \in Tickers : BootTrack(t)
        /\ Disturb({})

Next == \/ \E r \in Reqs : Arrive(r) \/ Step(r) \/ Fail(r)
        \/ Boot \/ Crash

Spec == Init /\ [][Next]_vars

\* Redis and the REST calls answer or raise, so a request in flight keeps moving.
FairSpec == Spec /\ WF_vars(Boot) /\ \A r \in Reqs : WF_vars(Step(r))

-----------------------------------------------------------------------------
(* Properties                                                              *)

\* Every variable keeps to the values the code can give it.
TypeOK ==
  /\ held \subseteq Tickers /\ watched \subseteq Tickers
  /\ alertOf \in [Alerts -> Tickers \cup {None}]
  /\ prevClose \subseteq Tickers /\ subscribed \subseteq Tickers
  /\ server \in {"down", "holdings", "watchlist", "up"}
  /\ bootTodo \subseteq Tickers
  /\ req \in [Reqs -> Requests]
  /\ \A r \in Reqs : /\ req[r].pc \in LabelsOf(req[r].op)
                     /\ req[r].op \in TickerOps <=> req[r].ticker # None
  /\ disturbed \subseteq Tickers
  /\ failures \in 0..MaxFailures /\ crashes \in 0..MaxCrashes

\* The limits are checked in one await and used in the next (add_holding,
\* add_to_watchlist), so requests that passed the check together can overshoot
\* them, by fewer than there are requests in flight and never by more.
ListsBounded ==
  /\ Cardinality(held) < MaxHoldings + Cardinality(Reqs)
  /\ Cardinality(watched) < MaxWatchlist + Cardinality(Reqs)

\* A ticker is in both lists only while the add that bought it is about to take it
\* off the watchlist (add_holding's auto-migration), or something has come upon it.
OneList == \A t \in held \cap watched : t \in disturbed \/ \E r \in Reqs :
  /\ req[r].op = "add" /\ req[r].ticker = t
  /\ req[r].pc \in {"track", "fetch", "leaveWatchlist"}

\* When no request is on it, and unless something has come upon it, a ticker streams
\* exactly when it is in one of the lists.
StreamsExactly == server = "up" => \A t \in Tickers : Busy(t) \/ t \in disturbed
                    \/ (t \in subscribed <=> t \in held \cup watched)

\* No subscription outlives its ticker's place in the lists, but for a removal (or
\* an add) that is still running or that something has come upon.
NoLeak == \A t \in subscribed : t \in held \cup watched \/ Busy(t) \/ t \in disturbed

\* No alert stays in the list of alerts for a ticker that is in neither list
\* (delete_alerts_for_ticker exists for this), unless something has come upon the ticker.
NoOrphanAlert == \A a \in Alerts : alertOf[a] # None =>
                   alertOf[a] \in held \cup watched \cup disturbed \/ Busy(alertOf[a])

\* Whatever was left half done before, a start-up ends with exactly the tickers of
\* the two lists subscribed.
BootRepairs == [][server # "up" /\ server' = "up" => subscribed' = held' \cup watched']_vars

\* A ticker that was bought starts to stream and one that was dropped stops, or something
\* comes upon it.
Settles == \A t \in Tickers :
  (server = "up" /\ t \notin disturbed /\ (t \in subscribed) # (t \in held \cup watched))
    ~> (t \in disturbed \/ (t \in subscribed) = (t \in held \cup watched))

\* The handlers implement the promise of TrackedSet: a ticker is owned, watched or
\* neither, and alerts are only made on listed tickers; nothing is promised of a ticker
\* that something has come upon until it is at rest again.
Status == [t \in Tickers |-> IF t \in disturbed THEN "unknown"
                             ELSE IF t \in held THEN "held"
                             ELSE IF t \in watched THEN "watched" ELSE "none"]
Promise == INSTANCE TrackedSet WITH status <- Status, owner <- alertOf
ImplementsTrackedSet == Promise!Spec
=============================================================================
