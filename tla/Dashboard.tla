----------------------------- MODULE Dashboard -----------------------------
(***************************************************************************)
(* The dashboard page (frontend/app/page.tsx) beside the server whose      *)
(* lists it shows.  The page changes its own lists at once and sends a     *)
(* request; requests are in flight together, are processed by the server   *)
(* in any order, answered in any order, refused, or lost on either way.    *)
(* The three reads of a page that is loading are such requests.  The       *)
(* server's handlers are single steps here; their interleaving is the      *)
(* subject of module Tracking.  Prices are the subject of module Feed.     *)
(***************************************************************************)
EXTENDS Page, Sequences, SequencesExt

CONSTANTS
  Alerts, None,
  MaxInFlight \* bound: requests in flight once the user has started another

ASSUME DashboardAssumption == None \notin Tickers \cup Alerts /\ MaxInFlight \in Nat \ {0}

Reads == {"portfolio", "watchlist", "alerts"}
Writes == {"add", "remove", "watch", "unwatch", "setAlert", "deleteAlert"}

VARIABLES
  status,    \* server: the list each ticker is in
  owner,     \* server: the ticker of each alert, None for an alert that is not there
  fired,     \* server: the alerts whose triggered flag is set
  portfolio, \* page: the tickers with a row in the holdings table
  watchlist, \* page: the tickers with a row in the watchlist
  alerts,    \* page: the alerts, in the order they were added
  toasts,    \* page: the toasts on screen, by alert, None for an error message
  requests,  \* requests in flight, in the order they were sent
  frames,    \* price_alert frames on their way to the page
  past       \* history: what happened to each ticker since the page was loaded

serverVars == <<status, owner, fired>>
pageVars == <<portfolio, watchlist, alerts, toasts>>
vars == <<serverVars, pageVars, requests, frames, past>>

In(list) == {t \in Tickers : status[t] = list}
Request(op, t, a) == [op |-> op, ticker |-> t, alert |-> a, mine |-> TRUE,
                      state |-> "sent", ok |-> FALSE, result |-> {}]
Load == << Request("portfolio", None, None), Request("watchlist", None, None),
           Request("alerts", None, None) >>
About(r) == IF r.op \in Reads THEN Tickers ELSE {r.ticker}
Busy == UNION {About(requests[i]) : i \in DOMAIN requests}

\* A page opens with empty lists and its three reads on their way.
Init ==
  /\ status \in [Tickers -> {"none", "held", "watched"}]
  /\ owner = [a \in Alerts |-> None] /\ fired = {}
  /\ portfolio = {} /\ watchlist = {} /\ alerts = <<>> /\ toasts = {}
  /\ requests = Load /\ frames = <<>>
  /\ past = [t \in Tickers |-> {}]

Mark(S, what) == past' = [t \in Tickers |-> past[t] \cup (IF t \in S THEN what ELSE {})]

-----------------------------------------------------------------------------
(* What the user does: the optimistic change and the request.              *)

Send(op, t, a, also) ==
  /\ Len(requests) < MaxInFlight
  /\ requests' = Append(requests, Request(op, t, a))
  /\ Mark({t}, also \cup IF t \in Busy THEN {"overlap"} ELSE {})
  /\ UNCHANGED <<serverVars, frames, toasts>>

\* AddTickerForm and handleAdd: an upsert of the row.
HandleAdd(t) ==
  /\ portfolio' = portfolio \cup {t}
  /\ Send("add", t, None, IF t \in watchlist THEN {"bought"} ELSE {})
  /\ UNCHANGED <<watchlist, alerts>>

HandleRemoveKeepsAlerts(t) ==
  /\ t \in portfolio
  /\ portfolio' = portfolio \ {t}
  /\ Send("remove", t, None, {})
  /\ UNCHANGED <<watchlist, alerts>>

\* handleRemove: the row goes, and the alerts of its ticker with it.
HandleRemove(t) ==
  /\ t \in portfolio
  /\ portfolio' = portfolio \ {t}
  /\ alerts' = Keep(alerts, {i \in DOMAIN alerts : alerts[i].ticker # t})
  /\ Send("remove", t, None, {})
  /\ UNCHANGED watchlist

HandleAddToWatchlist(t) ==
  /\ watchlist' = watchlist \cup {t}
  /\ Send("watch", t, None, {})
  /\ UNCHANGED <<portfolio, alerts>>

\* Unlike handleRemove this leaves the ticker's alerts on the page.
HandleRemoveFromWatchlist(t) ==
  /\ t \in watchlist
  /\ watchlist' = watchlist \ {t}
  /\ Send("unwatch", t, None, {"unwatched"})
  /\ UNCHANGED <<portfolio, alerts>>

\* The alert form of a row; the alert is on the page when the answer is.
HandleSetAlert(t) ==
  /\ t \in portfolio
  /\ Send("setAlert", t, None, {})
  /\ UNCHANGED <<portfolio, watchlist, alerts>>

\* The chip of an alert, fired or not, has its delete button in the row of its ticker.
HandleDeleteAlert(x) ==
  /\ x.ticker \in portfolio
  /\ alerts' = Keep(alerts, {i \in DOMAIN alerts : alerts[i].id # x.id})
  /\ Send("deleteAlert", x.ticker, x.id, {})
  /\ UNCHANGED <<portfolio, watchlist>>

Dismiss(id) ==
  /\ id \in toasts
  /\ toasts' = toasts \ {id}
  /\ UNCHANGED <<serverVars, portfolio, watchlist, alerts, requests, frames, past>>

\* The page is left or loaded again: what it awaited is dropped, requests that the server
\* has not seen may still reach it, and frames go with the socket.
Reload ==
  /\ portfolio' = {} /\ watchlist' = {} /\ alerts' = <<>> /\ toasts' = {}
  /\ LET rest == Keep(requests, {i \in DOMAIN requests : /\ requests[i].state = "sent"
                                                          /\ requests[i].op \in Writes})
         seen == {rest[i].ticker : i \in DOMAIN rest}
     IN /\ requests' = [i \in DOMAIN rest |-> [rest[i] EXCEPT !.mine = FALSE]] \o Load
        /\ Len(requests') <= MaxInFlight + Len(Load)
        /\ past' = [t \in Tickers |-> IF t \in seen THEN {"overlap"} ELSE {}]
  /\ frames' = <<>>
  /\ UNCHANGED serverVars

-----------------------------------------------------------------------------
(* The server.                                                             *)

\* uuid4: an id nothing refers to.
Fresh(a) == /\ owner[a] = None /\ a \notin toasts
            /\ \A i \in DOMAIN alerts : alerts[i].id # a
            /\ \A i \in DOMAIN requests :
                 /\ requests[i].alert # a /\ requests[i].result # {a}
                 /\ requests[i].op = "alerts" => \A x \in requests[i].result : x.id # a
            /\ \A i \in DOMAIN frames : frames[i] # a

Done(i, result) == requests' = [requests EXCEPT ![i].state = "done", ![i].ok = TRUE,
                                                ![i].result = result]

ServesReads(i) == LET r == requests[i] IN
  /\ \/ r.op = "portfolio" /\ Done(i, In("held"))
     \/ r.op = "watchlist" /\ Done(i, In("watched"))
     \/ r.op = "alerts" /\ Done(i, {[id |-> a, ticker |-> owner[a], triggered |-> a \in fired] :
                                      a \in {b \in Alerts : owner[b] # None}})
  /\ UNCHANGED serverVars

\* An upsert, which takes the ticker off the watchlist.
ServesAdd(i) == LET t == requests[i].ticker IN
  /\ requests[i].op = "add"
  /\ status' = [status EXCEPT ![t] = "held"]
  /\ Done(i, {}) /\ UNCHANGED <<owner, fired>>

ServesWatch(i) == LET t == requests[i].ticker IN
  /\ requests[i].op = "watch"
  /\ status[t] # "held"
  /\ status' = [status EXCEPT ![t] = "watched"]
  /\ Done(i, {}) /\ UNCHANGED <<owner, fired>>

\* A ticker that leaves either list takes its alerts with it.
ServesRemoval(i) == LET t == requests[i].ticker IN
  /\ \/ requests[i].op = "remove" /\ status[t] = "held"
     \/ requests[i].op = "unwatch" /\ status[t] = "watched"
  /\ status' = [status EXCEPT ![t] = "none"]
  /\ owner' = [a \in Alerts |-> IF owner[a] = t THEN None ELSE owner[a]]
  /\ fired' = {a \in fired : owner[a] # t}
  /\ Done(i, {})

ServesSetAlert(i) == LET t == requests[i].ticker IN
  /\ requests[i].op = "setAlert"
  /\ status[t] # "none"
  /\ \E a \in Alerts : Fresh(a) /\ owner' = [owner EXCEPT ![a] = t] /\ Done(i, {a})
  /\ UNCHANGED <<status, fired>>

ServesDeleteAlert(i) == LET a == requests[i].alert IN
  /\ requests[i].op = "deleteAlert"
  /\ owner' = [owner EXCEPT ![a] = None] /\ fired' = fired \ {a}
  /\ Done(i, {}) /\ UNCHANGED status

\* A refusal: the handler's 4xx (a list at its limit, also when the ticker is already in
\* it; a ticker that is or is not in a list), or a 5xx before it did anything.
Refuses(i) ==
  /\ requests' = [requests EXCEPT ![i].state = "done"]
  /\ UNCHANGED serverVars

Serve(i) ==
  /\ requests[i].state = "sent"
  /\ \/ ServesReads(i) \/ ServesAdd(i) \/ ServesWatch(i) \/ ServesRemoval(i)
     \/ ServesSetAlert(i) \/ ServesDeleteAlert(i)
     \/ Refuses(i)
  /\ UNCHANGED <<pageVars, frames, past>>

\* check_and_trigger: the alert is marked and its frame broadcast to the page's socket.
Fire(a) ==
  /\ owner[a] # None /\ a \notin fired
  /\ fired' = fired \cup {a}
  /\ frames' = Append(frames, a)
  /\ UNCHANGED <<status, owner, pageVars, requests, past>>

-----------------------------------------------------------------------------
(* What comes back to the page.                                            *)

Gone(i) == requests' = RemoveAt(requests, i)

\* The .then of each read: the page's list becomes what the answer says.
SetHoldings(r) == /\ r.op = "portfolio" /\ portfolio' = r.result
                  /\ UNCHANGED <<watchlist, alerts, toasts>>
SetWatchlist(r) == /\ r.op = "watchlist" /\ watchlist' = r.result
                   /\ UNCHANGED <<portfolio, alerts, toasts>>
SetAlerts(r) == /\ r.op = "alerts" /\ alerts' = SetToSeq(r.result)
                /\ UNCHANGED <<portfolio, watchlist, toasts>>

\* The answer to a new alert has its id, and the flag it was made with.
AlertMade(r) ==
  /\ r.op = "setAlert"
  /\ \E a \in r.result :
       alerts' = Append(alerts, [id |-> a, ticker |-> r.ticker, triggered |-> FALSE])
  /\ UNCHANGED <<portfolio, watchlist, toasts>>

NothingToDo(r) == /\ r.op \in {"add", "remove", "watch", "unwatch", "deleteAlert"}
                  /\ UNCHANGED pageVars

AddFailedKeepsRow(r) == r.op = "add" /\ UNCHANGED pageVars

\* Not ok, or fetch threw: an add is rolled back by removing the row.
AddFailed(r) == /\ r.op = "add" /\ portfolio' = portfolio \ {r.ticker}
                /\ UNCHANGED <<watchlist, alerts, toasts>>
WatchFailed(r) == /\ r.op = "watch" /\ watchlist' = watchlist \ {r.ticker}
                  /\ UNCHANGED <<portfolio, alerts, toasts>>
SetAlertFailed(r) == /\ r.op = "setAlert" /\ toasts' = toasts \cup {None}
                     /\ UNCHANGED <<portfolio, watchlist, alerts>>
Swallowed(r) == /\ r.op \in Reads \cup {"remove", "unwatch", "deleteAlert"}
                /\ UNCHANGED pageVars

Succeeded(r) == \/ SetHoldings(r) \/ SetWatchlist(r) \/ SetAlerts(r)
                \/ AlertMade(r) \/ NothingToDo(r)
Failed(r) == AddFailed(r) \/ WatchFailed(r) \/ SetAlertFailed(r) \/ Swallowed(r)

Answer(i) == LET r == requests[i] IN
  /\ r.mine /\ r.state = "done"
  /\ Gone(i)
  /\ IF r.ok THEN Succeeded(r) ELSE Failed(r)
  /\ Mark(IF r.ok THEN {} ELSE About(r), {"failed"})
  /\ UNCHANGED <<serverVars, frames>>

\* fetch throws: the request or its answer is lost, or only taken for lost.
Throw(i) == LET r == requests[i] IN
  /\ r.mine
  /\ \/ Gone(i)
     \/ r.state = "sent" /\ r.op \in Writes /\ requests' = [requests EXCEPT ![i].mine = FALSE]
  /\ Failed(r)
  /\ Mark(About(r), {"failed"})
  /\ UNCHANGED <<serverVars, frames>>

\* The request of a page that is gone reaches its end.
Forgotten(i) ==
  /\ ~requests[i].mine
  /\ Gone(i)
  /\ UNCHANGED <<serverVars, pageVars, frames, past>>

\* The price_alert branch: the alert is marked if it is in the list, and a toast is shown.
OnPriceAlert ==
  /\ frames # <<>>
  /\ LET a == Head(frames) IN
     /\ alerts' = [i \in DOMAIN alerts |->
                     IF alerts[i].id = a THEN [alerts[i] EXCEPT !.triggered = TRUE] ELSE alerts[i]]
     /\ toasts' = toasts \cup {a}
     /\ Mark(IF \E i \in DOMAIN alerts : alerts[i].id = a THEN {} ELSE Tickers, {"missed"})
  /\ frames' = Tail(frames)
  /\ UNCHANGED <<serverVars, portfolio, watchlist, requests>>

\* A frame is lost: no connection, or another frame replaced it in lastMessage.
LoseFrame ==
  /\ frames # <<>>
  /\ frames' = Tail(frames)
  /\ Mark(Tickers, {"missed"})
  /\ UNCHANGED <<serverVars, pageVars, requests>>

Next ==
  \/ \E t \in Tickers : \/ HandleAdd(t) \/ HandleRemove(t) \/ HandleSetAlert(t)
                        \/ HandleAddToWatchlist(t) \/ HandleRemoveFromWatchlist(t)
  \/ \E i \in DOMAIN alerts : HandleDeleteAlert(alerts[i])
  \/ \E id \in toasts : Dismiss(id)
  \/ Reload \/ OnPriceAlert \/ LoseFrame
  \/ \E a \in Alerts : Fire(a)
  \/ \E i \in DOMAIN requests : Serve(i) \/ Answer(i) \/ Throw(i) \/ Forgotten(i)

Spec == Init /\ [][Next]_vars

-----------------------------------------------------------------------------
(* Properties                                                              *)

\* The number on the app's icon: alerts that fired and are still on the page.
Badge == Cardinality({i \in DOMAIN alerts : alerts[i].triggered})

\* What the row of a ticker is given, and the chip it shows for each of its alerts.
AlertsOf(t) == Keep(alerts, {i \in DOMAIN alerts : alerts[i].ticker = t})
Chips(t) == LET mine == AlertsOf(t)
            IN [i \in DOMAIN mine |-> [id |-> mine[i].id,
                                      title |-> IF mine[i].triggered THEN "fired" ELSE "watching"]]

AtRest == requests = <<>> /\ frames = <<>>

\* Every variable keeps to its values, and a fired alert is one the server has.
TypeOK ==
  /\ status \in [Tickers -> {"none", "held", "watched"}]
  /\ owner \in [Alerts -> Tickers \cup {None}]
  /\ \A a \in fired : owner[a] # None
  /\ portfolio \subseteq Tickers /\ watchlist \subseteq Tickers
  /\ \A i \in DOMAIN alerts : alerts[i] \in [id : Alerts, ticker : Tickers, triggered : BOOLEAN]
  /\ toasts \subseteq Alerts \cup {None}
  /\ \A i \in DOMAIN requests : /\ requests[i].op \in Reads \cup Writes
                                /\ requests[i].op \in Reads <=> requests[i].ticker = None
  /\ Len(requests) <= MaxInFlight + Len(Load)
  /\ \A i \in DOMAIN frames : frames[i] \in Alerts
  /\ past \in [Tickers -> SUBSET {"overlap", "failed", "bought", "unwatched", "missed"}]

\* Once nothing is in flight, a row is one the server feeds, whatever failed on the way,
\* unless requests on its ticker overlapped (or, for the watchlist, it was bought); and
\* where nothing failed either the page shows exactly the server's lists, so that a page
\* loaded again has back what a failed request took from it.
RowsAgree == AtRest => \A t \in Tickers : "overlap" \notin past[t] =>
  /\ t \in portfolio => status[t] = "held"
  /\ t \in watchlist /\ "bought" \notin past[t] => status[t] = "watched"
  /\ "failed" \notin past[t] => /\ status[t] = "held" => t \in portfolio
                                /\ status[t] = "watched" => t \in watchlist

\* Once nothing is in flight, the page has each alert of the server once, in its ticker's
\* row, with a chip that says whether it fired; unless requests on the ticker overlapped or
\* failed, the frame of an alert was missed, or the ticker was taken off the watchlist,
\* where the page keeps the alerts that the server deletes.  Where no ticker had any of
\* that, the badge counts the alerts the server has marked.
AlertsAgree == AtRest =>
  LET Calm(t) == past[t] \subseteq {"bought"}
  IN /\ \A t \in Tickers : Calm(t) =>
          /\ Range(Chips(t)) = {[id |-> a, title |-> IF a \in fired THEN "fired" ELSE "watching"] :
                                a \in {b \in Alerts : owner[b] = t}}
          /\ IsInjective(AlertsOf(t))
          /\ AlertsOf(t) # <<>> => t \in portfolio \cup watchlist
     /\ (\A t \in Tickers : Calm(t)) => Badge = Cardinality(fired)
=============================================================================
