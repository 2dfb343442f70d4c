-------------------------------- MODULE Feed --------------------------------
(***************************************************************************)
(* The live half of the dashboard (frontend/app/page.tsx): frames arrive   *)
(* on the socket, the last one waits in lastMessage for a render, and the  *)
(* effect behind that render merges it into the rows, their histories, the *)
(* totals and the toasts.  A row is a function from the fields it has to   *)
(* their values, so that merging is @@ as it is the spread in the code.    *)
(* The user's own orders are answered here one at a time and succeed;      *)
(* what becomes of the others is the subject of module Dashboard.          *)
(***************************************************************************)
EXTENDS Integers, Sequences, FiniteSets, Functions, FiniteSetsExt

CONSTANTS
  Tickers,
  Watched,    \* those in the watchlist; the others are holdings or become so
  Rupiah,     \* those with the suffix .JK
  Prices,     \* the prices quoted
  PrevClose,  \* PrevClose[t]: the previous close, 0 if it could not be fetched
  Lots,       \* the holdings the user may enter: [quantity, avg_cost]
  Alerts,     \* ids of alerts, which are the ids of their toasts
  MaxHistory, \* MAX_PRICE_HISTORY
  AutoDismiss,\* AUTO_DISMISS_MS, in units of time
  MaxFrames   \* bound: frames on their way to the page

ASSUME FeedAssumption ==
  /\ Watched \subseteq Tickers /\ Rupiah \subseteq Tickers
  /\ Prices \subseteq Nat \ {0} /\ PrevClose \in [Tickers -> Prices \cup {0}]
  /\ Lots \subseteq [quantity : Nat \ {0}, avg_cost : Nat \ {0}]
  /\ {MaxHistory, AutoDismiss, MaxFrames} \subseteq Nat \ {0}

VARIABLES
  held,        \* server: the lot of each holding
  order,       \* the user's order on its way to the server
  load,        \* the page's first read: not answered, answered with rows, merged
  frames,      \* frames on their way, in order
  lastMessage, \* the frame in the page's state, while no effect has seen it
  portfolio,   \* page: the rows, of holdings and of watched tickers
  behind,      \* holdings whose latest order the first read does not know of
  toasts       \* page: toasts on screen, and the time left to each

vars == <<held, order, load, frames, lastMessage, portfolio, behind, toasts>>

\* A spread, { ...g, ...f }: where both have a field, f's.  (TLC's own @@ has no meaning
\* to the prover.)
f @@ g == [x \in DOMAIN f \cup DOMAIN g |-> IF x \in DOMAIN f THEN f[x] ELSE g[x]]

NoRow == <<>>
With(f, t, v) == [u \in DOMAIN f \cup {t} |-> IF u = t THEN v ELSE f[u]]
Without(f, t) == Restrict(f, DOMAIN f \ {t})
RowOf(t) == IF t \in DOMAIN portfolio THEN portfolio[t] ELSE NoRow
currencyForTicker(t) == IF t \in Rupiah THEN "IDR" ELSE "USD"

\* What the server says a lot is worth at a price.
PositionMath(lot, p) == [position_value |-> p * lot.quantity,
                         position_pnl |-> (p - lot.avg_cost) * lot.quantity]
ChangeMath(t, p) == [change |-> IF PrevClose[t] = 0 THEN 0 ELSE p - PrevClose[t]]

\* What a price says of a ticker in its list (a holding's change is not on screen).
Math(t, p) == IF t \in Watched THEN ChangeMath(t, p) ELSE PositionMath(held[t], p)
PriceUpdate(t, p) ==
  [type |-> "price", ticker |-> t,
   update |-> [price |-> p, currency |-> currencyForTicker(t)] @@ Math(t, p)]
PriceAlert(a) == [type |-> "alert", id |-> a]
NoMessage == [type |-> "none"]

\* GET /portfolio and GET /watchlist: the last price (0 for none), or else the previous
\* close, and what follows from it; nothing if neither is known.
Known(t, last) == IF last # 0 THEN last ELSE PrevClose[t]
EnrichPrice(t, last) ==
  IF Known(t, last) = 0 THEN NoRow ELSE [price |-> Known(t, last)] @@ Math(t, Known(t, last))
Enriched(t, last) ==
  [currency |-> currencyForTicker(t)] @@
  (IF t \in Watched THEN NoRow ELSE held[t]) @@ EnrichPrice(t, last)

Tracked == Watched \cup DOMAIN held

Init ==
  /\ \E S \in SUBSET (Tickers \ Watched) : held \in [S -> Lots]
  /\ order = NoRow /\ load = [state |-> "sent", rows |-> NoRow]
  /\ frames = <<>> /\ lastMessage = NoMessage
  /\ portfolio = NoRow /\ behind = {} /\ toasts = NoRow

-----------------------------------------------------------------------------
(* The reducers.                                                           *)

SetHoldings(rows) ==
  portfolio' = [t \in DOMAIN rows |-> rows[t] @@ RowOf(t)]

AddHoldingNoCurrency(t, lot) ==
  portfolio' = With(portfolio, t, lot @@ RowOf(t))

\* An upsert, with a currency for the time until the server says one.
AddHolding(t, lot) ==
  portfolio' = With(portfolio, t, [currency |-> currencyForTicker(t)] @@ lot @@ RowOf(t))

RemoveHolding(t) == portfolio' = Without(portfolio, t)

History(row) == IF "priceHistory" \in DOMAIN row THEN row.priceHistory ELSE <<>>
SliceAll(s, n) == s
SliceLast(s, n) == SubSeq(s, IF Len(s) > n THEN Len(s) - n + 1 ELSE 1, Len(s))

Ticked(row, update) ==
  [priceHistory |-> SliceLast(Append(History(row), update.price), MaxHistory)]

ApplyUpdateUnder(t, update) ==
  portfolio' = IF t \notin DOMAIN portfolio THEN portfolio
               ELSE With(portfolio, t, Ticked(portfolio[t], update) @@ portfolio[t] @@ update)

\* A tick for a ticker without a row is dropped.
ApplyUpdate(t, update) ==
  portfolio' = IF t \notin DOMAIN portfolio THEN portfolio
               ELSE With(portfolio, t, update @@ Ticked(portfolio[t], update) @@ portfolio[t])

-----------------------------------------------------------------------------
(* The server and the wire.                                                *)

\* A quote that is broadcast.
Quote(t, p) ==
  /\ t \in Tracked
  /\ Len(frames) < MaxFrames
  /\ frames' = Append(frames, PriceUpdate(t, p))
  /\ UNCHANGED <<held, order, load, lastMessage, portfolio, behind, toasts>>

\* An alert fires: its frame follows the price that fired it.
FireAlert(a) ==
  /\ Len(frames) < MaxFrames
  /\ frames' = Append(frames, PriceAlert(a))
  /\ UNCHANGED <<held, order, load, lastMessage, portfolio, behind, toasts>>

LoseFrame ==
  /\ frames # <<>>
  /\ frames' = Tail(frames)
  /\ UNCHANGED <<held, order, load, lastMessage, portfolio, behind, toasts>>

\* Any price may be the last one the server has, whatever frames the page got or missed.
ServeLoad ==
  /\ load.state = "sent"
  /\ \E last \in [Tracked -> Prices \cup {0}] :
       load' = [state |-> "served", rows |-> [t \in Tracked |-> Enriched(t, last[t])]]
  /\ behind' = IF order = NoRow THEN {} ELSE {order.ticker}
  /\ UNCHANGED <<held, order, frames, lastMessage, portfolio, toasts>>

ServeOrder ==
  /\ order # NoRow
  /\ held' = IF order.lot = NoRow THEN Without(held, order.ticker)
             ELSE With(held, order.ticker, order.lot)
  /\ order' = NoRow
  /\ UNCHANGED <<load, frames, lastMessage, portfolio, behind, toasts>>

-----------------------------------------------------------------------------
(* The page.                                                               *)

\* A render of Home hands ToastStack a new onDismiss, which starts every timer anew.
Rerender(shown) == toasts' = [id \in shown |-> AutoDismiss]

\* The user adds, changes or removes a holding, whether or not the page is loaded.
Order(t, lot) ==
  /\ order = NoRow /\ t \notin Watched
  /\ order' = [ticker |-> t, lot |-> lot]
  /\ IF lot = NoRow THEN t \in DOMAIN portfolio /\ RemoveHolding(t) ELSE AddHolding(t, lot)
  /\ behind' = IF load.state = "served" THEN behind \cup {t} ELSE behind \ {t}
  /\ Rerender(DOMAIN toasts)
  /\ UNCHANGED <<held, load, frames, lastMessage>>

MergeLoad ==
  /\ load.state = "served"
  /\ SetHoldings(load.rows)
  /\ load' = [state |-> "done", rows |-> NoRow]
  /\ Rerender(DOMAIN toasts)
  /\ UNCHANGED <<held, order, frames, lastMessage, behind>>

\* onmessage; a frame that was waiting for its render is gone.
OnMessage ==
  /\ frames # <<>>
  /\ lastMessage' = Head(frames) /\ frames' = Tail(frames)
  /\ UNCHANGED <<held, order, load, portfolio, behind, toasts>>

\* The render with the new lastMessage and the effect that reads it.
Render ==
  /\ lastMessage' = NoMessage
  /\ \/ /\ lastMessage.type = "price"
        /\ ApplyUpdate(lastMessage.ticker, lastMessage.update)
        /\ Rerender(DOMAIN toasts)
     \/ /\ lastMessage.type = "alert"
        /\ Rerender(DOMAIN toasts \cup {lastMessage.id})
        /\ UNCHANGED portfolio
  /\ UNCHANGED <<held, order, load, frames, behind>>

\* Time passes: each toast's timer runs.
Elapse ==
  /\ \E id \in DOMAIN toasts : toasts[id] > 0
  /\ toasts' = [id \in DOMAIN toasts |-> IF toasts[id] > 0 THEN toasts[id] - 1 ELSE 0]
  /\ UNCHANGED <<held, order, load, frames, lastMessage, portfolio, behind>>

DismissNever(id) ==
  /\ id \in DOMAIN toasts /\ toasts[id] = 0
  /\ Rerender(DOMAIN toasts)
  /\ UNCHANGED <<held, order, load, frames, lastMessage, portfolio, behind>>

\* A timer that has run out, or the button.
Dismiss(id) ==
  /\ id \in DOMAIN toasts
  /\ Rerender(DOMAIN toasts \ {id})
  /\ UNCHANGED <<held, order, load, frames, lastMessage, portfolio, behind>>

UserOrders == \E t \in Tickers, lot \in Lots \cup {NoRow} : Order(t, lot)
PageNext == MergeLoad \/ OnMessage \/ Render \/ Elapse \/ \E id \in Alerts : Dismiss(id)
Next ==
  \/ \E t \in Tickers, p \in Prices : Quote(t, p)
  \/ \E a \in Alerts : FireAlert(a)
  \/ LoseFrame \/ ServeLoad \/ ServeOrder \/ UserOrders \/ PageNext

\* The server answers, the page renders what it got, time passes and timers are served.
Spec == /\ Init /\ [][Next]_vars
        /\ WF_vars(ServeLoad) /\ WF_vars(ServeOrder) /\ WF_vars(MergeLoad) /\ WF_vars(Render)
        /\ WF_vars(Elapse)
        /\ \A id \in Alerts : WF_vars(id \in DOMAIN toasts /\ toasts[id] = 0 /\ Dismiss(id))

-----------------------------------------------------------------------------
(* What is on screen.                                                      *)

Field(row, f, default) == IF f \in DOMAIN row THEN row[f] ELSE default
Sign(pnl) == IF pnl >= 0 THEN "gain" ELSE "loss"
Unknown == "unknown"

\* PortfolioRowView, the row of the table: colours go by the price.
RowView(row) ==
  [price |-> Field(row, "price", Unknown), pnl |-> Field(row, "position_pnl", Unknown),
   colour |-> IF "price" \in DOMAIN row THEN Sign(Field(row, "position_pnl", 0)) ELSE Unknown]

\* PortfolioRowCard, the same row on a narrow screen: colours go by the profit.
RowCard(row) ==
  [price |-> Field(row, "price", Unknown), pnl |-> Field(row, "position_pnl", Unknown),
   colour |-> IF "position_pnl" \in DOMAIN row THEN Sign(row.position_pnl) ELSE Unknown]

\* The row of the watchlist's table and its card.
WatchView(row) ==
  [price |-> Field(row, "price", Unknown), change |-> Field(row, "change", Unknown),
   colour |-> IF "price" \in DOMAIN row THEN Sign(Field(row, "change", 0)) ELSE Unknown]
WatchCard(row) ==
  [price |-> Field(row, "price", Unknown), change |-> Field(row, "change", Unknown),
   colour |-> IF "price" \in DOMAIN row THEN Sign(Field(row, "change", 0)) ELSE Unknown]

\* The header: one total for each currency, a row without one counting as dollars.
TotalsByCurrency(c) ==
  LET rows == {t \in DOMAIN portfolio \ Watched : Field(portfolio[t], "currency", "USD") = c}
  IN [value |-> MapThenSumSet(LAMBDA t : Field(portfolio[t], "position_value", 0), rows),
      pnl |-> MapThenSumSet(LAMBDA t : Field(portfolio[t], "position_pnl", 0), rows),
      costBasis |-> MapThenSumSet(LAMBDA t : portfolio[t].avg_cost * portfolio[t].quantity, rows)]

-----------------------------------------------------------------------------
(* Properties                                                              *)

Fields == {"currency", "quantity", "avg_cost", "price", "position_value", "position_pnl",
           "change", "priceHistory"}

\* Every variable keeps to its values and a row to its fields; histories stay short.
TypeOK ==
  /\ held \in UNION {[S -> Lots] : S \in SUBSET (Tickers \ Watched)}
  /\ load.state \in {"sent", "served", "done"}
  /\ Len(frames) <= MaxFrames
  /\ DOMAIN portfolio \subseteq Tickers
  /\ \A t \in DOMAIN portfolio :
       /\ DOMAIN portfolio[t] \subseteq Fields
       /\ t \notin Watched => {"quantity", "avg_cost"} \subseteq DOMAIN portfolio[t]
       /\ Len(History(portfolio[t])) <= MaxHistory
  /\ DOMAIN toasts \subseteq Alerts /\ \A id \in DOMAIN toasts : toasts[id] \in 0..AutoDismiss

\* Whatever merged into a row, tick, read or order, and in whichever order: its price, value
\* and profit are of one quote and one lot the user once had, and are there together, so
\* that table and card show the same in the same colour; and each amount counts towards
\* the total of its own currency.
RowsCoherent ==
  /\ \A t \in DOMAIN portfolio \ Watched : LET row == portfolio[t] IN
       /\ RowView(row) = RowCard(row)
       /\ "price" \in DOMAIN row =>
            \E lot \in Lots : /\ row.position_value = row.price * lot.quantity
                              /\ row.position_pnl = row.position_value - lot.avg_cost * lot.quantity
  /\ \A t \in DOMAIN portfolio \cap Watched : LET row == portfolio[t] IN
       /\ WatchView(row) = WatchCard(row)
       /\ "price" \in DOMAIN row => row.change = ChangeMath(t, row.price).change
  /\ \A c \in {"USD", "IDR"} : TotalsByCurrency(c).costBasis =
       MapThenSumSet(LAMBDA t : portfolio[t].avg_cost * portfolio[t].quantity,
                     {t \in DOMAIN portfolio \ Watched : currencyForTicker(t) = c})

\* But for the holdings whose order came too late for the first read: the page shows the
\* server's tickers, the price at the end of the sparkline, and for a holding what that
\* price makes of the lot held.
Settled ==
  /\ \A t \in Tickers \ behind : t \in DOMAIN portfolio <=> t \in Tracked
  /\ \A t \in Tracked \ behind : LET row == portfolio[t] IN
       /\ {"price", "priceHistory"} \subseteq DOMAIN row
       /\ row.priceHistory[Len(row.priceHistory)] = row.price
       /\ t \notin Watched =>
            row = held[t] @@ PositionMath(held[t], row.price) @@
                  [currency |-> currencyForTicker(t), price |-> row.price,
                   priceHistory |-> row.priceHistory]

\* A read older than the ticks it overwrites, frames lost or overwritten before a render,
\* values of the lot before the last order: once the user leaves the holdings alone, ticks
\* that go on being rendered make every row right for good, but for one whose last order
\* the first read's answer does not know of: nothing asks for that row again.
CatchesUp ==
  /\ <>[][~UserOrders]_vars
  /\ \A t \in Tickers :
       \/ <>[](t \notin Tracked)
       \/ []<><<Render /\ lastMessage.type = "price" /\ lastMessage.ticker = t>>_vars
  => <>[]Settled

\* A toast goes by itself, unless messages (each render starts its timer anew) or the
\* user's orders never pause.
ToastsGo ==
  \A id \in Alerts : \/ []<>(id \notin DOMAIN toasts)
                     \/ []<><<OnMessage>>_vars \/ []<><<UserOrders>>_vars
=============================================================================
