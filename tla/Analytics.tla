----------------------------- MODULE Analytics -----------------------------
(***************************************************************************)
(* Hourly snapshots of the portfolio (backend/analytics_service.py) and    *)
(* the page drawn from them (frontend/app/analytics/page.tsx).             *)
(*                                                                         *)
(* What is held, and which prices are known, is read from the rest of the  *)
(* server when a snapshot is taken, so it is an input here.  Amounts are   *)
(* integers; percentages are rounded as the code rounds them.              *)
(***************************************************************************)
EXTENDS Page, Integers, Sequences, SequencesExt, Functions

CONSTANTS
  Rupiah,      \* those with the suffix .JK
  Lot,         \* Lot[t]: the quantity and average cost of t, when it is held
  Prices,      \* Prices[t]: the prices of t seen
  Retention,   \* SNAPSHOT_RETENTION_DAYS, in units of the snapshot interval
  HistoryDays, \* HISTORY_DAYS, likewise
  Window,      \* PERFORMANCE_WINDOW_DAYS, likewise
  MaxSnapshots \* bound: snapshots kept

ASSUME AnalyticsAssumption ==
  /\ IsFiniteSet(Tickers) /\ "none" \notin Tickers /\ Rupiah \subseteq Tickers
  /\ Prices \in [Tickers -> SUBSET (Nat \ {0})]
  /\ Lot \in [Tickers -> [quantity : Nat \ {0}, avg_cost : Nat \ {0}]]
  /\ {Retention, HistoryDays, Window, MaxSnapshots} \subseteq Nat
  /\ Window < HistoryDays /\ HistoryDays < Retention

VARIABLES
  snapshots, \* the sorted set, the oldest first, each snapshot with its age
  job,       \* the snapshot loop: due, asleep, or with the holdings it has read
  query,     \* GET /analytics: not sent, sent, with the history read, or answered
  page,      \* what the page shows: nothing yet, an error, or data
  data,      \* what it was answered
  overtaken  \* was a snapshot stored between the two reads of the request?

analyticsVars == <<snapshots, job, query, page, data, overtaken>>

currencyForTicker(t) == IF t \in Rupiah THEN "IDR" ELSE "USD"
Currencies == {"USD", "IDR"}

NoQuery == [pc |-> "none", history |-> <<>>]
NoData == <<>>

AnalyticsInit == /\ snapshots = <<>> /\ job = [pc |-> "due", holdings |-> {}]
                 /\ query = NoQuery /\ page = "closed" /\ data = NoData /\ overtaken = FALSE

\* Bound: nothing happens on the server once the page has its data, which does not change.
Waiting == page # "data"

-----------------------------------------------------------------------------
(* Snapshots.                                                              *)

Asleep == job' = [pc |-> "asleep", holdings |-> {}]

\* snapshot_once: with no holdings, there is none.
ReadHoldings(held) ==
  /\ Waiting /\ job.pc = "due"
  /\ IF held = {} THEN Asleep ELSE job' = [pc |-> "read", holdings |-> held]
  /\ UNCHANGED <<snapshots, query, page, data, overtaken>>

Cost(t) == Lot[t].avg_cost * Lot[t].quantity

\* round(part / whole * 100, 4), in units of its last digit: to the nearest, of two the even
\* one.  A part that is small beside the whole comes out as 0, whatever its sign.
Percent(part, whole) ==
  LET q == (part * 1000000) \div whole
      r == (part * 1000000) % whole
  IN IF 2 * r < whole \/ (2 * r = whole /\ q % 2 = 0) THEN q ELSE q + 1

HoldingSnapshot(t, p) ==
  LET value == p * Lot[t].quantity
  IN [price |-> p, value |-> value, pnl_pct |-> Percent(value - Cost(t), Cost(t))]

Worth(hs, S) == SumFunctionOnSet([t \in S |-> hs[t].value], S)
CostBasis(S) == SumFunctionOnSet([t \in S |-> Cost(t)], S)

TotalsTogether(hs) ==
  LET total_value == Worth(hs, DOMAIN hs)
      cost_basis == CostBasis(DOMAIN hs)
  IN [c \in {currencyForTicker(t) : t \in DOMAIN hs} |->
        [total_value |-> total_value, total_pnl |-> total_value - cost_basis,
         total_pnl_pct |-> Percent(total_value - cost_basis, cost_basis)]]

\* The totals of each currency there is a holding in.
Totals(hs) ==
  [c \in {currencyForTicker(t) : t \in DOMAIN hs} |->
     LET of == {t \in DOMAIN hs : currencyForTicker(t) = c}
         total_value == Worth(hs, of)
         cost_basis == CostBasis(of)
     IN [total_value |-> total_value, total_pnl |-> total_value - cost_basis,
         total_pnl_pct |-> Percent(total_value - cost_basis, cost_basis)]]

\* The holdings with a price make a snapshot, which is stored; the oldest are removed.
Snapshot(price) ==
  /\ Waiting /\ job.pc = "read"
  /\ LET hs == [t \in DOMAIN price |-> HoldingSnapshot(t, price[t])]
         kept == Keep(snapshots, {i \in DOMAIN snapshots : snapshots[i].age < Retention})
     IN IF price = <<>> THEN UNCHANGED <<snapshots, overtaken>>
        ELSE /\ Len(kept) < MaxSnapshots
             /\ snapshots' = Append(kept, [age |-> 0, totals |-> Totals(hs), holdings |-> hs])
             /\ overtaken' = (overtaken \/ query.pc = "history")
  /\ Asleep
  /\ UNCHANGED <<query, page, data>>

SnapshotFails ==
  /\ Waiting /\ job.pc \in {"due", "read"}
  /\ Asleep
  /\ UNCHANGED <<snapshots, query, page, data, overtaken>>

\* Bound: a request does not last over an hour's end.
Hour ==
  /\ Waiting /\ job.pc = "asleep" /\ query.pc = "none"
  /\ job' = [job EXCEPT !.pc = "due"]
  /\ snapshots' = [i \in DOMAIN snapshots |->
                     [snapshots[i] EXCEPT !.age = IF @ < Retention THEN @ + 1 ELSE @]]
  /\ UNCHANGED <<query, page, data, overtaken>>

\* The server restarts, and takes a snapshot at once; a request it had is lost.
Restart ==
  /\ Waiting
  /\ job' = [pc |-> "due", holdings |-> {}]
  /\ query' = NoQuery
  /\ page' = IF query.pc = "none" THEN page ELSE "error"
  /\ overtaken' = FALSE
  /\ UNCHANGED <<snapshots, data>>

-----------------------------------------------------------------------------
(* GET /analytics: two reads, with a gap between them.                     *)

HistorySince(days) == Keep(snapshots, {i \in DOMAIN snapshots : snapshots[i].age <= days})

ReadHistory ==
  /\ query.pc = "sent"
  /\ query' = [pc |-> "history", history |-> HistorySince(HistoryDays)]
  /\ UNCHANGED <<snapshots, job, page, data, overtaken>>

NoPerformer == [ticker |-> "none", change_pct |-> 0]

ChangesOfEarliest(history) ==
  LET first == Head(history).holdings
      last == Last(history).holdings
  IN {[ticker |-> t, change_pct |-> IF t \in DOMAIN last
                                    THEN Percent(last[t].price - first[t].price, first[t].price)
                                    ELSE -1000000] : t \in DOMAIN first}

Changes(history) ==
  LET first == Head(history).holdings
      last == Last(history).holdings
  IN {[ticker |-> t, change_pct |-> Percent(last[t].price - first[t].price, first[t].price)] :
        t \in DOMAIN first \cap DOMAIN last}

\* The best and the worst performer: the first of the equals in a dict's order.
PerformanceWindow(history) ==
  LET changes == IF Len(history) < 2 THEN {} ELSE Changes(history)
  IN IF changes = {} THEN {[best |-> NoPerformer, worst |-> NoPerformer]}
     ELSE {[best |-> b, worst |-> w] :
             b \in {x \in changes : \A y \in changes : y.change_pct <= x.change_pct},
             w \in {x \in changes : \A y \in changes : y.change_pct >= x.change_pct}}

ReadPerformance ==
  /\ query.pc = "history"
  /\ \E performers \in PerformanceWindow(HistorySince(Window)) :
       data' = [totals |-> IF query.history = <<>> THEN <<>> ELSE Last(query.history).totals,
                history |-> query.history,
                best_performer_7d |-> performers.best, worst_performer_7d |-> performers.worst]
  /\ query' = NoQuery /\ page' = "data"
  /\ UNCHANGED <<snapshots, job, overtaken>>

\* The request fails, or its answer is not ok.
RequestFails ==
  /\ query.pc # "none"
  /\ query' = NoQuery /\ page' = "error" /\ overtaken' = FALSE
  /\ UNCHANGED <<snapshots, job, data>>

\* The page is opened: it asks once.
Mount ==
  /\ page \in {"closed", "error"}
  /\ page' = "loading" /\ query' = [NoQuery EXCEPT !.pc = "sent"]
  /\ UNCHANGED <<snapshots, job, data, overtaken>>

\* It is left before the answer, which is then ignored.
Unmount ==
  /\ page = "loading"
  /\ page' = "closed" /\ query' = NoQuery /\ overtaken' = FALSE
  /\ UNCHANGED <<snapshots, job, data>>

AnalyticsNext ==
  \/ \E held \in SUBSET Tickers : ReadHoldings(held)
  \/ \E known \in SUBSET job.holdings :
       \E price \in {f \in [known -> UNION Range(Prices)] : \A t \in known : f[t] \in Prices[t]} :
         Snapshot(price)
  \/ SnapshotFails \/ Hour \/ Restart
  \/ ReadHistory \/ ReadPerformance \/ RequestFails \/ Mount \/ Unmount

AnalyticsSpec == AnalyticsInit /\ [][AnalyticsNext]_analyticsVars

-----------------------------------------------------------------------------
(* The page.                                                               *)

BuildTickerSeries(history, t) ==
  LET with == Keep(history, {i \in DOMAIN history : t \in DOMAIN history[i].holdings})
  IN [i \in DOMAIN with |-> with[i].holdings[t].pnl_pct]

BuildCurrencySeries(history, c) ==
  LET with == Keep(history, {i \in DOMAIN history : c \in DOMAIN history[i].totals})
  IN [i \in DOMAIN with |-> with[i].totals[c].total_pnl_pct]

Value(hs, t) == IF t \in DOMAIN hs THEN hs[t].value ELSE 0
TotalValue(s, c) == IF c \in DOMAIN s.totals THEN s.totals[c].total_value ELSE 0
Magnitude(x) == IF x < 0 THEN -x ELSE x

TotalRow(label, v) ==
  [label |-> label, base |-> 0, value |-> v, isPositive |-> TRUE, status |-> "total"]

ContributorsNow(first, last, c) == {t \in DOMAIN last.holdings : currencyForTicker(t) = c}
Contributors(first, last, c) ==
  {t \in DOMAIN first.holdings \cup DOMAIN last.holdings : currencyForTicker(t) = c}

\* The elements of S, those of the largest size first.
Descending(S, size) ==
  CHOOSE s \in SetToSeqs(S) : \A i \in 2..Cardinality(S) : size[s[i - 1]] >= size[s[i]]

Running(start, order, delta) ==
  LET running[i \in 0..Len(order)] == IF i = 0 THEN start ELSE running[i - 1] + delta[order[i]]
  IN running

Bar(t, first, last, running, delta) ==
  [label |-> t, base |-> IF delta < 0 THEN running + delta ELSE running,
   value |-> Magnitude(delta), isPositive |-> delta >= 0,
   status |-> IF t \notin DOMAIN first.holdings THEN "new"
              ELSE IF t \notin DOMAIN last.holdings THEN "closed" ELSE "held"]

\* Start, a bar for each ticker's change, the largest first, and End.
BuildWaterfallData(history, c) ==
  LET first == Head(history)
      last == Last(history)
      tickers == Contributors(first, last, c)
      delta == [t \in tickers |-> Value(last.holdings, t) - Value(first.holdings, t)]
      order == Descending(tickers, [t \in tickers |-> Magnitude(delta[t])])
      running == Running(TotalValue(first, c), order, delta)
      bars == [i \in DOMAIN order |-> Bar(order[i], first, last, running[i - 1], delta[order[i]])]
  IN IF Len(history) < 2 \/ c \notin DOMAIN first.totals \cup DOMAIN last.totals THEN <<>>
     ELSE <<TotalRow("Start", TotalValue(first, c))>> \o bars
          \o <<TotalRow("End", running[Len(order)])>>

Fill(row) == IF row.status = "total" THEN "neutral" ELSE IF row.isPositive THEN "gain" ELSE "loss"
Signed(row) == IF row.isPositive THEN row.value ELSE -row.value

\* The tickers of the section "By Holding": those of the latest snapshot.
CurrentTickers == IF data.history = <<>> THEN {} ELSE DOMAIN Last(data.history).holdings

\* The sections of the page, each with a text for want of history; a line needs two points.
Plot(series) == IF Len(series) < 2 THEN <<>> ELSE series
TotalReturn == [c \in DOMAIN data.totals |-> IF data.totals[c].total_pnl >= 0 THEN "gain" ELSE "loss"]
DailyHistory == [c \in DOMAIN data.totals |-> Plot(BuildCurrencySeries(data.history, c))]
Performers == {data.best_performer_7d, data.worst_performer_7d} \ {NoPerformer}
Contribution == [c \in DOMAIN data.totals |-> BuildWaterfallData(data.history, c)]
ByHolding ==
  [t \in CurrentTickers |->
     LET series == BuildTickerSeries(data.history, t)
     IN [line |-> Plot(series),
         colour |-> IF series # <<>> /\ Last(series) < 0 THEN "loss" ELSE "gain"]]

-----------------------------------------------------------------------------
(* Properties                                                              *)

AnalyticsTypeOK ==
  /\ Len(snapshots) <= MaxSnapshots
  /\ \A i \in DOMAIN snapshots : /\ snapshots[i].age \in 0..Retention
                                 /\ DOMAIN snapshots[i].holdings \subseteq Tickers
                                 /\ DOMAIN snapshots[i].totals \subseteq Currencies
  /\ job.pc \in {"due", "read", "asleep"} /\ job.holdings \subseteq Tickers
  /\ query.pc \in {"none", "sent", "history"}
  /\ page \in {"closed", "loading", "data", "error"}
  /\ (page = "loading") = (query.pc # "none")

\* Whatever was bought, sold or without a price at either end, the bars of a currency lead
\* from its total then to its total now, each of them where the one before it ended, none
\* below the axis, and no loss in a ticker that was not there then.
WaterfallBalances ==
  page = "data" => \A c \in DOMAIN Contribution :
    LET rows == Contribution[c]
        first == Head(data.history)
        last == Last(data.history)
        n == Len(rows) - 1
        Foot(i) == IF rows[i].isPositive THEN rows[i].base ELSE rows[i].base + rows[i].value
        Top(i) == IF rows[i].isPositive THEN rows[i].base + rows[i].value ELSE rows[i].base
    IN rows # <<>> =>
         /\ rows[1].value = TotalValue(first, c) /\ rows[n + 1].value = TotalValue(last, c)
         /\ \A i \in 2..n : /\ Foot(i) = Top(i - 1) /\ rows[i].base >= 0
                            /\ Fill(rows[i]) = "loss" => Value(first.holdings, rows[i].label) > 0
                            /\ rows[i].status = "new" => Signed(rows[i]) = rows[i].value
         /\ Top(n) = rows[n + 1].value
         /\ n - 1 = Cardinality({t \in DOMAIN first.holdings \cup DOMAIN last.holdings :
                                 currencyForTicker(t) = c})

\* The sections agree on who gains, as far as rounding lets them: a currency's line never
\* ends on the other side of zero than its total return, one whose total is a loss has a
\* holding that does not end above zero, one whose holdings are all shown as losing loses, and
\* the totals are of the holdings' currencies.
ChartsAgree ==
  page = "data" =>
    /\ \A c \in DOMAIN data.totals :
         LET holdings == {t \in CurrentTickers : currencyForTicker(t) = c}
             line == DailyHistory[c]
         IN /\ line # <<>> => /\ Last(line) > 0 => TotalReturn[c] = "gain"
                              /\ Last(line) < 0 => TotalReturn[c] = "loss"
            /\ TotalReturn[c] = "loss" =>
                 \E t \in holdings : Last(BuildTickerSeries(data.history, t)) <= 0
            /\ (\A t \in holdings : ByHolding[t].colour = "loss") => TotalReturn[c] = "loss"
    /\ DOMAIN data.totals = {currencyForTicker(t) : t \in CurrentTickers}

\* The best and the worst performer are shown together or not at all, in this order, and are
\* among the holdings of the page, unless a snapshot was stored between the two reads.
PerformersAgree ==
  page = "data" =>
    /\ (data.best_performer_7d = NoPerformer) = (data.worst_performer_7d = NoPerformer)
    /\ data.best_performer_7d.change_pct >= data.worst_performer_7d.change_pct
    /\ ~overtaken => \A p \in Performers : p.ticker \in CurrentTickers
=============================================================================
