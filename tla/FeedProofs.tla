----------------------------- MODULE FeedProofs -----------------------------
(***************************************************************************)
(* Proofs about what frames, reads and orders make of a row, for any       *)
(* tickers, prices and lots: whatever is spread over whatever, in any      *)
(* order, a row has the fields that belong together of one quote and lot.  *)
(***************************************************************************)
EXTENDS Feed, TLAPS

\* What any two things that are merged have in common: each field has the value its ticker
\* allows, and the fields that follow from a price come with it and from it.
PartOK(t, u) ==
  /\ DOMAIN u \subseteq Fields
  /\ "currency" \in DOMAIN u => u["currency"] = currencyForTicker(t)
  /\ "price" \in DOMAIN u => u["price"] \in Prices
  /\ "priceHistory" \in DOMAIN u =>
       u["priceHistory"] \in Seq(Prices) /\ Len(u["priceHistory"]) <= MaxHistory
  /\ t \in Watched =>
       /\ "price" \in DOMAIN u <=> "change" \in DOMAIN u
       /\ "price" \in DOMAIN u => u["change"] = ChangeMath(t, u["price"]).change
  /\ t \notin Watched =>
       /\ "price" \in DOMAIN u <=> "position_value" \in DOMAIN u
       /\ "price" \in DOMAIN u <=> "position_pnl" \in DOMAIN u
       /\ "price" \in DOMAIN u =>
            \E lot \in Lots :
              /\ u["position_value"] = u["price"] * lot.quantity
              /\ u["position_pnl"] = u["position_value"] - lot.avg_cost * lot.quantity

\* A row has a currency, and that of a holding its lot.
RowOK(t, row) ==
  /\ PartOK(t, row)
  /\ "currency" \in DOMAIN row
  /\ t \notin Watched => {"quantity", "avg_cost"} \subseteq DOMAIN row

\* The frames the server may have sent.
WatchUpdate(t, p) == [price |-> p, currency |-> currencyForTicker(t)] @@ ChangeMath(t, p)
HoldUpdate(t, p, lot) ==
  [price |-> p, currency |-> currencyForTicker(t)] @@ PositionMath(lot, p)
Messages ==
  {[type |-> "price", ticker |-> t, update |-> WatchUpdate(t, p)] : t \in Watched, p \in Prices}
    \cup {[type |-> "price", ticker |-> t, update |-> HoldUpdate(t, p, lot)] :
            t \in Tickers \ Watched, p \in Prices, lot \in Lots}
    \cup {PriceAlert(a) : a \in Alerts}

\* The state by its parts: the server's, the wire's and the page's.
LotsOK == /\ DOMAIN held \subseteq Tickers \ Watched /\ held \in [DOMAIN held -> Lots]
          /\ order # NoRow => /\ order.ticker \in Tickers \ Watched
                              /\ order.lot \in Lots \cup {NoRow}
LoadOK == /\ load.state \in {"sent", "served", "done"}
          /\ DOMAIN load.rows \subseteq Tickers
          /\ \A t \in DOMAIN load.rows : RowOK(t, load.rows[t])
FramesOK == /\ frames \in Seq(Messages) /\ Len(frames) <= MaxFrames
            /\ lastMessage \in Messages \cup {NoMessage}
RowsOK == /\ DOMAIN portfolio \subseteq Tickers
          /\ \A t \in DOMAIN portfolio : RowOK(t, portfolio[t])
ToastsOK == /\ DOMAIN toasts \subseteq Alerts
            /\ \A id \in DOMAIN toasts : toasts[id] \in 0..AutoDismiss

FeedInv == LotsOK /\ LoadOK /\ FramesOK /\ RowsOK /\ ToastsOK

-----------------------------------------------------------------------------
(* What is merged                                                          *)

\* Nothing is lost of what a row may hold by spreading one thing over another.
LEMMA SpreadOK ==
  ASSUME NEW t, NEW u, PartOK(t, u), NEW v, PartOK(t, v)
  PROVE  PartOK(t, u @@ v)
<1> DEFINE w == u @@ v
<1>1. /\ DOMAIN w = DOMAIN u \cup DOMAIN v
      /\ \A x \in DOMAIN u : w[x] = u[x]
      /\ \A x \in DOMAIN v \ DOMAIN u : w[x] = v[x]
  BY DEF @@
<1> HIDE DEF w
<1>2. /\ DOMAIN w \subseteq Fields
      /\ "currency" \in DOMAIN w => w["currency"] = currencyForTicker(t)
      /\ "price" \in DOMAIN w => w["price"] \in Prices
      /\ "priceHistory" \in DOMAIN w =>
           w["priceHistory"] \in Seq(Prices) /\ Len(w["priceHistory"]) <= MaxHistory
  BY <1>1 DEF PartOK
<1>3. t \in Watched =>
        /\ "price" \in DOMAIN w <=> "change" \in DOMAIN w
        /\ "price" \in DOMAIN w => w["change"] = ChangeMath(t, w["price"]).change
  BY <1>1 DEF PartOK
<1>4. t \notin Watched =>
        /\ "price" \in DOMAIN w <=> "position_value" \in DOMAIN w
        /\ "price" \in DOMAIN w <=> "position_pnl" \in DOMAIN w
        /\ "price" \in DOMAIN w =>
            \E lot \in Lots :
              /\ w["position_value"] = w["price"] * lot.quantity
              /\ w["position_pnl"] = w["position_value"] - lot.avg_cost * lot.quantity
  BY <1>1 DEF PartOK
<1>5. PartOK(t, w)
  BY <1>2, <1>3, <1>4 DEF PartOK
<1> QED BY <1>5 DEF w

\* The fields of what is spread are those of both.
LEMMA SpreadHas ==
  ASSUME NEW u, NEW v
  PROVE  DOMAIN (u @@ v) = DOMAIN u \cup DOMAIN v
BY DEF @@

\* The parts: nothing, a currency, a lot ...
LEMMA PlainOK ==
  ASSUME NEW t
  PROVE  /\ PartOK(t, NoRow) /\ DOMAIN NoRow = {}
         /\ PartOK(t, [currency |-> currencyForTicker(t)])
         /\ \A lot \in Lots : PartOK(t, lot) /\ DOMAIN lot = {"quantity", "avg_cost"}
<1>1. DOMAIN NoRow = {}
  BY DEF NoRow
<1>2. PartOK(t, NoRow)
  BY <1>1 DEF PartOK
<1>3. PartOK(t, [currency |-> currencyForTicker(t)])
  BY DEF PartOK, Fields
<1>4. ASSUME NEW lot \in Lots
      PROVE  PartOK(t, lot) /\ DOMAIN lot = {"quantity", "avg_cost"}
  <2>1. DOMAIN lot = {"quantity", "avg_cost"}
    BY FeedAssumption
  <2> QED BY <2>1 DEF PartOK, Fields
<1> QED BY <1>1, <1>2, <1>3, <1>4

\* ... and a history, which keeps its length.
LEMMA TickedOK ==
  ASSUME NEW t, NEW row, PartOK(t, row), NEW u, u["price"] \in Prices
  PROVE  PartOK(t, Ticked(row, u))
<1> DEFINE s == Append(History(row), u["price"])
<1>1. History(row) \in Seq(Prices)
  BY DEF History, PartOK
<1>2. s \in Seq(Prices)
  BY <1>1
<1> HIDE DEF s
<1>3. SliceLast(s, MaxHistory) \in Seq(Prices) /\ Len(SliceLast(s, MaxHistory)) <= MaxHistory
  BY <1>2, FeedAssumption DEF SliceLast
<1>4. Ticked(row, u) = [priceHistory |-> SliceLast(s, MaxHistory)]
  BY DEF Ticked, s
<1>5. DOMAIN Ticked(row, u) = {"priceHistory"}
  BY <1>4
<1> QED BY <1>3, <1>4, <1>5 DEF PartOK, Fields

\* The numbers of a position are a price's and a lot's.
LEMMA PositionOK ==
  ASSUME NEW p \in Prices, NEW lot \in Lots
  PROVE  PositionMath(lot, p).position_pnl
           = PositionMath(lot, p).position_value - lot.avg_cost * lot.quantity
<1>1. p \in Int /\ lot.quantity \in Int /\ lot.avg_cost \in Int
  BY FeedAssumption
<1>2. \A i, j, k \in Int : (i - j) * k = i * k - j * k
  OBVIOUS
<1> QED BY <1>1, <1>2 DEF PositionMath

\* A price and what follows from it are of one price and, of a holding, of one lot.
LEMMA PricedOK ==
  ASSUME NEW t, NEW p \in Prices, NEW head,
         DOMAIN head \subseteq {"price", "currency"}, "price" \in DOMAIN head,
         head["price"] = p, "currency" \in DOMAIN head => head["currency"] = currencyForTicker(t)
  PROVE  /\ t \in Watched => PartOK(t, head @@ ChangeMath(t, p))
         /\ t \notin Watched => \A lot \in Lots : PartOK(t, head @@ PositionMath(lot, p))
<1>1. ASSUME t \in Watched  PROVE PartOK(t, head @@ ChangeMath(t, p))
  <2> DEFINE m == ChangeMath(t, p)
             u == head @@ m
  <2>1. DOMAIN m = {"change"} /\ m["change"] = ChangeMath(t, p).change
    BY DEF ChangeMath
  <2> HIDE DEF m
  <2>2. DOMAIN u = DOMAIN head \cup {"change"} /\ u["price"] = p
        /\ u["change"] = ChangeMath(t, p).change
        /\ ("currency" \in DOMAIN head => u["currency"] = head["currency"])
    BY <2>1 DEF @@
  <2> HIDE DEF u
  <2>3. PartOK(t, u)
    BY <1>1, <2>2 DEF PartOK, Fields
  <2> QED BY <2>3 DEF u, m
<1>2. ASSUME t \notin Watched, NEW lot \in Lots  PROVE PartOK(t, head @@ PositionMath(lot, p))
  <2> DEFINE m == PositionMath(lot, p)
             u == head @@ m
  <2>1. /\ DOMAIN m = {"position_value", "position_pnl"}
        /\ m["position_value"] = p * lot.quantity
        /\ m["position_pnl"] = m["position_value"] - lot.avg_cost * lot.quantity
    BY PositionOK DEF PositionMath
  <2> HIDE DEF m
  <2>2. DOMAIN u = DOMAIN head \cup {"position_value", "position_pnl"} /\ u["price"] = p
        /\ u["position_value"] = m["position_value"] /\ u["position_pnl"] = m["position_pnl"]
        /\ ("currency" \in DOMAIN head => u["currency"] = head["currency"])
    BY <2>1 DEF @@
  <2> HIDE DEF u
  <2>3. PartOK(t, u)
    BY <1>2, <2>1, <2>2 DEF PartOK, Fields
  <2> QED BY <2>3 DEF u, m
<1> QED BY <1>1, <1>2

\* A frame about a price says what may go into its ticker's row.
LEMMA MessageOK ==
  ASSUME NEW m \in Messages
  PROVE  /\ m.type = "price" => /\ m.ticker \in Tickers /\ PartOK(m.ticker, m.update)
                                /\ m.update["price"] \in Prices
         /\ m.type = "alert" => m.id \in Alerts
<1>1. ASSUME NEW t \in Watched, NEW p \in Prices,
             m = [type |-> "price", ticker |-> t, update |-> WatchUpdate(t, p)]
      PROVE  m.ticker \in Tickers /\ PartOK(m.ticker, m.update) /\ m.update["price"] \in Prices
  <2> DEFINE head == [price |-> p, currency |-> currencyForTicker(t)]
  <2>1. /\ DOMAIN head = {"price", "currency"} /\ head["price"] = p
        /\ head["currency"] = currencyForTicker(t)
    OBVIOUS
  <2> HIDE DEF head
  <2>2. PartOK(t, head @@ ChangeMath(t, p))
    BY <2>1, PricedOK
  <2>3. (head @@ ChangeMath(t, p))["price"] = p
    BY <2>1 DEF @@
  <2>4. m.ticker = t /\ m.update = head @@ ChangeMath(t, p)
    BY <1>1 DEF WatchUpdate, head
  <2> QED BY <2>2, <2>3, <2>4, FeedAssumption
<1>2. ASSUME NEW t \in Tickers \ Watched, NEW p \in Prices, NEW lot \in Lots,
             m = [type |-> "price", ticker |-> t, update |-> HoldUpdate(t, p, lot)]
      PROVE  m.ticker \in Tickers /\ PartOK(m.ticker, m.update) /\ m.update["price"] \in Prices
  <2> DEFINE head == [price |-> p, currency |-> currencyForTicker(t)]
  <2>1. /\ DOMAIN head = {"price", "currency"} /\ head["price"] = p
        /\ head["currency"] = currencyForTicker(t)
    OBVIOUS
  <2> HIDE DEF head
  <2>2. PartOK(t, head @@ PositionMath(lot, p))
    BY <2>1, PricedOK
  <2>3. (head @@ PositionMath(lot, p))["price"] = p
    BY <2>1 DEF @@
  <2>4. m.ticker = t /\ m.update = head @@ PositionMath(lot, p)
    BY <1>2 DEF HoldUpdate, head
  <2> QED BY <2>2, <2>3, <2>4
<1>3. ASSUME NEW a \in Alerts, m = PriceAlert(a)
      PROVE  m.type = "alert" /\ m.id \in Alerts
  BY <1>3 DEF PriceAlert
<1>4. ASSUME NEW t, NEW u, m = [type |-> "price", ticker |-> t, update |-> u]
      PROVE  m.type = "price"
  BY <1>4
<1> QED
  BY <1>1, <1>2, <1>3, <1>4 DEF Messages

\* What the server quotes is such a frame.
LEMMA QuoteOK ==
  ASSUME FeedInv, NEW t \in Tracked, NEW p \in Prices
  PROVE  PriceUpdate(t, p) \in Messages
<1>1. CASE t \in Watched
  <2>1. PriceUpdate(t, p) = [type |-> "price", ticker |-> t, update |-> WatchUpdate(t, p)]
    BY <1>1 DEF PriceUpdate, Math, WatchUpdate
  <2> QED BY <1>1, <2>1 DEF Messages
<1>2. CASE t \notin Watched
  <2>1. t \in Tickers \ Watched /\ held[t] \in Lots
    BY <1>2 DEF Tracked, FeedInv, LotsOK
  <2>2. PriceUpdate(t, p) =
          [type |-> "price", ticker |-> t, update |-> HoldUpdate(t, p, held[t])]
    BY <1>2 DEF PriceUpdate, Math, HoldUpdate
  <2> QED BY <2>1, <2>2 DEF Messages
<1> QED BY <1>1, <1>2

\* What the server answers a read with is a row.
LEMMA EnrichedOK ==
  ASSUME FeedInv, NEW t \in Tracked, NEW last \in Prices \cup {0}
  PROVE  t \in Tickers /\ RowOK(t, Enriched(t, last))
<1>1. t \in Tickers /\ (t \notin Watched => t \in DOMAIN held /\ held[t] \in Lots)
  BY FeedAssumption DEF Tracked, FeedInv, LotsOK
<1>2. PartOK(t, EnrichPrice(t, last))
  <2>1. CASE Known(t, last) = 0
    BY <2>1, PlainOK DEF EnrichPrice
  <2>2. CASE Known(t, last) # 0
    <3> DEFINE head == [price |-> Known(t, last)]
    <3>1. Known(t, last) \in Prices
      BY <1>1, <2>2, FeedAssumption DEF Known
    <3>2. DOMAIN head = {"price"} /\ head["price"] = Known(t, last)
      OBVIOUS
    <3> HIDE DEF head
    <3>3. PartOK(t, head @@ Math(t, Known(t, last)))
      BY <1>1, <3>1, <3>2, PricedOK DEF Math
    <3> QED BY <2>2, <3>3 DEF EnrichPrice, head
  <2> QED BY <2>1, <2>2
<1> DEFINE coin == [currency |-> currencyForTicker(t)]
           lot == IF t \in Watched THEN NoRow ELSE held[t]
<1>3. PartOK(t, coin) /\ "currency" \in DOMAIN coin
  BY PlainOK
<1>4. PartOK(t, lot) /\ (t \notin Watched => DOMAIN lot = {"quantity", "avg_cost"})
  BY <1>1, PlainOK
<1> HIDE DEF coin, lot
<1>5. PartOK(t, coin @@ lot) /\ PartOK(t, (coin @@ lot) @@ EnrichPrice(t, last))
  BY <1>2, <1>3, <1>4, SpreadOK
<1>6. /\ DOMAIN (coin @@ lot) = DOMAIN coin \cup DOMAIN lot
      /\ DOMAIN ((coin @@ lot) @@ EnrichPrice(t, last))
           = DOMAIN (coin @@ lot) \cup DOMAIN EnrichPrice(t, last)
  BY SpreadHas, Zenon
<1>7. RowOK(t, (coin @@ lot) @@ EnrichPrice(t, last))
  BY <1>3, <1>4, <1>5, <1>6 DEF RowOK
<1>8. Enriched(t, last) = (coin @@ lot) @@ EnrichPrice(t, last)
  BY DEF Enriched, coin, lot
<1> QED BY <1>1, <1>7, <1>8

-----------------------------------------------------------------------------
(* The reducers                                                            *)

\* A row, or none, can go under whatever is merged over it.
LEMMA RowOfOK ==
  ASSUME RowsOK, NEW t
  PROVE  PartOK(t, RowOf(t))
BY PlainOK DEF RowsOK, RowOK, RowOf

\* What is spread over a part of a row makes a row with it.
LEMMA SpreadRow ==
  ASSUME NEW t, NEW u, NEW v, PartOK(t, u), PartOK(t, v), RowOK(t, u) \/ RowOK(t, v)
  PROVE  RowOK(t, u @@ v)
BY SpreadOK, SpreadHas DEF RowOK

\* A row that is replaced by a row leaves rows.
LEMMA WithOK ==
  ASSUME RowsOK, NEW t \in Tickers, NEW row, RowOK(t, row), portfolio' = With(portfolio, t, row)
  PROVE  RowsOK'
<1>1. /\ DOMAIN portfolio' = DOMAIN portfolio \cup {t}
      /\ portfolio'[t] = row /\ \A u \in DOMAIN portfolio \ {t} : portfolio'[u] = portfolio[u]
  BY DEF With
<1> QED BY <1>1 DEF RowsOK

\* The answer to a read, over the rows there are.
LEMMA SetHoldingsOK ==
  ASSUME RowsOK, LoadOK, SetHoldings(load.rows)
  PROVE  RowsOK'
<1>1. /\ DOMAIN portfolio' = DOMAIN load.rows
      /\ \A t \in DOMAIN load.rows : portfolio'[t] = load.rows[t] @@ RowOf(t)
  BY DEF SetHoldings
<1>2. ASSUME NEW t \in DOMAIN load.rows  PROVE RowOK(t, load.rows[t] @@ RowOf(t))
  BY RowOfOK, SpreadRow DEF LoadOK, RowOK
<1> QED BY <1>1, <1>2 DEF RowsOK, LoadOK

\* A lot the user enters, over the row there is or as a new one.
LEMMA AddHoldingOK ==
  ASSUME RowsOK, NEW t \in Tickers, NEW lot \in Lots, AddHolding(t, lot)
  PROVE  RowsOK'
<1> DEFINE coin == [currency |-> currencyForTicker(t)]
<1>1. PartOK(t, coin) /\ DOMAIN coin = {"currency"}
  BY PlainOK
<1>2. PartOK(t, lot) /\ DOMAIN lot = {"quantity", "avg_cost"}
  BY PlainOK
<1> HIDE DEF coin
<1>3. RowOK(t, coin @@ lot)
  <2>1. PartOK(t, coin @@ lot)
    BY <1>1, <1>2, SpreadOK
  <2>2. DOMAIN (coin @@ lot) = {"currency", "quantity", "avg_cost"}
    BY <1>1, <1>2 DEF @@
  <2> QED BY <2>1, <2>2 DEF RowOK
<1>4. RowOK(t, (coin @@ lot) @@ RowOf(t))
  BY <1>3, RowOfOK, SpreadRow DEF RowOK
<1>5. portfolio' = With(portfolio, t, (coin @@ lot) @@ RowOf(t))
  BY DEF AddHolding, coin
<1> QED BY <1>4, <1>5, WithOK

\* A row that is taken away.
LEMMA RemoveHoldingOK ==
  ASSUME RowsOK, NEW t, RemoveHolding(t)
  PROVE  RowsOK'
<1>1. /\ DOMAIN portfolio' = DOMAIN portfolio \ {t}
      /\ \A u \in DOMAIN portfolio \ {t} : portfolio'[u] = portfolio[u]
  BY DEF RemoveHolding, Without, Restrict
<1> QED BY <1>1 DEF RowsOK

\* A tick, over the row with its history.
LEMMA ApplyUpdateOK ==
  ASSUME RowsOK, NEW t \in Tickers, NEW u, PartOK(t, u), u["price"] \in Prices,
         ApplyUpdate(t, u)
  PROVE  RowsOK'
<1>1. CASE t \notin DOMAIN portfolio
  BY <1>1 DEF ApplyUpdate, RowsOK
<1>2. CASE t \in DOMAIN portfolio
  <2> DEFINE row == portfolio[t]
             tick == Ticked(row, u)
  <2>1. RowOK(t, row) /\ PartOK(t, row)
    BY <1>2 DEF RowsOK, RowOK
  <2> HIDE DEF row
  <2>2. PartOK(t, tick)
    BY <2>1, TickedOK
  <2> HIDE DEF tick
  <2>3. PartOK(t, u @@ tick)
    BY <2>2, SpreadOK
  <2>4. RowOK(t, (u @@ tick) @@ row)
    BY <2>1, <2>3, SpreadRow
  <2>5. portfolio' = With(portfolio, t, (u @@ tick) @@ row)
    BY <1>2 DEF ApplyUpdate, row, tick
  <2> QED BY <2>4, <2>5, WithOK
<1> QED BY <1>1, <1>2

-----------------------------------------------------------------------------
(* The steps                                                               *)

\* A render leaves the alerts it shows with the whole of their time.
LEMMA RerenderOK ==
  ASSUME NEW shown, shown \subseteq Alerts, Rerender(shown)
  PROVE  ToastsOK'
BY FeedAssumption DEF Rerender, ToastsOK

\* The page starts with nothing on it.
LEMMA InitFeed == Init => FeedInv
<1> SUFFICES ASSUME Init  PROVE FeedInv
  OBVIOUS
<1>1. LotsOK
  BY FeedAssumption DEF Init, LotsOK
<1>2. LoadOK
  BY PlainOK DEF Init, LoadOK
<1>3. FramesOK
  BY FeedAssumption DEF Init, FramesOK
<1>4. RowsOK /\ ToastsOK
  BY PlainOK DEF Init, RowsOK, ToastsOK
<1> QED BY <1>1, <1>2, <1>3, <1>4 DEF FeedInv

\* A step of the wire leaves frames the server may have sent.
LEMMA WireFeed ==
  ASSUME FeedInv,
         \/ \E t \in Tickers, p \in Prices : Quote(t, p)
         \/ \E a \in Alerts : FireAlert(a)
         \/ LoseFrame \/ OnMessage
  PROVE  FeedInv'
<1> USE DEF FeedInv
<1>1. ASSUME NEW t \in Tickers, NEW p \in Prices, Quote(t, p)  PROVE FeedInv'
  <2>1. PriceUpdate(t, p) \in Messages
    BY <1>1, QuoteOK DEF Quote
  <2>2. FramesOK'
    BY <1>1, <2>1, FeedAssumption DEF Quote, FramesOK
  <2>3. LotsOK'
    BY <1>1 DEF Quote, LotsOK
  <2>4. LoadOK' /\ RowsOK' /\ ToastsOK'
    BY <1>1 DEF Quote, LoadOK, RowsOK, ToastsOK
  <2> QED BY <2>2, <2>3, <2>4
<1>2. ASSUME NEW a \in Alerts, FireAlert(a)  PROVE FeedInv'
  <2>1. PriceAlert(a) \in Messages
    BY DEF Messages
  <2>2. FramesOK'
    BY <1>2, <2>1, FeedAssumption DEF FireAlert, FramesOK
  <2>3. LotsOK' /\ LoadOK' /\ RowsOK' /\ ToastsOK'
    BY <1>2 DEF FireAlert, LotsOK, LoadOK, RowsOK, ToastsOK
  <2> QED BY <2>2, <2>3
<1>3. CASE LoseFrame
  <2>1. FramesOK'
    BY <1>3, FeedAssumption DEF LoseFrame, FramesOK
  <2>2. LotsOK' /\ LoadOK' /\ RowsOK' /\ ToastsOK'
    BY <1>3 DEF LoseFrame, LotsOK, LoadOK, RowsOK, ToastsOK
  <2> QED BY <2>1, <2>2
<1>4. CASE OnMessage
  <2>1. FramesOK'
    <3>1. Head(frames) \in Messages /\ Tail(frames) \in Seq(Messages)
          /\ Len(Tail(frames)) <= MaxFrames
      BY <1>4, FeedAssumption DEF OnMessage, FramesOK
    <3> QED BY <1>4, <3>1 DEF OnMessage, FramesOK
  <2>2. LotsOK' /\ LoadOK' /\ RowsOK' /\ ToastsOK'
    BY <1>4 DEF OnMessage, LotsOK, LoadOK, RowsOK, ToastsOK
  <2> QED BY <2>1, <2>2
<1> QED BY <1>1, <1>2, <1>3, <1>4

\* The server answers with rows, and holds what was ordered.
LEMMA ServerFeed ==
  ASSUME FeedInv, ServeLoad \/ ServeOrder
  PROVE  FeedInv'
<1> USE DEF FeedInv
<1>1. CASE ServeLoad
  <2>1. PICK last \in [Tracked -> Prices \cup {0}] :
          load' = [state |-> "served", rows |-> [t \in Tracked |-> Enriched(t, last[t])]]
    BY <1>1 DEF ServeLoad
  <2>2. \A t \in Tracked : t \in Tickers /\ RowOK(t, Enriched(t, last[t]))
    BY EnrichedOK
  <2>3. LoadOK'
    BY <2>1, <2>2 DEF LoadOK
  <2>4. LotsOK' /\ FramesOK' /\ RowsOK' /\ ToastsOK'
    BY <1>1 DEF ServeLoad, LotsOK, FramesOK, RowsOK, ToastsOK
  <2> QED BY <2>3, <2>4
<1>2. CASE ServeOrder
  <2>1. order.ticker \in Tickers \ Watched /\ order.lot \in Lots \cup {NoRow} /\ order' = NoRow
    BY <1>2 DEF ServeOrder, LotsOK
  <2>2. CASE order.lot = NoRow
    <3>1. held' = [t \in DOMAIN held \ {order.ticker} |-> held[t]]
      BY <1>2, <2>2 DEF ServeOrder, Without, Restrict
    <3> QED BY <1>2, <2>1, <3>1 DEF ServeOrder, LotsOK, LoadOK, FramesOK, RowsOK, ToastsOK
  <2>3. CASE order.lot # NoRow
    <3>1. held' = [t \in DOMAIN held \cup {order.ticker} |->
                     IF t = order.ticker THEN order.lot ELSE held[t]]
      BY <1>2, <2>3 DEF ServeOrder, With
    <3> QED BY <1>2, <2>1, <2>3, <3>1 DEF ServeOrder, LotsOK, LoadOK, FramesOK, RowsOK, ToastsOK
  <2> QED BY <2>2, <2>3
<1> QED BY <1>1, <1>2

\* The user's order is in the rows at once.
LEMMA OrderFeed ==
  ASSUME FeedInv, NEW t \in Tickers, NEW lot \in Lots \cup {NoRow}, Order(t, lot)
  PROVE  FeedInv'
<1> USE DEF FeedInv
<1>1. RowsOK'
  BY AddHoldingOK, RemoveHoldingOK DEF Order
<1>2. ToastsOK'
  BY RerenderOK DEF Order, ToastsOK
<1>3. LotsOK'
  BY DEF Order, LotsOK
<1>4. LoadOK' /\ FramesOK'
  BY DEF Order, LoadOK, FramesOK
<1> QED BY <1>1, <1>2, <1>3, <1>4

\* The page's own steps merge rows and updates, and set or run its timers.
LEMMA PageFeed ==
  ASSUME FeedInv, MergeLoad \/ Render \/ Elapse \/ \E id \in Alerts : Dismiss(id)
  PROVE  FeedInv'
<1> USE DEF FeedInv
<1>1. CASE MergeLoad
  <2>1. RowsOK'
    BY <1>1, SetHoldingsOK DEF MergeLoad
  <2>2. ToastsOK'
    BY <1>1, RerenderOK DEF MergeLoad, ToastsOK
  <2>3. LoadOK'
    BY <1>1, PlainOK DEF MergeLoad, LoadOK
  <2>4. LotsOK' /\ FramesOK'
    BY <1>1 DEF MergeLoad, LotsOK, FramesOK
  <2> QED BY <2>1, <2>2, <2>3, <2>4
<1>2. CASE Render
  <2>1. LotsOK' /\ LoadOK' /\ FramesOK'
    BY <1>2 DEF Render, LotsOK, LoadOK, FramesOK
  <2>2. lastMessage.type \in {"price", "alert"} => lastMessage \in Messages
    BY DEF FramesOK, NoMessage
  <2>3. CASE /\ lastMessage.type = "price"
             /\ ApplyUpdate(lastMessage.ticker, lastMessage.update)
             /\ Rerender(DOMAIN toasts)
    <3>1. RowsOK'
      BY <2>2, <2>3, MessageOK, ApplyUpdateOK
    <3>2. ToastsOK'
      BY <2>3, RerenderOK DEF ToastsOK
    <3> QED BY <2>1, <3>1, <3>2
  <2>4. CASE /\ lastMessage.type = "alert"
             /\ Rerender(DOMAIN toasts \cup {lastMessage.id})
             /\ UNCHANGED portfolio
    <3>1. DOMAIN toasts \cup {lastMessage.id} \subseteq Alerts
      BY <2>2, <2>4, MessageOK DEF ToastsOK
    <3>2. ToastsOK'
      BY <2>4, <3>1, RerenderOK
    <3>3. RowsOK'
      BY <2>4 DEF RowsOK
    <3> QED BY <2>1, <3>2, <3>3
  <2> QED BY <1>2, <2>3, <2>4 DEF Render
<1>3. CASE Elapse
  <2>1. ToastsOK'
    BY <1>3, FeedAssumption DEF Elapse, ToastsOK
  <2>2. LotsOK' /\ LoadOK' /\ FramesOK' /\ RowsOK'
    BY <1>3 DEF Elapse, LotsOK, LoadOK, FramesOK, RowsOK
  <2> QED BY <2>1, <2>2
<1>4. ASSUME NEW id \in Alerts, Dismiss(id)  PROVE FeedInv'
  <2>1. ToastsOK'
    BY <1>4, RerenderOK DEF Dismiss, ToastsOK
  <2>2. LotsOK' /\ LoadOK' /\ FramesOK' /\ RowsOK'
    BY <1>4 DEF Dismiss, LotsOK, LoadOK, FramesOK, RowsOK
  <2> QED BY <2>1, <2>2
<1> QED BY <1>1, <1>2, <1>3, <1>4

\* So does every step.
LEMMA StepFeed == FeedInv /\ [Next]_vars => FeedInv'
<1> SUFFICES ASSUME FeedInv, [Next]_vars  PROVE FeedInv'
  OBVIOUS
<1>1. CASE Next
  BY <1>1, WireFeed, ServerFeed, OrderFeed, PageFeed DEF Next, UserOrders, PageNext
<1>2. CASE UNCHANGED vars
  BY <1>2 DEF vars, FeedInv, LotsOK, LoadOK, FramesOK, RowsOK, ToastsOK
<1> QED BY <1>1, <1>2

-----------------------------------------------------------------------------
(* What the runs check                                                     *)

\* Every variable of the page and its server keeps to its values: whatever is merged, a row
\* has no field but its own, a holding keeps its lot and a history its length.
THEOREM FeedTypeCorrect == Spec => []TypeOK
<1>1. FeedInv => TypeOK
  <2> SUFFICES ASSUME FeedInv  PROVE TypeOK
    OBVIOUS
  <2>1. held \in UNION {[S -> Lots] : S \in SUBSET (Tickers \ Watched)}
    BY DEF FeedInv, LotsOK
  <2>2. load.state \in {"sent", "served", "done"} /\ Len(frames) <= MaxFrames
    BY DEF FeedInv, LoadOK, FramesOK
  <2>3. ASSUME NEW t \in DOMAIN portfolio
        PROVE  /\ DOMAIN portfolio[t] \subseteq Fields
               /\ t \notin Watched => {"quantity", "avg_cost"} \subseteq DOMAIN portfolio[t]
               /\ Len(History(portfolio[t])) <= MaxHistory
    BY FeedAssumption DEF FeedInv, RowsOK, RowOK, PartOK, History
  <2> QED BY <2>1, <2>2, <2>3 DEF TypeOK, FeedInv, RowsOK, ToastsOK
<1> QED BY <1>1, InitFeed, StepFeed, PTL DEF Spec

\* Whatever merged into a row, tick, read or order, in whichever order, its price, value
\* and profit are of one quote and one lot, table and card show the same, and each amount
\* counts towards the total of its own currency.
THEOREM RowsHold == Spec => []RowsCoherent
<1>1. FeedInv => RowsCoherent
  <2> SUFFICES ASSUME FeedInv  PROVE RowsCoherent
    OBVIOUS
  <2>1. \A t \in DOMAIN portfolio : RowOK(t, portfolio[t])
    BY DEF FeedInv, RowsOK
  <2>2. ASSUME NEW t \in DOMAIN portfolio \ Watched
        PROVE  /\ RowView(portfolio[t]) = RowCard(portfolio[t])
               /\ "price" \in DOMAIN portfolio[t] =>
                    \E lot \in Lots :
                      /\ portfolio[t].position_value = portfolio[t].price * lot.quantity
                      /\ portfolio[t].position_pnl =
                           portfolio[t].position_value - lot.avg_cost * lot.quantity
    <3> DEFINE row == portfolio[t]
    <3>1. PartOK(t, row)
      BY <2>1 DEF RowOK
    <3> HIDE DEF row
    <3>2. RowView(row) = RowCard(row)
      BY <3>1 DEF PartOK, RowView, RowCard, Field
    <3>3. "price" \in DOMAIN row =>
            \E lot \in Lots : /\ row.position_value = row.price * lot.quantity
                              /\ row.position_pnl = row.position_value - lot.avg_cost * lot.quantity
      BY <3>1 DEF PartOK
    <3> QED BY <3>2, <3>3 DEF row
  <2>3. ASSUME NEW t \in DOMAIN portfolio \cap Watched
        PROVE  /\ WatchView(portfolio[t]) = WatchCard(portfolio[t])
               /\ "price" \in DOMAIN portfolio[t] =>
                    portfolio[t].change = ChangeMath(t, portfolio[t].price).change
    BY <2>1 DEF RowOK, PartOK, WatchView, WatchCard
  <2>4. ASSUME NEW c
        PROVE  {t \in DOMAIN portfolio \ Watched : Field(portfolio[t], "currency", "USD") = c}
                 = {t \in DOMAIN portfolio \ Watched : currencyForTicker(t) = c}
    BY <2>1 DEF RowOK, PartOK, Field
  <2>5. ASSUME NEW c
        PROVE  TotalsByCurrency(c).costBasis =
                 MapThenSumSet(LAMBDA t : portfolio[t].avg_cost * portfolio[t].quantity,
                               {t \in DOMAIN portfolio \ Watched : currencyForTicker(t) = c})
    BY <2>4, Zenon DEF TotalsByCurrency
  <2> QED BY <2>2, <2>3, <2>5 DEF RowsCoherent
<1> QED BY <1>1, InitFeed, StepFeed, PTL DEF Spec
=============================================================================
