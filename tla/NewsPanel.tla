----------------------------- MODULE NewsPanel -----------------------------
(***************************************************************************)
(* News on the page: the panel of live and loaded articles                 *)
(* (frontend/app/components/NewsFeed.tsx) and the charts that mark live    *)
(* ones beside the prices of their time (PriceSparkline.tsx).  The server  *)
(* is reduced to what it broadcasts and answers (module News has the       *)
(* rest): an article on record is not sent again.                          *)
(*                                                                         *)
(* Article a is published at time a.  An item is the pair of a ticker and  *)
(* an article tagged with it; an article on the page has the key of its    *)
(* item.                                                                   *)
(***************************************************************************)
EXTENDS Page, Integers, Sequences, FiniteSetsExt, SequencesExt, Functions

CONSTANTS
  MaxClock,   \* bound: the time the model ends
  SymbolsOf,  \* SymbolsOf[a]: the tickers article a is tagged with
  Undated,    \* tickers whose source ignores `before` (.JK)
  PriceAt,    \* PriceAt[time]: what a tick at that time says
  TickSets,   \* bound: the sets of tickers that tick at one time
  MaxItems,   \* MAX_NEWS_ITEMS
  MaxHistory, \* MAX_PRICE_HISTORY
  Pad,        \* CORRELATION_PAD_MS
  LoadLimit,  \* LOAD_MORE_LIMIT
  Multiplier, \* LOAD_MORE_FETCH_MULTIPLIER
  All         \* no ticker selected

Articles == DOMAIN SymbolsOf
Times == 1..MaxClock

ASSUME PanelAssumption ==
  /\ IsFiniteSet(Tickers) /\ MaxClock \in Nat /\ Articles \subseteq Times /\ All \notin Tickers
  /\ SymbolsOf \in [Articles -> SUBSET Tickers] /\ TickSets \subseteq SUBSET Tickers
  /\ PriceAt \in [Times -> Nat \ {0}]
  /\ {MaxItems, MaxHistory, LoadLimit, Multiplier} \subseteq Nat \ {0} /\ Pad \in Nat

VARIABLES
  clock,
  onRecord,       \* server: the articles broadcast or given out
  gone,           \* items lost on their way, or that left the page
  request,        \* the load-more in progress
  abandoned,      \* one that was in progress when the user left the page
  items,          \* page: live items, the last to arrive first
  selectedTicker,
  loadedMore,     \* loadedMore[t]: items loaded for t, in the order they came
  loading, error,
  prices,         \* prices[t]: the times of the ticks in t's row
  popover         \* popover[t]: what the chart of t has open

recordVars == <<clock, onRecord, gone>>
panelVars == <<items, selectedTicker, loadedMore, loading, error>>
chartVars == <<prices, popover>>
loadVars == <<request, abandoned>>
newsVars == <<recordVars, loadVars, panelVars, chartVars>>

Closed == [items |-> <<>>, at |-> "nowhere"]
NoRequest == [pc |-> "idle", ticker |-> All, before |-> 0, items |-> <<>>]

NoLists == [t \in Tickers |-> <<>>]
AllClosed == [t \in Tickers |-> Closed]
Blank == /\ items = <<>> /\ selectedTicker = All /\ loadedMore = NoLists
         /\ loading = FALSE /\ error = "none" /\ request = NoRequest
         /\ prices = NoLists /\ popover = AllClosed

PanelInit == clock = 0 /\ onRecord = {} /\ gone = {} /\ abandoned = NoRequest /\ Blank

-----------------------------------------------------------------------------
(* The panel's lists.                                                      *)

\* The first item of each key.
DistinctByUrl(s) == Keep(s, {i \in DOMAIN s : \A j \in 1..(i - 1) : s[j][2] # s[i][2]})

Distinct(s) == Keep(s, {i \in DOMAIN s : \A j \in 1..(i - 1) : s[j] # s[i]})

\* Object.values gives the tickers in some order.
Order == SetToSeq(Tickers)

NewsByTicker(t) == Keep(items, {i \in DOMAIN items : items[i][1] = t})

\* The items of one ticker, or of all.
Filtered(tab) ==
  IF tab = All
  THEN items \o FlattenSeq([i \in DOMAIN Order |-> loadedMore[Order[i]]])
  ELSE NewsByTicker(tab) \o loadedMore[tab]

Visible(tab) == Distinct(Filtered(tab))

\* What the panel renders.
Screen ==
  [active |-> selectedTicker, list |-> Visible(selectedTicker),
   empty |-> Visible(selectedTicker) = <<>>, message |-> error,
   button |-> IF selectedTicker = All THEN "none" ELSE IF loading THEN "disabled" ELSE "enabled"]

-----------------------------------------------------------------------------
(* Live news.                                                              *)

Prepend(item) == LET s == <<item>> \o items
                 IN SubSeq(s, 1, IF Len(s) < MaxItems THEN Len(s) ELSE MaxItems)

\* An article goes out for one of its tickers: its frame reaches the page, or is lost.
Broadcast(t, a) ==
  /\ a <= clock /\ t \in SymbolsOf[a] /\ a \notin onRecord
  /\ onRecord' = onRecord \cup {a}
  /\ \/ /\ items' = Prepend(<<t, a>>)
        /\ gone' = gone \cup (Range(items) \ Range(items'))
     \/ gone' = gone \cup {<<t, a>>} /\ UNCHANGED items
  /\ UNCHANGED <<clock, loadVars, selectedTicker, loadedMore, loading, error, chartVars>>

\* Time passes, with a tick for some of the tickers.
Elapse(ticked) ==
  /\ clock < MaxClock
  /\ clock' = clock + 1
  /\ prices' = [t \in Tickers |->
       IF t \notin ticked THEN prices[t]
       ELSE LET s == Append(prices[t], clock + 1)
            IN SubSeq(s, IF Len(s) > MaxHistory THEN Len(s) - MaxHistory + 1 ELSE 1, Len(s))]
  /\ UNCHANGED <<onRecord, gone, loadVars, panelVars, popover>>

-----------------------------------------------------------------------------
(* Load more.  Its closure keeps the ticker and the list of the render in  *)
(* which the button was pressed.                                           *)

SelectTab(tab) ==
  /\ selectedTicker' = tab
  /\ UNCHANGED <<recordVars, loadVars, items, loadedMore, loading, error, chartVars>>

HandleLoadMore ==
  /\ Screen.button = "enabled"
  /\ loading' = TRUE /\ error' = "none"
  /\ request' = [NoRequest EXCEPT !.pc = "sent", !.ticker = selectedTicker,
                                  !.before = IF Screen.empty THEN 0 ELSE Last(Screen.list)[2]]
  /\ UNCHANGED <<recordVars, abandoned, items, selectedTicker, loadedMore, chartVars>>

\* get_more_news: the latest articles up to and including `before`, less those on record.
Candidates(t, before) ==
  LET dated == {a \in Articles : a <= clock /\ t \in SymbolsOf[a]
                                 /\ (before # 0 /\ t \notin Undated => a <= before)}
  IN {a \in dated : Cardinality({b \in dated : b > a}) < LoadLimit * Multiplier}

Picked(asked) ==
  LET fresh == Candidates(asked.ticker, asked.before) \ onRecord
      size == Cardinality(fresh)
      n == IF size < LoadLimit THEN size ELSE LoadLimit
      latest == [i \in 1..n |-> Nth(fresh, size + 1 - i)]
  IN [asked EXCEPT !.pc = "picked", !.items = [i \in 1..n |-> <<asked.ticker, latest[i]>>]]

Pick ==
  /\ request.pc = "sent"
  /\ request' = Picked(request)
  /\ UNCHANGED <<recordVars, abandoned, panelVars, chartVars>>

Marked(n) == {request.items[i][2] : i \in 1..n}

AnswerReplaces ==
  /\ request.pc = "picked"
  /\ onRecord' = onRecord \cup Marked(Len(request.items))
  /\ IF request.items = <<>>
     THEN error' = "nothing older" /\ UNCHANGED loadedMore
     ELSE loadedMore' = [loadedMore EXCEPT ![request.ticker] = request.items] /\ UNCHANGED error
  /\ loading' = FALSE /\ request' = NoRequest
  /\ UNCHANGED <<clock, gone, abandoned, items, selectedTicker, chartVars>>

AnswerMore ==
  /\ request.pc = "picked"
  /\ onRecord' = onRecord \cup Marked(Len(request.items))
  /\ IF request.items = <<>>
     THEN error' = "nothing older" /\ UNCHANGED loadedMore
     ELSE loadedMore' = [loadedMore EXCEPT ![request.ticker] = @ \o request.items] /\ UNCHANGED error
  /\ loading' = FALSE /\ request' = NoRequest
  /\ UNCHANGED <<clock, gone, abandoned, items, selectedTicker, chartVars>>

\* The request, a summary or the answer fails: the articles summarised until then are on
\* record all the same.
FailStillLoading(n) ==
  /\ request.pc # "idle" /\ n <= Len(request.items)
  /\ onRecord' = onRecord \cup Marked(n)
  /\ gone' = gone \cup {request.items[i] : i \in 1..n}
  /\ error' = "try again" /\ request' = NoRequest
  /\ UNCHANGED <<clock, abandoned, items, selectedTicker, loadedMore, loading, chartVars>>

Fail(n) ==
  /\ request.pc # "idle" /\ n <= Len(request.items)
  /\ onRecord' = onRecord \cup Marked(n)
  /\ gone' = gone \cup {request.items[i] : i \in 1..n}
  /\ error' = "try again" /\ loading' = FALSE /\ request' = NoRequest
  /\ UNCHANGED <<clock, abandoned, items, selectedTicker, loadedMore, chartVars>>

-----------------------------------------------------------------------------
(* The charts.                                                             *)

Distance(x, y) == IF x < y THEN y - x ELSE x - y

\* The loop over the ticks, which keeps the first of those no tick is closer than.
NearestNotKept(ticks, at) ==
  LET best[i \in 0..Len(ticks)] ==
        IF i = 0 THEN [index |-> 1, diff |-> MaxClock + 1]
        ELSE IF Distance(ticks[i], at) < best[i - 1].diff THEN [best[i - 1] EXCEPT !.index = i]
        ELSE best[i - 1]
  IN best[Len(ticks)].index

Nearest(ticks, at) ==
  LET best[i \in 0..Len(ticks)] ==
        IF i = 0 THEN [index |-> 1, diff |-> MaxClock + 1]
        ELSE IF Distance(ticks[i], at) < best[i - 1].diff
        THEN [index |-> i, diff |-> Distance(ticks[i], at)]
        ELSE best[i - 1]
  IN best[Len(ticks)].index

\* buildMarkers: the news at each tick that has any.
BuildMarkers(ticks, news) ==
  IF news = <<>> \/ ticks = <<>> THEN <<>>
  ELSE LET eligible == Keep(news, {k \in DOMAIN news : /\ news[k][2] >= Head(ticks) - Pad
                                                       /\ news[k][2] <= Last(ticks) + Pad})
           nearest == [k \in DOMAIN eligible |-> Nearest(ticks, eligible[k][2])]
       IN [i \in Range(nearest) |-> Keep(eligible, {k \in DOMAIN eligible : nearest[k] = i})]

\* The axis, in units of a two-thousandth: no lower than a thousandth of the latest price.
Domain(ticks) ==
  LET shown == {PriceAt[ticks[i]] : i \in DOMAIN ticks}
      slack == PriceAt[Last(ticks)] - 1000 * (Max(shown) - Min(shown))
      pad == IF slack > 0 THEN slack ELSE 0
  IN [low |-> 2000 * Min(shown) - pad, high |-> 2000 * Max(shown) + pad]

Dash == [markers |-> <<>>]
Chart(t) ==
  LET ticks == prices[t]
  IN IF Len(ticks) < 2 THEN Dash
     ELSE [colour |-> IF PriceAt[Last(ticks)] >= PriceAt[Head(ticks)] THEN "up" ELSE "down",
           domain |-> Domain(ticks), markers |-> BuildMarkers(ticks, NewsByTicker(t))]

\* A click on the marker at tick i; its mousedown is outside the other charts and closes what they have open.
ClickMarker(t, i) ==
  /\ popover' = [s \in Tickers |-> IF s = t THEN [items |-> Chart(t).markers[i], at |-> "pointer"]
                                   ELSE Closed]
  /\ UNCHANGED <<recordVars, loadVars, panelVars, prices>>

\* Enter or Space on a focused marker.
PressMarker(t, i) ==
  /\ popover' = [popover EXCEPT ![t] = [items |-> Chart(t).markers[i], at |-> "marker"]]
  /\ UNCHANGED <<recordVars, loadVars, panelVars, prices>>

\* A mousedown in chart t or its popover, or outside all of them (All).
HandlePointerDown(t) ==
  /\ popover' = [s \in Tickers |-> IF s = t THEN popover[s] ELSE Closed]
  /\ UNCHANGED <<recordVars, loadVars, panelVars, prices>>

\* Escape.
HandleKeyDown ==
  /\ popover' = AllClosed
  /\ UNCHANGED <<recordVars, loadVars, panelVars, prices>>

-----------------------------------------------------------------------------
(* Leaving the page.                                                       *)

\* A reload, or a visit to another page and back: the news and what was loaded are state of
\* the components and go with them.  The server works on at a request in progress (bound:
\* at one such request).
Leave ==
  /\ request.pc = "idle" \/ abandoned.pc = "idle"
  /\ gone' = gone \cup Range(Visible(All))
  /\ abandoned' = IF request.pc = "idle" THEN abandoned ELSE request
  /\ items' = <<>> /\ selectedTicker' = All /\ loadedMore' = NoLists
  /\ loading' = FALSE /\ error' = "none" /\ request' = NoRequest
  /\ prices' = NoLists /\ popover' = AllClosed
  /\ UNCHANGED <<clock, onRecord>>

PickAbandoned ==
  /\ abandoned.pc = "sent"
  /\ abandoned' = Picked(abandoned)
  /\ UNCHANGED <<recordVars, request, panelVars, chartVars>>

\* It is answered, to nobody, or fails as any other.
AbandonedEnds(n) ==
  /\ abandoned.pc # "idle" /\ n <= Len(abandoned.items)
  /\ onRecord' = onRecord \cup {abandoned.items[i][2] : i \in 1..n}
  /\ gone' = gone \cup {abandoned.items[i] : i \in 1..n}
  /\ abandoned' = NoRequest
  /\ UNCHANGED <<clock, request, panelVars, chartVars>>

-----------------------------------------------------------------------------

PanelNext ==
  \/ \E t \in Tickers, a \in Articles : Broadcast(t, a)
  \/ \E ticked \in TickSets : Elapse(ticked)
  \/ \E tab \in Tickers \cup {All} : SelectTab(tab)
  \/ HandleLoadMore \/ Pick \/ AnswerMore \/ \E n \in 0..LoadLimit : Fail(n)
  \/ \E t \in Tickers : \E i \in DOMAIN Chart(t).markers : ClickMarker(t, i) \/ PressMarker(t, i)
  \/ \E t \in Tickers \cup {All} : HandlePointerDown(t)
  \/ HandleKeyDown
  \/ Leave \/ PickAbandoned \/ \E n \in 0..LoadLimit : AbandonedEnds(n)

\* A request sent is answered or fails.
PanelSpec == PanelInit /\ [][PanelNext]_newsVars /\ WF_newsVars(Pick) /\ WF_newsVars(AnswerMore \/ \E n \in 0..LoadLimit : Fail(n))

-----------------------------------------------------------------------------
(* Properties                                                              *)

Items == Tickers \X Articles

PanelTypeOK ==
  /\ clock \in 0..MaxClock /\ onRecord \subseteq Articles /\ gone \subseteq Items
  /\ items \in BoundedSeq(Items, MaxItems) /\ selectedTicker \in Tickers \cup {All}
  /\ error \in {"none", "nothing older", "try again"} /\ loading = (request.pc # "idle")
  /\ prices \in [Tickers -> BoundedSeq(Times, MaxHistory)]
  /\ \A t \in Tickers : popover[t].items \in Seq(Items)

\* What the server has on record, and so will not send again, is in the panel, unless it
\* met one of four ends: its frame was lost, its answer failed, MaxItems later arrivals
\* pushed it out, or the user left the page it was on or had asked for it.  Articles loaded
\* are never pushed out.
RecordIsShown ==
  \A a \in onRecord : \E t \in Tickers : <<t, a>> \in gone \cup Range(Visible(All))

\* However live and loaded articles overlap, the list of all news is the union of the
\* tickers' lists, each item is there once, and a ticker's list has only its own.
TabsAgree ==
  /\ Range(Visible(All)) = UNION {Range(Visible(t)) : t \in Tickers}
  /\ \A tab \in Tickers \cup {All} : IsInjective(Visible(tab))
  /\ \A t \in Tickers : \A i \in DOMAIN Visible(t) : Visible(t)[i][1] = t

\* A chart of two ticks marks each live article of its ticker published while it runs, give
\* or take the pad, once and at a tick none is closer than; its line is inside its axis,
\* which is no lower than the floor; and of the popovers open at most one is by a click.
ChartRight ==
  /\ \A t \in Tickers : Len(prices[t]) >= 2 =>
       LET ticks == prices[t]
           markers == Chart(t).markers
           domain == Chart(t).domain
       IN /\ \A item \in Range(items) :
               Cardinality({i \in DOMAIN markers : item \in Range(markers[i])}) =
                 IF item[1] = t /\ item[2] \in (Head(ticks) - Pad)..(Last(ticks) + Pad) THEN 1 ELSE 0
          /\ \A i \in DOMAIN markers : \A item \in Range(markers[i]) : \A j \in DOMAIN ticks :
               Distance(ticks[i], item[2]) <= Distance(ticks[j], item[2])
          /\ \A i \in DOMAIN ticks : 2000 * PriceAt[ticks[i]] \in domain.low..domain.high
          /\ domain.high - domain.low >= 2 * PriceAt[Last(ticks)]
  /\ Cardinality({t \in Tickers : popover[t].at = "pointer"}) <= 1

\* The button that a request disabled, in this tab and the others, comes back.
LoadEnds == loading ~> ~loading
=============================================================================
