# PortfolioLive in TLA+

PortfolioLive is a personal portfolio dashboard: a FastAPI backend that keeps a
portfolio, a watchlist and price alerts in Redis, streams quotes from Alpaca (US) and
Yahoo (Indonesia), and pushes prices, alerts and summarised news over a WebSocket to a
Next.js frontend. This directory models its core in TLA+, checks the models with TLC and
proves the main results about them with TLAPS.

The backend is a single asyncio event loop: code runs undisturbed from one `await` to
the next, and anything can happen at an `await`. One action of a model is therefore one
Redis command (a `MULTI` is one command), one REST call or one send, with the local code
around it. The exceptions are Alpaca's stream, which has a thread of its own and is called
through worker threads, and the browser, which runs one callback at a time.

## Inventory

| Component | State | Operations | Interacts with | What is hard | What makes it correct | Module |
|---|---|---|---|---|---|---|
| Portfolio and watchlist API (`main.py`, `portfolio_store.py`, `watchlist_store.py`) | Redis: `portfolio:tickers`, holdings, `watchlist:tickers` | add, remove, watch, unwatch | subscription bridge, alert cascade | check and write are separate commands; failure in the middle; crash | a ticker is in one list; limits; nothing left behind | `Tracking`, `TrackedSet` |
| Subscription bridge (`websocket_manager.py`) | `_prev_close`; the clients' `_subscribed` | `track_ticker`, `untrack_ticker`, initial loads | price clients | REST call in the middle of a track | exactly the listed tickers are subscribed | `Tracking` |
| Price alerts (`alert_service.py`, `alert_store.py`) | Redis: `alert:{id}`, two index sets | create, delete, cascade, check a quote | lists, quotes, broadcast, push | quotes overlap; alerts are created and deleted meanwhile | one-shot; no crossing missed; no alert without its ticker | `QuoteAlerts`, `Tracking` |
| Quote path (`WebSocketManager.on_quote`) | `_last_prices`, throttle | `on_quote` | stores, broadcast, listener | Alpaca's quotes run as independent tasks | the last price is the latest; quotes of listed tickers are not dropped | `QuoteAlerts` |
| WebSocket fan-out (`connect`, `disconnect`, `broadcast`, `/ws`) | `_clients` | connect, disconnect, broadcast | every producer of messages | a set is iterated across awaits | members are the connected clients; a broadcast reaches them | `Fanout` |
| Alpaca price stream (`alpaca_client.py`) | `_subscribed`, `_stream`, `_stop_event`, thread | start, stop, subscribe, unsubscribe, restart | bridge, lifespan | two threads and worker threads | the stream quotes the subscribed tickers; stop ends it | `AlpacaStream` |
| News (`news_service.py`) | `_broadcast_ids`; Redis summary cache | poll, load more, summarise | Alpaca/Yahoo, Groq, broadcast | poll and requests interleave; failures; restart loses memory | every latest article is shown, once; one Groq call per article | `News` |
| Browser socket (`frontend/lib/websocket.ts`) | refs for socket, timer, delay, unmounted | connect, retry, cleanup | dashboard | late `onclose`, pending timers, changes of url | one connection while mounted, none after | `WsHook` |
| Yahoo poller (`yahoo_client.py`) | `_subscribed`, `_last_emitted` | poll, subscribe, unsubscribe, stop | bridge, `on_quote` | a price is marked as quoted before it is delivered | a changed price is known | partly (`QuoteAlerts`) |
| Life cycle (`lifespan`) | tasks and clients | start, stop | all services | failure during start-up, order of shutdown | the subscriptions are those of the lists | partly (`Tracking`, and the stops of the services' modules) |
| Dashboard, lists and alerts (`page.tsx`) | rows, watchlist, alerts, toasts | optimistic changes, rollback, initial reads, alert frames | REST, socket | requests in flight together are reordered, refused or lost | at rest, the page is the server's | `Dashboard` |
| Dashboard, live half (`page.tsx`, `PortfolioTable.tsx`, `Watchlist.tsx`, `Toast.tsx`) | rows, histories, totals, `lastMessage`, timers | tick, alert frame, upsert, dismiss | socket, REST | frames overwritten before a render; merges in every order | rows and totals become right | `Feed` |
| News panel and charts (`NewsFeed.tsx`, `PriceSparkline.tsx`) | live and loaded items, tab, popovers | frame, load more, tab, pick | socket, REST | a load's closure is old; a live item is loaded too | what was sent is shown; markers sit at their ticks | `NewsPanel` |
| Push and session (`push.ts`, `NotificationToggle.tsx`, `sw.js`, `auth.ts`, `push_service.py`, `push_store.py`) | subscription, token, Redis hash | enable, disable, notify, click, login, logout | alerts, digest | tabs share one subscription and one token; three parties hold a view of it | they agree in the end | `Device` |
| Digest (`digest_service.py`) | schedule | sleep, read, push | lists, prices, push | the clock is set; the lists are read one after the other | one digest a day, of every ticker | planned |
| Analytics (`analytics_service.py`, `analytics/page.tsx`) | Redis sorted set of snapshots | snapshot, trim, read, draw | prices | holdings come, go and lack prices; two reads | the sections agree with each other and with the totals | `Analytics` |
| Passwords and signatures, request patterns, metrics, market badge, layout | – | – | – | – | – | not modelled: see the end |

## Modules

`Tracking` is the core. A request is a record in `req`: `op` is the handler, `pc` the command
it will run next, `ticker` its argument, `todo` the alerts a cascade has left. Each handler of
`main.py` is a chain of actions: `AddCount`, `AddStore`, `TrackKnown` or `TrackUnknown` and
`TrackFetched`, `AddLeaveWatchlist` are `POST /portfolio/add`; `RemoveCheck`, `RemoveStore`,
`Untrack`, `Forget`, `ListAlerts`, `DeleteAlert`, `CascadeDone` are its removal; `WatchCheck`,
`WatchCount`, `WatchStore` and the tracking steps are `POST /watchlist/add`;
`AlertCheckHeld`, `AlertCheckWatched`, `AlertCreate` are `POST /alerts`. Redis (`held`, `watched`,
`alertOf`) survives `Crash`, memory (`prevClose`, `subscribed`, `req`) does not; `BootStart`, `BootTrack`,
`BootPhase` are the lifespan's initial loads, during which no request is served. `Fail` ends
a request where it stands, as an exception does. The two reads of `AlertStore.delete_alert`
and of `list_alerts_for_ticker` are one step with what follows them: the ids are
never reused, and acting on an alert that is gone changes nothing.

A ticker is `disturbed` from the step in which a request arrives while another is on it, a request on it
fails, or a crash cuts one off, until it is at rest (`AtRest`): no request on it, in one list at most, streamed exactly
when listed, no alert without it. This is history: no guard reads it, requests overlap, fail and are cut off in every way, and each
property says what it still promises of a disturbed ticker, and all that it promises of the others.

`TrackedSet` is what the user is promised: a ticker is held, watched or neither, alerts are
made on listed tickers. `Tracking` implements it (`ImplementsTrackedSet`) with the status of a disturbed ticker
unknown: it may drift to unknown and back, and every other change is one of the promised ones. A ticker that is being
bought counts as held from its store on.

`QuoteAlerts` follows one ticker's quotes through `on_quote` (`ReadHolding`, `ReadWatchlist`,
`Publish`, `Broadcast`, `Record`) and `check_and_trigger` (`ListIds`, `ReadAlert`, `ReadDone`, `MarkTriggered`,
`Notify`). `feed` says where the quotes come from: Yahoo's poller awaits each quote before it makes the
next and quotes only a price other than its last (`Poll`), Alpaca's are independent tasks. The other modules appear as small environment actions: lists move,
alerts are created and deleted, broadcasts raise. `newest` is history: of the quote that arrived last, the quotes that were
still to be recorded then (`rivals`), and whether it was itself dropped (`excused`).

`Fanout` models `broadcast` down to Python's set iterator, which raises when the set has changed
size and may revisit or skip members when it has changed and regained its size.

`AlpacaStream` has three actors: the event loop (`Subscribe`, `Unsubscribe`), worker threads
(`Deliver`), and the stream thread (`Build`, `PublishStream`, `Run`, `RunEnds`, `Clear`, `Retry`, `Exit`),
besides `stop()`. The SDK's stream is external: a set of tickers it has handlers for.
A stream object that is about to run counts as able to take calls and to be stopped.

`News` has one poller and several load-more requests as workers that summarise articles
through the same steps (`ReadCache`, `Summarise`, `StoreSummary`). A poll works through its
batch one ticker after the other; the record of ids is tested and extended where the code does.
With no client connected `broadcast` returns at once and the article is put on record all the same (`BroadcastToNobody`, which leaves it in `unheard`).

`WsHook` models one mounted component: sockets, each with the url it was made for, timers that
call `connect` of the closure they were set in, and the three refs that decide who reconnects.

`Page` is what the next modules share: the tickers, and a filter (`Keep`) as the positions it keeps.

`Dashboard` puts the page beside a server whose handlers are single steps (their interleaving is
`Tracking`'s subject). `requests` holds what is in flight; the server may process and answer any of them
next, refuse it, or lose it on either way. `past` records what happened to each ticker
since the page was loaded, which is what the exceptions of the properties refer to.

`Feed` is the other half of the page: `frames` on the socket, the one `lastMessage` that waits for a render, and the
effect that merges it. A row is a function from the fields it has to their values, so that a
merge is `@@`, as it is the spread in the code. The user orders whenever the page is there, before the first read is answered too;
`behind` keeps the holdings whose latest order that answer does not know of.

`NewsPanel` numbers articles by the time they are published; `request` is the load-more with the tab and list of
the closure it was pressed in. The charts (`Nearest`, `Chart`) are functions of the ticks and the live items.
`Leave` is a reload, or a visit to another page and back: the component's state goes, the server's record stays, and a request in
progress becomes `abandoned`, which the server finishes for nobody.

`Device` has two tabs over the things they share: `token` (localStorage) and `subscription`
(service worker). A call of the toggle stands at an `await` of `push.ts`. A reload cuts it
off (`Navigate`); a link of the page only unmounts the toggle (`Visit`), and its call goes on as the one left behind, beside a
call of the next toggle; the server's `sending` is the rest of `notify_all`.

`Analytics` takes what is held and priced as the input of each snapshot, and models the
page's sections as functions of the answer. Amounts are integers; percentages are rounded to four
digits, of two to the even one (`Percent`), so that a small loss comes out as 0 as in the code.
`Descending` is any order by size, since the order of equal bars is that of a set's iteration.

Where one proof module is about several of these, their specifications have names of their own (`FanoutSpec`, `StreamSpec`,
`PanelSpec`, `AnalyticsSpec`, ...); elsewhere they are `Init`, `Next`, `Spec` and `TypeOK`.

The `MC` modules give the constants values for TLC where a cfg cannot. Definitions named after a bug
(`WatchCheckDropped`, `AddFailedKeepsRow`, ...) are alternatives of the definition that follows them; no specification
uses them, and replacing the definition by its alternative breaks a checked property.

How the modules meet: `Tracking` and `QuoteAlerts` are the two sides of the lists (who is subscribed, what a quote does);
`QuoteAlerts` broadcasts, whose failing is `Fanout`'s result; the frames that `Fanout` delivers reach the
socket of `WsHook` and the page of `Feed`, `Dashboard` and `NewsPanel`; `AlpacaStream` produces the
quotes; alerts are pushed to `Device`. Each module has its neighbours as environment actions that may do
anything the neighbour's own properties allow.

## Runs

Passing runs:

| Run | Instance | Shows |
|---|---|---|
| `Tracking_failures` | 2 tickers, 2 requests that may overlap on one ticker, limits 1, 1 failure | a ticker that nothing has come upon keeps no subscription it should not (`NoLeak`) and its stream follows the lists in the end (`Settles`) |
| `Tracking_overlap` | 3 tickers, 2 requests that may overlap on one ticker, 1 alert, limits 1, 1 crash | always: the overshoot of the limits is bounded by the requests in flight (`ListsBounded`) and a start-up mends the subscriptions (`BootRepairs`); of tickers that nothing has come upon, beside others: they are in one list (`OneList`), stream exactly when listed (`StreamsExactly`), leave no alert (`NoOrphanAlert`), and the handlers implement `TrackedSet` (`ImplementsTrackedSet`) |
| `QuoteAlerts_feeds` | either feed, 2 quotes at once with Alpaca's, 3 quotes, prices below, at and above the target, 2 alerts, 2 moves between lists, 1 broadcast that raises | `PushesBounded`, `NoMissedCrossing`, `LatestPrice`, `TriggeredIsPushed`, each with the exceptions it names |
| `Fanout_churn` | 3 clients, 2 broadcasts at once, 3 in all | `MembersAreConnected`, `CalmCastsReachAll` |
| `AlpacaStream_stream` | 2 tickers, 2 worker threads, 3 streams, `stop()` at any point | `InSync`, `StopEndsPublished` |
| `WsHook_sockets` | 3 urls, 6 sockets | `OnePerUrl`, `Reconnects` |
| `News_feed` | the poller and one load-more request, 2 articles on 2 tickers, the latest one of each ticker, one exception, raising broadcast or restart at any step, broadcasts to nobody | `RepeatsBounded`, `SeenIsDelivered`, `CallsBounded`, `LatestAreShown` |
| `Dashboard_page` | 1 ticker, 1 alert, 2 requests in flight beside the reads | `RowsAgree`, `AlertsAgree`: at rest the page is the server's, within the exceptions of `past` |
| `Feed_ticks` | 1 holding and 1 watched ticker, 2 prices, 2 lots, 1 alert, histories of 1, orders before and after the first read | `RowsCoherent`, `CatchesUp`, `ToastsGo` |
| `NewsPanel_news` | 2 articles, one of them of both tickers, live lists of 1, charts of 2 ticks, loads of 1, 3 units of time, one request left behind | `RecordIsShown`, `TabsAgree`, `ChartRight`, `LoadEnds` |
| `Device_tabs` | 2 tabs, 1 token, 1 endpoint, 2 reads, orders and calls under way, those left behind included | `Registered`, `LabelTrue`, `DeadGo` |
| `Analytics_page` | 3 snapshots of 3 tickers in 2 currencies | `WaterfallBalances`, `ChartsAgree`, `PerformersAgree` |

Every module but the abstract `TrackedSet` states its types in a `TypeOK`; `Tracking_failures` and `Feed_ticks` check
it: there it is a step of the proofs, or bounds what merging can put into a row. Of the other modules with proofs it is
proved (see below).

### Where the code and its comments part

The exceptions that the properties name are what the code does. Readers of the code should know them:

- A ticker can be in both lists: an add between the check at `main.py:276` and the write of a watch. `on_quote` says it
  never is (`websocket_manager.py:246-249`). `OneList` excepts the ticker the two
  requests met on until it is at rest.
- An alert can be pushed twice: two overlapping quotes both read it before one marks it (`alert_service.py:62`, against `:54-55`).
  `PushesBounded` allows one push per overlapping quote.
- A broadcast raises when a client connects or leaves during a send (`websocket_manager.py:204`); `DECISION_LOG.md:160-165` takes the
  iteration for safe. `CalmCastsReachAll` says what is left.
- After a change of url the old socket's `onclose` reconnects to the old url (`websocket.ts:46`), which the comment at
  `:18-20` and `DECISION_LOG.md:355-361` exclude. `OnePerUrl` says that each url has one chain of connections at most, and
  that the present one has its own; a chain of an earlier url may go on after the unmount.
- An article tagged with two tickers reaches the user for the first only (`news_service.py:143`, against `:5-8`), and one loaded for
  a ticker is not sent live for another.
- A bought ticker that was watched stays in the page's watchlist until a reload, though the server moves it
  (`DECISION_LOG.md:1571-1575`); a ticker taken off the watchlist keeps its alerts on the page (`page.tsx:315`).
- A toast's timer starts anew with every message that renders the page (`Toast.tsx:37`; `DECISION_LOG.md:1178, 2479` count on
  it to go after its time). `ToastsGo` needs a pause.
- A watched ticker bought between the digest's two reads is missing from it (`digest_service.py:93-94`); the news poll reads
  the lists in the same order.
- A Yahoo price whose quote raised, or arrived while the ticker was off the lists, is not repeated until it changes
  (`yahoo_client.py:121-124`). `LatestPrice` excuses it only while it is the last.
- An order made before the page's first `GET /portfolio` is answered is overwritten by an answer that does not know of it, and nothing
  asks for that row again before a reload (`page.tsx:43-51, 186, 271-297`). `CatchesUp` excepts that ticker (`behind`).
- An article broadcast while no client is connected is on record and not sent again (`websocket_manager.py:201-202`,
  `news_service.py:150`); so are the articles a page showed before it was reloaded or left (`page.tsx:153`), which load-more
  then does not give either. `unheard` and `gone` keep them.
- A loss so small that its percentage rounds to `-0.0` (`analytics_service.py:99, 114`) is drawn as a gain in By Holding
  (`analytics/page.tsx:404-405`), while a total goes by its amount (`:219`). `ChartsAgree` says what the sections agree on all the same.
- When the undo of a refused subscription rejects (`push.ts:81`) the browser stays subscribed and the toggle says off; when
  `unsubscribe()` does (`:96`) the toggle stays on, and is right. A call that a link has left behind changes the subscription
  under the toggle mounted next. `unheard` and `doubt` keep these.
- A 401 or 403 clears whatever token is stored by then (`auth.ts:41`), one that another tab has just obtained included. No property
  excludes it.
- Limits are overshot by overlapping adds; a request that fails half way, or overlaps another on its ticker, leaves a subscription or an
  alert behind until the next start-up or for good; crossings are skipped after a broadcast that raised; a ticker subscribed
  between the copy of `_subscribed` and the publication of the stream is never given to it, and `stop()` misses a stream in that
  gap; the articles a failing load-more request had built stay on record, never sent.

### Bounds

Two tickers and two requests are what every race of the lists needs: one request to be overtaken
and one to overtake it, on the same or on another ticker. With a limit of one and two requests a
list can hold two tickers; the third is there to be refused, and to be left alone while something comes upon the others. Failures and
crashes each have a run: they leave Redis in the same states, and only a crash is followed by a start-up. Counters of failures, crashes, restarts, moves and quotes are budgets in
guards, so that they are spent in every order; three prices put a quote below,
at and above each target. Where a run is about repeated use (streams, sockets) the
budget allows several rounds. Symmetry is used in runs without liveness properties only.

On the page no handler looks at two tickers at once, so `Dashboard` follows one, with its reads,
an alert and two further requests in flight (2.3 million states): the races are between requests on
one ticker. `Feed` has one ticker of each kind, since they differ in fields and currency; the old and
the new price and lot are all that merging can mix up, and the socket hands frames on one
by one. `News` has two articles and polls the latest one of each ticker, so that an article is pushed out of the latest. In `QuoteAlerts`
two moves take a ticker off a list and back on. `NewsPanel` has an article that both tickers share, and a live list of one, which every
arrival pushes an article out of. In `Device`
one token and one endpoint show the races between tabs, and two calls those with one that was left behind: a request sent without the token and refused once it is
there, a subscription undone, dropped or removed by one tab while another uses it. `Analytics` has snapshots of every age from new to retired, so before, at and inside the window and the history;
the server stops once the page has its answer, which no later snapshot changes.

`CHECK_DEADLOCK FALSE` stands where a budget can run out and leave nothing to do (a bounded
number of quotes, broadcasts, sockets, streams or articles), or a user may do nothing more, which is no deadlock of the program.

### Fairness

- `Tracking`: requests in flight and the start-up go on, since Redis and REST calls answer or
  raise. Nothing makes a request arrive. `Settles` needs this.
- `AlpacaStream`: the thread and `stop()` go on; a stream is only sure to end when told to.
- `WsHook`: timers fire and closing sockets close; nothing makes a connection open.
- `News`: the poll loop goes on, and so does a request. Mishaps are bounded, so that an article can
  succeed at last.
- `Feed`: reads and orders are answered, React renders what it was told, time passes and timers fire. Nothing makes a tick arrive:
  `CatchesUp` asks for them itself.
- `NewsPanel`: a request is taken up, and answers or fails.
- `Device`: a send to an endpoint that is again and again due is made (strong fairness, since
  every notification starts over with the list it reads); `DeadGo` asks for notifications itself.

The other specifications have safety properties only and assume no fairness.

## Proofs

Every safety property of the runs, and every action property but the liveness ones, is a theorem. The
theorems hold for every value of the constants the assumptions allow: any number of tickers, requests, clients, tabs, sockets,
articles and snapshots, any prices, limits and budgets. The specifications include what may go wrong within those budgets, so a
theorem without a hypothesis covers the failures, crashes and interleavings of its module.

| Module of proofs | About |
|---|---|
| `TrackingProofs`, `QuoteAlertsProofs`, `NewsProofs`, `DeviceProofs`, `FeedProofs` | the module each is named after |
| `SocketProofs` | `Fanout`, `WsHook` and `AlpacaStream` |
| `DashboardProofs` | `Dashboard`, after facts about the lists that a filter leaves |
| `ChartProofs` | `NewsPanel` and `Analytics`, after facts about induction and lists; it uses the facts of `DashboardProofs` |

| Theorem | States | What makes it inductive |
|---|---|---|
| `TypeCorrect` (Tracking) | `TypeOK` | inductive as it is; split into the records of requests and the rest, since most actions disturb one of them |
| `LimitsHold` | `ListsBounded` | `RoomLeft`: a request that has passed the count has used its place before it stores, so those requests (`AboutToStore`) count with the list |
| `BootRepairsSubscriptions` | `BootRepairs` | `BootInv`: in each phase of the start-up, what is subscribed, left to track, and in Redis; no request runs before the server is up |
| `NoLeaks`, `OneListHolds`, `StreamsHold`, `AlertsHold` | `NoLeak`, `OneList`, `StreamsExactly`, `NoOrphanAlert` | `CalmInv`: of every ticker that is not disturbed (`TickerOK`), what its one request has found out still holds (`StillTrue`), and what is untrue of it is the doing of that request at the labels `Migrating`, `Starting`, `Stopping`, `Removing`. A ticker at rest is so by itself (`RestIsOK`), a step is about one ticker and leaves the others so (`StepOthers`) |
| `KeepsPromise` | `ImplementsTrackedSet` | the same; each step of a handler is mapped to a step of `TrackedSet` or a stutter (`StepPromised`), and `disturbed` only to the status unknown (`StatusDrifts`) |
| `QuoteTypeCorrect`, `PushesHold` (QuoteAlerts) | `TypeOK`, `PushesBounded` | `PushInv`: the pushes of an alert and the calls that hold it (`Holders`) together stay below the calls that can overlap; with Yahoo's feed that is one (`OneAtATime`) |
| `TriggeredHolds` | `TriggeredIsPushed` | `LostInv`: alerts marked that nobody will push are counted by the broadcasts that raised |
| `LatestHolds` | `LatestPrice` | `LatestInv`: the latest quote is still to be recorded, or what is recorded is of it or of its rivals, unless it is excused; with Yahoo's feed the one call under way carries it |
| `CrossingsHold` | `NoMissedCrossing` | `MissInv`: an alert whose target has been crossed is about to be marked by the call that crossed it (`WillMark`), which no ghost will end |
| `CastInvHolds`, `MembersHold`, `CalmCastsHold` (Fanout) | `CastInv`, `MembersAreConnected`, `CalmCastsReachAll` | `DeadInv`: a broadcast takes out only clients whose connection is down; `CalmInv`: while the set is left alone each member has been sent to, has failed or is to come |
| `StreamTypeCorrect`, `StreamInSync` (AlpacaStream) | `StreamTypeOK`, `InSync` | `SyncInv`: of each ticker that is not doubtful the handlers agree with `_subscribed`, or the only call under way will make them agree |
| `HookTypeCorrect`, `OnePerUrlHolds` (WsHook) | `TypeOK`, `OnePerUrl` | `ChainInv`: one chain of sockets and timers for each url, counting sockets that are closing; `RefInv`: a mounted component holds what its cleanup will end, and its url has a chain; one that is gone has ended that of some url |
| `DeviceTypeCorrect`, `LabelsHold` (Device) | `TypeOK`, `LabelTrue` | `LabelInv`: outside `doubt` a toggle, and its call between two awaits, know what became of the subscription; a call left behind puts every label it overtakes in `doubt` |
| `RegisteredHolds` | `Registered` | `TypeInv`: endpoints are made once, and one that a `DELETE` is under way for is the subscription no more |
| `JobsHold`, `NewsTypeCorrect` (News) | `TypeInv`, `TypeOK` | `JobInv`: what the poller and each request hold at every step |
| `SeenHolds` | `SeenIsDelivered` | the poller puts on record what it has shown (`MarkInv`) or what nobody was there for, and a page is shorter than its limit by the article at hand (`PageBounded`) |
| `RepeatsHold` | `RepeatsBounded` | `RepeatsInv`: deliveries so far and workers that may still deliver (`MayDeliver`) |
| `CallsHold` | `CallsBounded` | `CallsInv`: calls so far and workers that may still call (`MayCall`) |
| `FeedTypeCorrect`, `RowsHold` (Feed) | `TypeOK`, `RowsCoherent` | `PartOK`, which whatever is merged satisfies and a merge preserves (`SpreadOK`): the fields that follow from a price come with it and from it |
| `DashboardTypeCorrect` (Dashboard) | `TypeOK` | `TypeInv`: each request in flight is of its kind (`Formed`), and so is the answer it carries |
| `RowsAgreeHolds` | `RowsAgree` | `RowsInv`: of a ticker whose requests have not overlapped, a write is the only request about it (`Lonely`), requests fit the rows on the page (`RowFits`), and these are the server's or a request accounts for the difference (`RowRight`) |
| `AlertsAgreeHolds` | `AlertsAgree` | `AlertsInv`: of a calm ticker, each alert is on the page once (`OnceEach`) and as the server has it or soon will (`AllShow`), requests fit (`AllFit`), and every alert of the server is on the page or on its way to or from it (`Accounted`); an alert is of a listed ticker and of no other than the page and the requests say (`OwnersRight`) |
| `PanelTypeCorrect`, `TabsHold` (NewsPanel) | `PanelTypeOK`, `TabsAgree` | `ListsInv`: a request and its answer are about one ticker (`AskRight`), and what was loaded is under its own ticker (`LoadedRight`) |
| `RecordHolds` | `RecordIsShown` | `RecordInv`, with what a load has picked: the article is among the live or the loaded items, or gone, where leaving the page sends all it showed; `Distinct` and the tabs lose none |
| `ChartHolds` | `ChartRight` | `ChartInv`: ticks are in the order of time and no more than the window (`PricesTyped`), and of the popovers one at most is by a click (`PopoversRight`); the rest is about functions of the state: the loop of `Nearest` ends with a nearest tick, each item has one marker, prices are inside their axis |
| `AnalyticsTypeCorrect`, `PerformersHold` (Analytics) | `AnalyticsTypeOK`, `PerformersAgree` | `AnalyticsInv`: snapshots are of holdings with their totals and in the order of time (`SnapshotsRight`), and a history read is what would be read, until a snapshot is stored (`QueryRight`) |
| `WaterfallHolds`, `ChartsAgreeHolds` | `WaterfallBalances`, `ChartsAgree` | the same; lemmas about sums over finite sets (`SumIsLoop`, `SumFacts`, `SumMonotone`), about the order of the bars (`DescendingFacts`) and their running total (`RunningFacts`, `RunningRight`) do the rest |

The theorems about `Tracking` have no hypothesis about the requests. `LimitsHold` and `BootRepairsSubscriptions` hold of every ticker, whatever has
come upon it. The others except the disturbed ones, as they must: an add that waits for the previous close subscribes after an
overlapping removal has finished; a removal can fail before it unsubscribes; a crash between buying a watched ticker and taking it off
the watchlist leaves it in both lists, and a later removal from the one unsubscribes it for both; a crash in a cascade leaves
alerts. What they show is that none of this spreads: it stays with the ticker it came upon, and ends for that ticker when it is at rest.

The counting arguments rest on the finiteness of the sets that do the counting (`Reqs`, `Tasks`, `Clients`, `Calls`, `Loads`), which the
modules assume by name; `NewsPanel` and `Analytics` assume it of `Tickers`. `None` is assumed to be no ticker, alert, price, client,
sender or article, as in the code; TLC evaluates every assumption in the runs. Each inductive invariant was model-checked on its
module's run before it was proved, `AnalyticsInv` with its sets of snapshots written as a test of one snapshot, since they are infinite.

The provers take no property as the parameter of a lemma, so the library's theorems about induction cannot be applied. `Least` and
`Smallest` (ChartProofs) stand in for them: a non-empty set of naturals has a least member, and a non-empty set of subsets
of a finite set has one with no other of them inside it. An induction shows that the set of its counterexamples is empty. That the
loop of `Nearest` and the running totals of a waterfall come out right, that a flattened sequence has the elements of its parts,
and that a sum over a finite set may be taken in any order, are proved in this way.

Some definitions have the form they have for the prover's sake: `News` builds the record of `Turn` field by field,
`Feed` defines the spread `@@` itself, as the module `TLC` does, `Page` defines the filter by the positions it keeps,
`Nearest` and `Running` are recursive functions over the positions of a list, and the sums of `Analytics` are of functions.

Model-checked and not proved:

- Liveness (`Settles`, `StopEndsPublished`, `Reconnects`, `LatestAreShown`, `CatchesUp`, `ToastsGo`, `LoadEnds`, `DeadGo`): fairness and
  `ENABLED` are beyond the prover.
- The totals of `Feed` as numbers: `RowsHold` shows that the two sums range over the same rows with the same
  amounts, not what they add up to.

## What is left out

- The wording of messages, rounding, colours and layout; the P&L numbers in `QuoteAlerts` (`Feed` has them).
- The clock of the throttle, and the length of backoffs other than the browser's.
- Back pressure of clients that do not read: a send ends or raises.
- Of the Yahoo poller, the download, which answers for all tickers or raises, and `stop`.
- The digest: one sleep and one push a day. Its two reads are those of `news_service.py:103-106`.
- The orderly shutdown of the whole server: each service's `stop` is in its module, the order in `lifespan` is
  straight-line code. `lifespan` does not stop the snapshot loop; it ends with the process.
- Passwords, signatures and expiry dates of tokens (`auth.py`): `Device` has tokens that are valid until they are not.
- The patterns of `models.py`, Prometheus metrics, `MarketStatusBadge` with `marketHours.ts` (a function of the clock alone), the
  registration and offline cache of the service worker, and formatting (`format.ts`).

## Plan

1. A composition of `Tracking` with `AlpacaStream`, from the lists to the stream's handlers.
2. `Lifespan`: start-up that fails at each step, with every service's task.
3. `YahooPoll` with several tickers, and `Digest` with the clock of its loop.
4. Proofs: the totals of `Feed` as sums of its rows, with the lemmas about sums of `ChartProofs`.
