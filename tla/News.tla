-------------------------------- MODULE News --------------------------------
(***************************************************************************)
(* NewsService: a poller that broadcasts the latest articles of each       *)
(* tracked ticker, "load more" requests that answer with older ones, the   *)
(* set of article ids both consult, and the Redis cache of Groq's          *)
(* summaries.                                                              *)
(*                                                                         *)
(* There is one poller for Alpaca's tickers and one for Yahoo's; no        *)
(* article belongs to both, so this is the model of either.  Articles are  *)
(* numbered in the order they are published, and a fetch gives the latest  *)
(* ones first.  A step is a stretch of the event loop between two awaits.  *)
(***************************************************************************)
EXTENDS Naturals, FiniteSets

CONSTANTS
  Tickers,     \* tracked tickers
  MaxArticles, \* bound: articles published
  SymbolsOf,   \* SymbolsOf[a]: the tickers article a is tagged with
  Poller,
  Loads,       \* how many load-more requests can be in progress at once
  None,
  PerTicker,   \* NEWS_ITEMS_PER_TICKER
  FetchLimit,  \* NEWS_FETCH_LIMIT
  LoadLimit,   \* the request's limit
  Multiplier,  \* LOAD_MORE_FETCH_MULTIPLIER
  MaxMishaps   \* bound: exceptions, broadcasts that raise and restarts, together

Articles == 1..MaxArticles
Workers == {Poller} \cup Loads

ASSUME ArticlesAssumption == /\ MaxArticles \in Nat
                             /\ SymbolsOf \in [Articles -> SUBSET Tickers]
ASSUME WorkersAssumption == /\ IsFiniteSet(Loads) /\ Poller \notin Loads
                            /\ None \notin Tickers \X Articles
ASSUME LimitsAssumption == /\ {PerTicker, FetchLimit, LoadLimit, Multiplier} \subseteq Nat \ {0}
                           /\ MaxMishaps \in Nat

VARIABLES
  published,    \* how many articles have been published
  broadcastIds, \* _broadcast_ids
  cached,       \* articles with a news_summary key in Redis
  job,          \* job[w]: where the poller, or a request, is
  calls,        \* calls[a]: Groq calls for a since its summary last expired
  times,        \* times[a]: how often a has reached the user
  unheard,      \* articles broadcast while there was nobody to take the message
  failures, lost, \* exceptions from Redis or Groq in the poller, requests that met one
  raises,       \* broadcasts that raised
  restarts

vars == <<published, broadcastIds, cached, job, calls, times, unheard,
          failures, lost, raises, restarts>>
reached == <<times, unheard>>
budgets == <<failures, lost, raises, restarts>>

MishapsLeft == failures + lost + raises + restarts < MaxMishaps

Pairs == Tickers \X Articles

\* now: the pair being worked on; todo: those after it; page: what a request will answer.
Idle == [pc |-> "idle", now |-> None, todo |-> {}, page |-> {}]
Jobs == [pc : {"idle", "cache", "groq", "store", "broadcast", "mark"},
         now : Pairs \cup {None}, todo : SUBSET Pairs, page : SUBSET Pairs]

Init == /\ published = 0
        /\ broadcastIds = {} /\ cached = {}
        /\ job = [w \in Workers |-> Idle]
        /\ calls = [a \in Articles |-> 0]
        /\ times = [a \in Articles |-> 0] /\ unheard = {}
        /\ failures = 0 /\ lost = 0 /\ raises = 0 /\ restarts = 0

\* The first n of the articles in S.
Latest(n, S) == {a \in S : Cardinality({b \in S : b > a}) < n}

-----------------------------------------------------------------------------
(* The poller                                                              *)

Tagged(t, S) == {a \in S : t \in SymbolsOf[a]}

\* by_ticker, cut to the latest articles of each ticker.
Batch == {p \in Pairs :
            p[2] \in Latest(PerTicker, Tagged(p[1], Latest(FetchLimit, 1..published)))}

\* The pairs in `left` that can be next after ticker t: one ticker after the other, the
\* latest article of each first.
Foremost(left, t) ==
  LET firsts == {p \in left : \A q \in left : q[1] = p[1] => q[2] <= p[2]}
      same == {p \in firsts : p[1] = t}
  IN IF same # {} THEN same ELSE firsts

\* The loops over by_ticker: what the poller can be doing once `ids` are the ids on record.
OnwardUnfiltered(todo, t, ids) ==
  IF todo = {} THEN {Idle}
  ELSE {[Idle EXCEPT !.pc = "cache", !.now = p, !.todo = todo \ {p}] : p \in Foremost(todo, t)}

Onward(todo, t, ids) ==
  LET left == {p \in todo : p[2] \notin ids}
  IN IF left = {} THEN {Idle}
     ELSE {[Idle EXCEPT !.pc = "cache", !.now = p, !.todo = left \ {p}] : p \in Foremost(left, t)}

PollGoesOn(ids) ==
  \E next \in Onward(job[Poller].todo, job[Poller].now[1], ids) :
    job' = [job EXCEPT ![Poller] = next]

\* The sleep is over and the fetch has answered.
Poll ==
  /\ job[Poller].pc = "idle"
  /\ \E next \in Onward(Batch, None, broadcastIds) : job' = [job EXCEPT ![Poller] = next]
  /\ UNCHANGED <<published, broadcastIds, cached, calls, reached, budgets>>

\* The message is sent to the clients one after the other, and one of them at least takes
\* it, or all of them have left.
Broadcast ==
  /\ job[Poller].pc = "broadcast"
  /\ job' = [job EXCEPT ![Poller].pc = "mark"]
  /\ \/ times' = [times EXCEPT ![job[Poller].now[2]] = @ + 1] /\ UNCHANGED unheard
     \/ unheard' = unheard \cup {job[Poller].now[2]} /\ UNCHANGED times
  /\ UNCHANGED <<published, broadcastIds, cached, calls, budgets>>

\* With no client connected broadcast returns at once, and the article is put on record.
BroadcastToNobody ==
  /\ job[Poller].pc = "broadcast"
  /\ unheard' = unheard \cup {job[Poller].now[2]}
  /\ broadcastIds' = broadcastIds \cup {job[Poller].now[2]}
  /\ PollGoesOn(broadcastIds')
  /\ UNCHANGED <<published, cached, calls, times, budgets>>

\* The broadcast has returned: only now is the article put on record.
Mark ==
  /\ job[Poller].pc = "mark"
  /\ broadcastIds' = broadcastIds \cup {job[Poller].now[2]}
  /\ PollGoesOn(broadcastIds')
  /\ UNCHANGED <<published, cached, calls, reached, budgets>>

\* The broadcast raises, its message sent to the clients before the one that left or not.
BroadcastRaises ==
  /\ job[Poller].pc = "broadcast"
  /\ MishapsLeft
  /\ raises' = raises + 1
  /\ \/ UNCHANGED reached
     \/ times' = [times EXCEPT ![job[Poller].now[2]] = @ + 1] /\ UNCHANGED unheard
  /\ PollGoesOn(broadcastIds)
  /\ UNCHANGED <<published, broadcastIds, cached, calls, failures, lost, restarts>>

PollFailsAndMarks ==
  /\ job[Poller].pc \in {"cache", "groq", "store"}
  /\ MishapsLeft
  /\ failures' = failures + 1
  /\ broadcastIds' = broadcastIds \cup {job[Poller].now[2]}
  /\ PollGoesOn(broadcastIds')
  /\ UNCHANGED <<published, cached, calls, reached, lost, raises, restarts>>

\* Redis or Groq raises: the article is logged and skipped, and not put on record.
PollFails ==
  /\ job[Poller].pc \in {"cache", "groq", "store"}
  /\ MishapsLeft
  /\ failures' = failures + 1
  /\ PollGoesOn(broadcastIds)
  /\ UNCHANGED <<published, broadcastIds, cached, calls, reached, lost, raises, restarts>>

-----------------------------------------------------------------------------
(* get_more_news                                                           *)

\* The latest of todo next, whose ticker is the same for all.
Turn(l, todo, page) ==
  job' = [job EXCEPT ![l] =
            [pc |-> "cache", now |-> CHOOSE p \in todo : p \in Foremost(todo, None),
             todo |-> todo \ Foremost(todo, None), page |-> page]]

\* The fetch has answered with articles up to `before`; those on record are filtered out
\* here, once, and with none left the answer is empty.
LoadMore(l, t, before) ==
  /\ job[l].pc = "idle"
  /\ LET candidates == Latest(LoadLimit * Multiplier, Tagged(t, 1..before))
         fresh == Latest(LoadLimit, candidates \ broadcastIds)
     IN fresh # {} /\ Turn(l, {t} \X fresh, {})
  /\ UNCHANGED <<published, broadcastIds, cached, calls, reached, budgets>>

\* An item is built: it joins the page and goes on record; after the last the request
\* answers.
LoadBuilt(l) ==
  LET j == job[l]
      page == j.page \cup {j.now}
  IN /\ broadcastIds' = broadcastIds \cup {j.now[2]}
     /\ IF j.todo # {} THEN Turn(l, j.todo, page) /\ UNCHANGED reached
        ELSE /\ job' = [job EXCEPT ![l] = Idle]
             /\ times' = [a \in Articles |-> IF <<j.now[1], a>> \in page THEN times[a] + 1
                                             ELSE times[a]]
             /\ UNCHANGED unheard

\* Redis or Groq raises: the answer is 500, whatever had been built for it.
LoadFails(l) ==
  /\ job[l].pc # "idle"
  /\ MishapsLeft
  /\ lost' = lost + 1
  /\ job' = [job EXCEPT ![l] = Idle]
  /\ UNCHANGED <<published, broadcastIds, cached, calls, reached, failures, raises, restarts>>

-----------------------------------------------------------------------------
(* _summarise_cached, in the poller and in requests                        *)

\* The item has its summary.
Summarised(w) ==
  IF w = Poller THEN /\ job' = [job EXCEPT ![w].pc = "broadcast"]
                     /\ UNCHANGED <<broadcastIds, reached>>
  ELSE LoadBuilt(w)

ReadCache(w) ==
  /\ job[w].pc = "cache"
  /\ IF job[w].now[2] \in cached THEN Summarised(w)
     ELSE job' = [job EXCEPT ![w].pc = "groq"] /\ UNCHANGED <<broadcastIds, reached>>
  /\ UNCHANGED <<published, cached, calls, budgets>>

Summarise(w) ==
  /\ job[w].pc = "groq"
  /\ calls' = [calls EXCEPT ![job[w].now[2]] = @ + 1]
  /\ job' = [job EXCEPT ![w].pc = "store"]
  /\ UNCHANGED <<published, broadcastIds, cached, reached, budgets>>

StoreSummaryNowhere(w) ==
  /\ job[w].pc = "store"
  /\ Summarised(w)
  /\ UNCHANGED <<published, cached, calls, budgets>>

StoreSummary(w) ==
  /\ job[w].pc = "store"
  /\ cached' = cached \cup {job[w].now[2]}
  /\ Summarised(w)
  /\ UNCHANGED <<published, calls, budgets>>

-----------------------------------------------------------------------------
(* The world around                                                        *)

Publish == /\ published < MaxArticles
           /\ published' = published + 1
           /\ UNCHANGED <<broadcastIds, cached, job, calls, reached, budgets>>

\* SUMMARY_CACHE_TTL_SECONDS have passed.
Expire(a) == /\ a \in cached
             /\ cached' = cached \ {a}
             /\ calls' = [calls EXCEPT ![a] = 0]
             /\ UNCHANGED <<published, broadcastIds, job, reached, budgets>>

\* _broadcast_ids is memory; the summaries are in Redis.
Restart == /\ MishapsLeft
           /\ restarts' = restarts + 1
           /\ broadcastIds' = {}
           /\ job' = [w \in Workers |-> Idle]
           /\ UNCHANGED <<published, cached, calls, reached, failures, lost, raises>>

-----------------------------------------------------------------------------
WorkStep(w) == ReadCache(w) \/ Summarise(w) \/ StoreSummary(w)
PollerStep == Poll \/ Broadcast \/ BroadcastToNobody \/ Mark \/ WorkStep(Poller)

Next == \/ PollerStep \/ BroadcastRaises \/ PollFails
        \/ \E l \in Loads : \/ \E t \in Tickers, before \in 1..published : LoadMore(l, t, before)
                            \/ WorkStep(l) \/ LoadFails(l)
        \/ Publish \/ Restart \/ \E a \in Articles : Expire(a)

Spec == Init /\ [][Next]_vars

\* The poll loop never ends, and what it and the requests await answers or raises.
FairSpec == Spec /\ WF_vars(PollerStep) /\ \A l \in Loads : WF_vars(WorkStep(l))

-----------------------------------------------------------------------------
(* Properties                                                              *)

\* Every variable keeps to its values; an article at work, or in a page, is a published
\* one, and no pair is worked on and still to do.
TypeOK == /\ published \in 0..MaxArticles
          /\ broadcastIds \subseteq 1..published /\ cached \subseteq 1..published
          /\ job \in [Workers -> Jobs]
          /\ \A w \in Workers : /\ job[w].pc = "idle" <=> job[w].now = None
                                /\ job[w].now \notin job[w].todo \cup job[w].page
          /\ \A l \in Loads : job[l].pc \notin {"broadcast", "mark"}
          /\ calls \in [Articles -> Nat] /\ times \in [Articles -> Nat]
          /\ unheard \subseteq Articles
          /\ {failures, lost, raises, restarts} \subseteq Nat
          /\ failures + lost + raises + restarts <= MaxMishaps

\* However often it is polled, tagged or asked for, an article reaches the user at most once
\* by the poller and once by each request working on it beside the poller, and as often
\* again after a restart; each broadcast that raised can add one more.
RepeatsBounded == \A a \in Articles :
  times[a] <= Cardinality(Workers) * (1 + restarts) + raises

\* An article that is on record, and so never sent again, has reached the user or is in a
\* page that will, but for those that a request which failed had built before
\* (DECISION_LOG.md, commit 5: "simply not marking it as broadcast is the retry
\* mechanism"), and those that were broadcast while there was nobody to take them.
SeenIsDelivered ==
  LET paged == {p[2] : p \in UNION {job[l].page : l \in Loads}}
  IN Cardinality({a \in broadcastIds \ (paged \cup unheard) : times[a] = 0}) <= (LoadLimit - 1) * lost

\* The cache does its work: until a summary expires each worker asks Groq for it once at
\* most, again after a restart, and once more for each exception.
CallsBounded == \A a \in Articles :
  calls[a] <= Cardinality(Workers) * (1 + restarts) + failures + lost

\* An article among the latest of a tracked ticker reaches the user, whatever failed
\* before, unless later ones push it out first, nobody was there when it was broadcast, or a
\* failed request took it along.
LatestAreShown == \A a \in Articles :
  (\E t \in Tickers : <<t, a>> \in Batch) ~>
    (times[a] > 0 \/ a \in unheard \/ lost > 0 \/ ~\E t \in Tickers : <<t, a>> \in Batch)
=============================================================================
