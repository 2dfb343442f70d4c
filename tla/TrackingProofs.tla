--------------------------- MODULE TrackingProofs ---------------------------
(* What holds of Tracking for every choice of its constants.               *)
EXTENDS Tracking, FiniteSetTheorems, TLAPS

USE DEF TickerOps, Ops, Idle

\* A request record has the shape Requests gives it and stands at a label of its kind.
RequestOK(q) == /\ q \in Requests
                /\ q.pc \in LabelsOf(q.op)
                /\ q.op \in TickerOps <=> q.ticker # None

\* Moving a request to another label of its kind keeps it well formed.
LEMMA GotoOK ==
  ASSUME NEW q, RequestOK(q), NEW l \in LabelsOf(q.op)
  PROVE  RequestOK([q EXCEPT !.pc = l])
BY DEF RequestOK, Requests, Labels

\* The idle record is well formed.
LEMMA IdleOK == RequestOK(Idle)
<1>1. "idle" \in LabelsOf("none")
  BY DEF LabelsOf
<1>2. "idle" \in Labels
  BY <1>1 DEF Labels
<1> QED
  BY <1>1, <1>2, TickersAssumption DEF RequestOK, Requests

-----------------------------------------------------------------------------
(* Type correctness                                                        *)

\* The part of TypeOK that is not about requests, and the part that is.
StateOK ==
  /\ held \subseteq Tickers /\ watched \subseteq Tickers
  /\ alertOf \in [Alerts -> Tickers \cup {None}]
  /\ prevClose \subseteq Tickers /\ subscribed \subseteq Tickers
  /\ server \in {"down", "holdings", "watchlist", "up"}
  /\ bootTodo \subseteq Tickers
  /\ failures \in 0..MaxFailures /\ crashes \in 0..MaxCrashes
RequestsOK == /\ req \in [Reqs -> Requests]
              /\ \A r \in Reqs : RequestOK(req[r])

\* With the history they make up the type invariant.
LEMMA TypeParts == TypeOK <=> StateOK /\ RequestsOK /\ disturbed \subseteq Tickers
<1>1. req \in [Reqs -> Requests] => \A r \in Reqs : req[r] \in Requests
  OBVIOUS
<1> QED
  BY <1>1 DEF TypeOK, StateOK, RequestsOK, RequestOK

\* A step that only replaces the record of r by a well-formed one keeps RequestsOK.
LEMMA ReplaceOK ==
  ASSUME RequestsOK, NEW r \in Reqs, NEW q, RequestOK(q), req' = [req EXCEPT ![r] = q]
  PROVE  RequestsOK'
BY DEF RequestsOK, RequestOK

\* Moving a request to another label of its kind keeps all requests well formed.
LEMMA GotoKeeps ==
  ASSUME RequestsOK, NEW r \in Reqs, NEW l \in LabelsOf(req[r].op), Goto(r, l)
  PROVE  RequestsOK'
<1>1. RequestOK([req[r] EXCEPT !.pc = l])
  BY GotoOK DEF RequestsOK
<1>2. req' = [req EXCEPT ![r] = [req[r] EXCEPT !.pc = l]]
  BY DEF Goto, RequestsOK
<1> QED
  BY <1>1, <1>2, ReplaceOK

\* So does ending one.
LEMMA FinishKeeps ==
  ASSUME RequestsOK, NEW r \in Reqs, Finish(r)
  PROVE  RequestsOK'
BY IdleOK, ReplaceOK DEF Finish

\* At every label but the last one of its kind, the next one is of the same kind.
LEMMA StepRequests ==
  ASSUME RequestsOK, StateOK, NEW r \in Reqs, Step(r)
  PROVE  RequestsOK'
<1>0. /\ req[r].pc \in LabelsOf(req[r].op)
      /\ req[r] \in Requests
  BY DEF RequestsOK, RequestOK
<1>1. CASE AddStep(r)
  <2>1. req[r].op = "add"
    BY <1>1 DEF AddStep, AddCount, AddStore, AddLeaveWatchlist, At
  <2>2. {"store", "track"} \subseteq LabelsOf(req[r].op)
    BY <2>1 DEF LabelsOf
  <2> QED
    BY <1>1, <2>2, GotoKeeps, FinishKeeps DEF AddStep, AddCount, AddStore, AddLeaveWatchlist
<1>2. CASE RemoveStep(r)
  <2>1. req[r].op \in {"remove", "unwatch"}
    BY <1>2 DEF RemoveStep, RemoveCheck, RemoveStore, UnwatchCheck, UnwatchStore, At
  <2>2. {"delete", "untrack"} \subseteq LabelsOf(req[r].op)
    BY <2>1 DEF LabelsOf, CleanupLabels
  <2> QED
    BY <1>2, <2>2, GotoKeeps, FinishKeeps
    DEF RemoveStep, RemoveCheck, RemoveStore, UnwatchCheck, UnwatchStore
<1>3. CASE WatchStep(r)
  <2>1. req[r].op = "watch"
    BY <1>3 DEF WatchStep, WatchCheck, WatchCount, WatchStore, At
  <2>2. {"count", "store", "track"} \subseteq LabelsOf(req[r].op)
    BY <2>1 DEF LabelsOf
  <2> QED
    BY <1>3, <2>2, GotoKeeps, FinishKeeps DEF WatchStep, WatchCheck, WatchCount, WatchStore
<1>4. CASE TrackKnown(r) \/ TrackUnknown(r) \/ TrackFetched(r)
  <2>1. req[r].op \in {"add", "watch"}
    BY <1>0, <1>4
    DEF TrackKnown, TrackUnknown, TrackFetched, LabelsOf, CleanupLabels, Requests
  <2>2. "fetch" \in LabelsOf(req[r].op)
    BY <2>1 DEF LabelsOf
  <2>3. req[r].op = "add" => "leaveWatchlist" \in LabelsOf(req[r].op)
    BY DEF LabelsOf
  <2> QED
    BY <1>4, <2>2, <2>3, GotoKeeps, FinishKeeps
    DEF TrackKnown, TrackUnknown, TrackFetched, AfterTrack
<1>5. CASE Untrack(r) \/ Forget(r) \/ ListAlerts(r)
  <2>1. req[r].op \in {"remove", "unwatch"}
    BY <1>0, <1>5 DEF Untrack, Forget, ListAlerts, LabelsOf, CleanupLabels, Requests
  <2>2. {"forget", "listAlerts", "cascade"} \subseteq LabelsOf(req[r].op)
    BY <2>1 DEF LabelsOf, CleanupLabels
  <2>3. CASE Untrack(r) \/ Forget(r)
    BY <2>2, <2>3, GotoKeeps DEF Untrack, Forget
  <2>4. CASE ListAlerts(r)
    <3> DEFINE owned == {a \in Alerts : alertOf[a] = req[r].ticker}
               q == [[req[r] EXCEPT !.pc = "cascade"] EXCEPT !.todo = owned]
    <3>1. RequestOK([req[r] EXCEPT !.pc = "cascade"])
      BY <2>2, GotoOK DEF RequestsOK
    <3>2. RequestOK(q)
      BY <3>1, <1>0 DEF RequestOK, Requests
    <3>3. req' = [req EXCEPT ![r] = q]
      BY <2>4, <1>0 DEF ListAlerts, RequestsOK, Requests
    <3> HIDE DEF q
    <3> QED
      BY <3>2, <3>3, ReplaceOK
  <2> QED
    BY <1>5, <2>3, <2>4
<1>6. CASE \E a \in Alerts : DeleteAlert(r, a)
  <2> PICK a \in Alerts : DeleteAlert(r, a)
    BY <1>6
  <2> DEFINE q == [req[r] EXCEPT !.todo = @ \ {a}]
  <2>1. RequestOK(q)
    BY <1>0 DEF RequestOK, RequestsOK, Requests
  <2>2. req' = [req EXCEPT ![r] = q]
    BY DEF DeleteAlert, RequestsOK
  <2> HIDE DEF q
  <2> QED
    BY <2>1, <2>2, ReplaceOK
<1>7. CASE AlertCheckHeld(r) \/ AlertCheckWatched(r)
  <2>1. req[r].op = "setAlert"
    BY <1>7 DEF AlertCheckHeld, AlertCheckWatched, At
  <2>2. {"checkWatched", "create"} \subseteq LabelsOf(req[r].op)
    BY <2>1 DEF LabelsOf
  <2> QED
    BY <1>7, <2>2, GotoKeeps, FinishKeeps DEF AlertCheckHeld, AlertCheckWatched
<1>8. CASE CascadeDone(r) \/ \E a \in Alerts : AlertCreate(r, a)
  BY <1>8, FinishKeeps DEF CascadeDone, AlertCreate
<1> QED
  BY <1>1, <1>2, <1>3, <1>4, <1>5, <1>6, <1>7, <1>8 DEF Step, TrackStep, AlertStep

\* A step of a request in flight keeps the types of everything else.
LEMMA StepState ==
  ASSUME RequestsOK, StateOK, NEW r \in Reqs, Step(r)
  PROVE  StateOK'
<1> DEFINE t == req[r].ticker
<1>0. req[r] \in Requests /\ req[r].pc \in LabelsOf(req[r].op)
  BY DEF RequestsOK, RequestOK
<1>1. req[r].op \in TickerOps => t \in Tickers
  BY <1>0 DEF RequestsOK, RequestOK, Requests
<1>2. CASE AddStep(r)
  BY <1>1, <1>2
  DEF StateOK, AddStep, AddCount, AddStore, AddLeaveWatchlist, At, redis, memory, boot, budgets
<1>3. CASE RemoveStep(r)
  BY <1>3
  DEF StateOK, RemoveStep, RemoveCheck, RemoveStore, UnwatchCheck, UnwatchStore,
      redis, memory, boot, budgets
<1>4. CASE WatchStep(r)
  BY <1>1, <1>4
  DEF StateOK, WatchStep, WatchCheck, WatchCount, WatchStore, At, redis, memory, boot, budgets
<1>5. CASE TrackKnown(r) \/ TrackUnknown(r) \/ TrackFetched(r)
  <2>1. req[r].op \in {"add", "watch"}
    BY <1>0, <1>5
    DEF TrackKnown, TrackUnknown, TrackFetched, LabelsOf, CleanupLabels, Requests
  <2> QED
    BY <1>1, <1>5, <2>1
    DEF StateOK, TrackKnown, TrackUnknown, TrackFetched, redis, memory, boot, budgets
<1>6. CASE Untrack(r) \/ Forget(r) \/ ListAlerts(r) \/ CascadeDone(r)
  BY <1>6 DEF StateOK, Untrack, Forget, ListAlerts, CascadeDone, redis, memory, boot, budgets
<1>7. CASE \E a \in Alerts : DeleteAlert(r, a)
  BY <1>7 DEF StateOK, DeleteAlert, memory, boot, budgets
<1>8. CASE AlertCheckHeld(r) \/ AlertCheckWatched(r)
  BY <1>8 DEF StateOK, AlertCheckHeld, AlertCheckWatched, redis, memory, boot, budgets
<1>9. CASE \E a \in Alerts : AlertCreate(r, a)
  BY <1>1, <1>9 DEF StateOK, AlertCreate, At, memory, boot, budgets
<1> QED
  BY <1>2, <1>3, <1>4, <1>5, <1>6, <1>7, <1>8, <1>9 DEF Step, TrackStep, AlertStep

\* An arriving request is well formed, and nothing else changes.
LEMMA ArriveType ==
  ASSUME RequestsOK, StateOK, NEW r \in Reqs, Arrive(r)
  PROVE  RequestsOK' /\ StateOK'
<1>1. StateOK'
  BY DEF StateOK, Arrive, Submit, SubmitDeleteAlert, redis, memory, boot, budgets
<1>2. ASSUME NEW op \in TickerOps, NEW t \in Tickers, Submit(r, op, t)
      PROVE  RequestsOK'
  <2> DEFINE q == [op |-> op, ticker |-> t, todo |-> {},
                   pc |-> IF op = "add" THEN "count" ELSE "check"]
  <2>1. q.pc \in LabelsOf(op)
    BY DEF LabelsOf, CleanupLabels
  <2>2. RequestOK(q)
    BY <2>1, TickersAssumption DEF RequestOK, Requests, Labels
  <2> QED
    BY <1>2, <2>2, ReplaceOK DEF Submit
<1>3. ASSUME NEW a \in Alerts, SubmitDeleteAlert(r, a)
      PROVE  RequestsOK'
  <2> DEFINE q == [op |-> "deleteAlert", pc |-> "cascade", ticker |-> None, todo |-> {a}]
  <2>1. q.pc \in LabelsOf(q.op)
    BY DEF LabelsOf
  <2>2. RequestOK(q)
    BY <2>1 DEF RequestOK, Requests, Labels
  <2> QED
    BY <1>3, <2>2, ReplaceOK DEF SubmitDeleteAlert
<1> QED
  BY <1>1, <1>2, <1>3 DEF Arrive

\* Failures, the start-up and crashes keep the types.
LEMMA ServerType ==
  ASSUME RequestsOK, StateOK, Boot \/ Crash \/ \E r \in Reqs : Fail(r)
  PROVE  RequestsOK' /\ StateOK'
<1>1. CASE Boot
  BY <1>1
  DEF RequestsOK, StateOK, Boot, BootStart, BootPhase, BootTrack, redis, memory, budgets
<1>2. CASE Crash
  <2>1. RequestsOK'
    BY <1>2, IdleOK DEF Crash, RequestsOK, RequestOK
  <2>2. crashes' \in 0..MaxCrashes
    BY <1>2, BudgetAssumption DEF Crash, StateOK
  <2> QED
    BY <1>2, <2>1, <2>2 DEF Crash, StateOK, redis
<1>3. ASSUME NEW r \in Reqs, Fail(r)
      PROVE  RequestsOK' /\ StateOK'
  <2>1. failures' \in 0..MaxFailures
    BY <1>3, BudgetAssumption DEF Fail, StateOK
  <2> QED
    BY <1>3, <2>1, FinishKeeps DEF Fail, StateOK, redis, memory, boot
<1> QED
  BY <1>1, <1>2, <1>3

\* What comes upon tickers, and which tickers leave the history: those at rest.
LEMMA HistoryKept ==
  ASSUME RequestsOK, disturbed \subseteq Tickers, [Next]_vars
  PROVE  disturbed' \subseteq Tickers /\ \A t \in disturbed \ disturbed' : AtRest(t)'
<1>1. ASSUME NEW T, T \subseteq Tickers, Disturb(T)
      PROVE  disturbed' \subseteq Tickers /\ \A t \in disturbed \ disturbed' : AtRest(t)'
  BY <1>1 DEF Disturb
<1>2. CASE Boot \/ Crash
  <2>1. PICK T \in SUBSET Tickers : Disturb(T)
    BY <1>2 DEF Boot, Crash
  <2> QED
    BY <1>1, <2>1
<1>3. ASSUME NEW r \in Reqs, Arrive(r) \/ Step(r) \/ Fail(r)
      PROVE  \E T \in SUBSET Tickers : Disturb(T)
  <2>1. req[r].ticker \in Tickers \cup {None}
    BY DEF RequestsOK, RequestOK, Requests
  <2>2. CASE Fail(r)
    BY <2>1, <2>2 DEF Fail
  <2>3. CASE Step(r)
    BY <2>3 DEF Step
  <2>4. CASE Arrive(r)
    BY <2>4 DEF Arrive, Submit, SubmitDeleteAlert
  <2> QED
    BY <1>3, <2>2, <2>3, <2>4
<1> QED
  BY <1>1, <1>2, <1>3 DEF Next, vars

\* Every action keeps the types: the invariant is inductive as it stands.
THEOREM TypeCorrect == Spec => []TypeOK
<1>1. Init => TypeOK
  <2> SUFFICES ASSUME Init PROVE StateOK /\ RequestsOK /\ disturbed \subseteq Tickers
    BY TypeParts
  <2>1. RequestsOK
    BY IdleOK DEF Init, RequestsOK, RequestOK
  <2> QED
    BY <2>1, BudgetAssumption DEF Init, StateOK
<1>2. TypeOK /\ [Next]_vars => TypeOK'
  <2> SUFFICES ASSUME StateOK, RequestsOK, disturbed \subseteq Tickers, [Next]_vars
               PROVE  (StateOK /\ RequestsOK /\ disturbed \subseteq Tickers)'
    <3>1. TypeOK' <=> (StateOK /\ RequestsOK /\ disturbed \subseteq Tickers)'
      BY TypeParts, PTL
    <3> QED
      BY <3>1, TypeParts
  <2>1. CASE Next
    <3>1. disturbed' \subseteq Tickers
      BY <2>1, HistoryKept
    <3> QED
      BY <2>1, <3>1, StepRequests, StepState, ArriveType, ServerType DEF Next
  <2>2. CASE UNCHANGED vars
    BY <2>2 DEF vars, redis, memory, boot, budgets, StateOK, RequestsOK, RequestOK
  <2> QED
    BY <2>1, <2>2
<1> QED
  BY <1>1, <1>2, PTL DEF Spec
-----------------------------------------------------------------------------
(* The limits.  ListsBounded alone is not inductive: a request that passed *)
(* the count has already used its place.  So the requests about to store   *)
(* are counted with the list.                                              *)

AboutToStore(op) == {r \in Reqs : req[r].op = op /\ req[r].pc = "store"}

RoomLeft == /\ Cardinality(held) + Cardinality(AboutToStore("add"))
                 < MaxHoldings + Cardinality(Reqs)
            /\ Cardinality(watched) + Cardinality(AboutToStore("watch"))
                 < MaxWatchlist + Cardinality(Reqs)

\* The lists, the requests and the sets of requests about to store are finite.
LEMMA Finite ==
  ASSUME StateOK
  PROVE  /\ IsFiniteSet(held) /\ Cardinality(held) \in Nat
         /\ IsFiniteSet(watched) /\ Cardinality(watched) \in Nat
         /\ Cardinality(Reqs) \in Nat
         /\ \A op : /\ IsFiniteSet(AboutToStore(op))
                    /\ Cardinality(AboutToStore(op)) \in Nat
                    /\ Cardinality(AboutToStore(op)) <= Cardinality(Reqs)
<1>1. IsFiniteSet(held) /\ IsFiniteSet(watched)
  BY TickersAssumption, FS_Subset DEF StateOK
<1>2. \A op : AboutToStore(op) \subseteq Reqs
  BY DEF AboutToStore
<1> QED
  BY <1>1, <1>2, ReqsAssumption, FS_Subset, FS_CardinalityType

\* Nothing changes for the worse when lists and requests about to store only shrink.
LEMMA Shrinking ==
  ASSUME StateOK, StateOK', RoomLeft,
         held' \subseteq held, watched' \subseteq watched,
         \A op \in {"add", "watch"} : AboutToStore(op)' \subseteq AboutToStore(op)
  PROVE  RoomLeft'
<1>1. /\ Cardinality(held') <= Cardinality(held) /\ Cardinality(held') \in Nat
      /\ Cardinality(watched') <= Cardinality(watched) /\ Cardinality(watched') \in Nat
  BY Finite, FS_Subset, FS_CardinalityType
<1>2. \A op \in {"add", "watch"} :
        /\ Cardinality(AboutToStore(op)') <= Cardinality(AboutToStore(op))
        /\ Cardinality(AboutToStore(op)') \in Nat
  BY Finite, FS_Subset, FS_CardinalityType
<1> QED
  BY <1>1, <1>2, Finite, LimitAssumption DEF RoomLeft

\* A request that leaves its label for any other than "store" adds to no such set.
LEMMA NotToStore ==
  ASSUME RequestsOK, NEW r \in Reqs, NEW q, q.pc # "store", req' = [req EXCEPT ![r] = q]
  PROVE  \A op : AboutToStore(op)' \subseteq AboutToStore(op)
BY DEF AboutToStore, RequestsOK

\* One more request about to store: it passed the count, so the list has a place.
LEMMA CountPassed ==
  ASSUME RequestsOK, StateOK, RoomLeft, NEW r \in Reqs, Goto(r, "store"),
         UNCHANGED <<held, watched>>,
         NEW op \in {"add", "watch"}, req[r].op = op,
         op = "add" => Cardinality(held) < MaxHoldings,
         op = "watch" => Cardinality(watched) < MaxWatchlist,
         RequestsOK', StateOK'
  PROVE  RoomLeft'
<1>1. \A o \in {"add", "watch"} \ {op} : AboutToStore(o)' = AboutToStore(o)
  BY DEF Goto, AboutToStore, RequestsOK, Requests
<1>2. Cardinality(AboutToStore(op)') <= Cardinality(Reqs)
  <2>1. AboutToStore(op)' \subseteq Reqs
    BY DEF AboutToStore
  <2> QED
    BY <2>1, ReqsAssumption, FS_Subset
<1>3. Cardinality(AboutToStore(op)') \in Nat
  <2>1. AboutToStore(op)' \subseteq Reqs
    BY DEF AboutToStore
  <2> QED
    BY <2>1, ReqsAssumption, FS_Subset, FS_CardinalityType
<1> QED
  BY <1>1, <1>2, <1>3, Finite, LimitAssumption DEF RoomLeft

\* Storing turns one request about to store into at most one ticker more.
LEMMA Stored ==
  ASSUME RequestsOK, StateOK, RoomLeft, NEW r \in Reqs, req[r].pc = "store", Goto(r, "track"),
         NEW op \in {"add", "watch"}, req[r].op = op,
         held' \subseteq held \cup {req[r].ticker}, op # "add" => held' = held,
         watched' \subseteq watched \cup {req[r].ticker}, op # "watch" => watched' = watched
  PROVE  RoomLeft'
<1> DEFINE S == AboutToStore(op)
<1>1. \A o \in {"add", "watch"} \ {op} : AboutToStore(o)' = AboutToStore(o)
  BY DEF Goto, AboutToStore, RequestsOK, Requests
<1>2. r \in S /\ S' = S \ {r}
  BY DEF Goto, AboutToStore, RequestsOK, Requests
<1>3. Cardinality(S') = Cardinality(S) - 1 /\ Cardinality(S') \in Nat
  <2>1. IsFiniteSet(S)
    BY Finite
  <2> QED
    BY <1>2, <2>1, FS_RemoveElement, FS_CardinalityType
<1>4. ASSUME NEW L, NEW M, IsFiniteSet(L), M \subseteq L \cup {req[r].ticker}
      PROVE  Cardinality(M) <= Cardinality(L) + 1 /\ Cardinality(M) \in Nat
  <2>1. /\ IsFiniteSet(L \cup {req[r].ticker})
        /\ Cardinality(L \cup {req[r].ticker}) <= Cardinality(L) + 1
    <3> DEFINE x == req[r].ticker
    <3>1. Cardinality(L) \in Nat
      BY <1>4, FS_CardinalityType
    <3>2. /\ IsFiniteSet(L \cup {x})
          /\ Cardinality(L \cup {x}) = IF x \in L THEN Cardinality(L) ELSE Cardinality(L) + 1
      BY <1>4, FS_AddElement
    <3> QED
      BY <3>1, <3>2
  <2>2. Cardinality(M) <= Cardinality(L \cup {req[r].ticker}) /\ IsFiniteSet(M)
    BY <1>4, <2>1, FS_Subset
  <2> QED
    BY <1>4, <2>1, <2>2, FS_CardinalityType
<1>5. /\ Cardinality(held') <= Cardinality(held) + 1 /\ Cardinality(held') \in Nat
      /\ Cardinality(watched') <= Cardinality(watched) + 1 /\ Cardinality(watched') \in Nat
  BY <1>4, Finite
<1> HIDE DEF S
<1>6. CASE op = "add"
  BY <1>1, <1>3, <1>5, <1>6, Finite, LimitAssumption DEF RoomLeft, S
<1>7. CASE op = "watch"
  BY <1>1, <1>3, <1>5, <1>7, Finite, LimitAssumption DEF RoomLeft, S
<1> QED
  BY <1>6, <1>7

\* A step of a request keeps the room that is left in both lists.
LEMMA StepRoom ==
  ASSUME RequestsOK, StateOK, RoomLeft, NEW r \in Reqs, Step(r), RequestsOK', StateOK'
  PROVE  RoomLeft'
<1>1. CASE AddCount(r) /\ Cardinality(held) < MaxHoldings
  <2>1. Goto(r, "store") /\ req[r].op = "add"
    BY <1>1, Finite, LimitAssumption DEF AddCount, At
  <2> QED
    BY <1>1, <2>1, CountPassed DEF AddCount, redis
<1>2. CASE WatchCount(r) /\ Cardinality(watched) < MaxWatchlist
  <2>1. Goto(r, "store") /\ req[r].op = "watch"
    BY <1>2, Finite, LimitAssumption DEF WatchCount, At
  <2> QED
    BY <1>2, <2>1, CountPassed DEF WatchCount, redis
<1>3. CASE AddStore(r)
  BY <1>3, Stored DEF AddStore, At
<1>4. CASE WatchStore(r)
  BY <1>4, Stored DEF WatchStore, At
<1>5. ASSUME ~(AddCount(r) /\ Cardinality(held) < MaxHoldings),
             ~(WatchCount(r) /\ Cardinality(watched) < MaxWatchlist),
             ~AddStore(r), ~WatchStore(r)
      PROVE  RoomLeft'
  <2>1. held' \subseteq held /\ watched' \subseteq watched
    BY <1>5
    DEF Step, AddStep, AddCount, AddLeaveWatchlist, RemoveStep, RemoveCheck, RemoveStore,
        UnwatchCheck, UnwatchStore, WatchStep, WatchCheck, WatchCount, TrackStep, TrackKnown,
        TrackUnknown, TrackFetched, Untrack, Forget, AlertStep, AlertCheckHeld,
        AlertCheckWatched, ListAlerts, CascadeDone, AlertCreate, DeleteAlert, redis
  <2>2. PICK q : q.pc # "store" /\ req' = [req EXCEPT ![r] = q]
    <3> SUFFICES req'[r].pc # "store" /\ req' = [req EXCEPT ![r] = req'[r]]
      OBVIOUS
    <3>1. CASE AddStep(r) \/ RemoveStep(r) \/ WatchStep(r)
      <4>1. AddCount(r) => Finish(r)
        BY <1>5, Finite, LimitAssumption DEF AddCount
      <4>2. WatchCount(r) => Finish(r)
        BY <1>5, Finite, LimitAssumption DEF WatchCount
      <4> QED
        BY <1>5, <3>1, <4>1, <4>2
        DEF AddStep, AddLeaveWatchlist, RemoveStep, RemoveCheck, RemoveStore, UnwatchCheck,
            UnwatchStore, WatchStep, WatchCheck, Goto, Finish, RequestsOK, Requests
    <3>2. CASE TrackStep(r)
      BY <3>2
      DEF TrackStep, TrackKnown, TrackUnknown, TrackFetched, AfterTrack, Untrack, Forget,
          Goto, Finish, RequestsOK, Requests
    <3>3. CASE AlertStep(r)
      BY <3>3
      DEF AlertStep, AlertCheckHeld, AlertCheckWatched, ListAlerts, CascadeDone, AlertCreate,
          DeleteAlert, Goto, Finish, RequestsOK, Requests
    <3> QED
      BY <3>1, <3>2, <3>3 DEF Step
  <2> QED
    BY <2>1, <2>2, NotToStore, Shrinking
<1> QED
  BY <1>1, <1>2, <1>3, <1>4, <1>5

\* So do arrivals, failures, the start-up and crashes.
LEMMA OtherRoom ==
  ASSUME RequestsOK, StateOK, RoomLeft, RequestsOK', StateOK',
         \/ Boot \/ Crash \/ UNCHANGED vars
         \/ \E r \in Reqs : Arrive(r) \/ Fail(r)
  PROVE  RoomLeft'
<1>1. held' = held /\ watched' = watched
  BY DEF Boot, BootStart, BootPhase, BootTrack, Crash, Arrive, Submit, SubmitDeleteAlert, Fail,
         vars, redis
<1>2. \A op : AboutToStore(op)' \subseteq AboutToStore(op)
  <2>1. CASE req' = req
    BY <2>1 DEF AboutToStore
  <2>2. CASE \E r \in Reqs : \E q : q.pc # "store" /\ req' = [req EXCEPT ![r] = q]
    BY <2>2, NotToStore
  <2>3. CASE Crash
    BY <2>3 DEF Crash, AboutToStore
  <2>4. Boot \/ UNCHANGED vars => req' = req
    BY DEF Boot, BootStart, BootPhase, BootTrack, vars
  <2>5. ASSUME NEW r \in Reqs, Arrive(r) \/ Fail(r)
        PROVE  \E q : q.pc # "store" /\ req' = [req EXCEPT ![r] = q]
    BY <2>5 DEF Arrive, Submit, SubmitDeleteAlert, Fail, Finish
  <2> QED
    BY <2>1, <2>2, <2>3, <2>4, <2>5
<1> QED
  BY <1>1, <1>2, Shrinking

\* However requests interleave, fail or are cut off by a crash, the lists overshoot
\* their limits by less than the number of requests in flight.
THEOREM LimitsHold == Spec => []ListsBounded
<1>1. Init => RoomLeft
  <2> SUFFICES ASSUME Init PROVE RoomLeft
    OBVIOUS
  <2>1. AboutToStore("add") = {} /\ AboutToStore("watch") = {}
    BY DEF Init, AboutToStore
  <2>2. Cardinality(Reqs) \in Nat
    BY ReqsAssumption, FS_CardinalityType
  <2>3. held = {} /\ watched = {}
    BY DEF Init
  <2> QED
    BY <2>1, <2>2, <2>3, FS_EmptySet, LimitAssumption DEF RoomLeft
<1>2. TypeOK /\ TypeOK' /\ RoomLeft /\ [Next]_vars => RoomLeft'
  <2> SUFFICES ASSUME TypeOK, TypeOK', RoomLeft, [Next]_vars PROVE RoomLeft'
    OBVIOUS
  <2>1. StateOK /\ RequestsOK /\ StateOK' /\ RequestsOK'
    BY TypeParts, PTL
  <2> QED
    BY <2>1, StepRoom, OtherRoom DEF Next
<1>3. TypeOK /\ RoomLeft => ListsBounded
  <2> SUFFICES ASSUME StateOK, RoomLeft PROVE ListsBounded
    BY TypeParts
  <2> QED
    BY Finite, LimitAssumption DEF RoomLeft, ListsBounded
<1> QED
  BY <1>1, <1>2, <1>3, TypeCorrect, PTL DEF Spec
-----------------------------------------------------------------------------
(* Start-up                                                                *)

\* No request runs before the server is up; meanwhile what is subscribed and what is
\* left to track add up to the lists loaded so far.
BootInv == /\ server # "up" => \A r \in Reqs : req[r] = Idle
           /\ server \in {"down", "up"} => bootTodo = {}
           /\ server = "down" => subscribed = {}
           /\ server = "holdings" => subscribed \cup bootTodo = held
           /\ server = "watchlist" => subscribed \cup bootTodo = held \cup watched

\* A request that takes a step is not idle, so the server is up and stays up.
LEMMA StepWhenUp ==
  ASSUME TypeOK, BootInv, NEW r \in Reqs, Step(r)
  PROVE  server = "up" /\ UNCHANGED boot
<1>1. UNCHANGED boot
  BY DEF Step, AddStep, AddCount, AddStore, AddLeaveWatchlist, RemoveStep, RemoveCheck,
         RemoveStore, UnwatchCheck, UnwatchStore, WatchStep, WatchCheck, WatchCount, WatchStore,
         TrackStep, TrackKnown, TrackUnknown, TrackFetched, Untrack, Forget, AlertStep,
         AlertCheckHeld, AlertCheckWatched, ListAlerts, CascadeDone, AlertCreate, DeleteAlert
<1>2. req[r].pc # "idle"
  BY DEF Step, AddStep, AddCount, AddStore, AddLeaveWatchlist, RemoveStep, RemoveCheck,
         RemoveStore, UnwatchCheck, UnwatchStore, WatchStep, WatchCheck, WatchCount, WatchStore,
         TrackStep, TrackKnown, TrackUnknown, TrackFetched, Untrack, Forget, AlertStep,
         AlertCheckHeld, AlertCheckWatched, ListAlerts, CascadeDone, AlertCreate, DeleteAlert, At
<1> QED
  BY <1>1, <1>2 DEF BootInv

\* What the start-up has done so far stays true along every step.
LEMMA BootInductive ==
  ASSUME TypeOK, BootInv, [Next]_vars
  PROVE  BootInv' /\ (server # "up" /\ server' = "up" => subscribed' = held' \cup watched')
<1>1. ASSUME NEW r \in Reqs, Step(r) PROVE server' = "up" /\ server = "up" /\ bootTodo' = {}
  BY <1>1, StepWhenUp DEF boot, BootInv
<1>2. ASSUME NEW r \in Reqs, Arrive(r) \/ Fail(r)
      PROVE  server' = "up" /\ server = "up" /\ bootTodo' = {}
  <2>1. server = "up"
    <3>1. CASE Arrive(r)
      BY <3>1 DEF Arrive, Submit, SubmitDeleteAlert
    <3>2. CASE Fail(r)
      <4>1. req[r].pc # "idle"
        BY <3>2 DEF Fail
      <4> QED
        BY <4>1 DEF BootInv
    <3> QED
      BY <1>2, <3>1, <3>2
  <2>2. UNCHANGED boot
    BY <1>2 DEF Arrive, Submit, SubmitDeleteAlert, Fail
  <2> QED
    BY <2>1, <2>2 DEF boot, BootInv
<1>3. CASE \E r \in Reqs : Arrive(r) \/ Step(r) \/ Fail(r)
  BY <1>1, <1>2, <1>3 DEF BootInv
<1>4. CASE BootStart
  BY <1>4 DEF BootStart, BootInv, redis, memory
<1>5. CASE BootPhase
  BY <1>5 DEF BootPhase, BootInv, redis, memory
<1>6. ASSUME NEW t \in Tickers, BootTrack(t)
      PROVE  BootInv' /\ (server # "up" /\ server' = "up" => subscribed' = held' \cup watched')
  BY <1>6 DEF BootTrack, BootInv, redis, TypeOK
<1>7. CASE Crash
  BY <1>7 DEF Crash, BootInv
<1>8. CASE UNCHANGED vars
  BY <1>8 DEF vars, redis, memory, boot, BootInv
<1> QED
  BY <1>3, <1>4, <1>5, <1>6, <1>7, <1>8 DEF Next, Boot

\* Whatever crashes and failures left behind in Redis, the server comes up with exactly
\* the tickers of the two lists subscribed.
THEOREM BootRepairsSubscriptions == Spec => BootRepairs
<1>1. Init => BootInv
  BY DEF Init, BootInv
<1>2. TypeOK /\ BootInv /\ [Next]_vars => BootInv'
  BY BootInductive
<1>3. TypeOK /\ BootInv /\ [Next]_vars
        => [server # "up" /\ server' = "up" => subscribed' = held' \cup watched']_vars
  BY BootInductive
<1> QED
  BY <1>1, <1>2, <1>3, TypeCorrect, PTL DEF Spec, BootRepairs

-----------------------------------------------------------------------------
(* The lists, the streams and the alerts of a ticker that nothing has come *)
(* upon: what is true of it at rest is false only where its one request    *)
(* stands at the labels in between.                                        *)

\* A request q is between buying t and taking it off the watchlist; before subscribing to
\* it; before unsubscribing; and between taking it off its list and deleting its alert a.
Migrating(q, t) == /\ q.op = "add" /\ q.ticker = t
                   /\ q.pc \in {"track", "fetch", "leaveWatchlist"}
Starting(q, t) == q.ticker = t /\ q.pc \in {"track", "fetch"}
Stopping(q, t) == q.ticker = t /\ q.pc = "untrack"
Removing(q, t, a) == /\ q.op \in {"remove", "unwatch"} /\ q.ticker = t
                     /\ \/ q.pc \in {"untrack", "forget", "listAlerts"}
                        \/ q.pc = "cascade" /\ a \in q.todo

\* What a request q has found out or done about its ticker still holds of the lists h and w.
StillTrue(q, h, w) ==
  /\ q.op = "add" /\ q.pc \in {"track", "fetch", "leaveWatchlist"} => q.ticker \in h
  /\ q.op = "watch" /\ q.pc \in {"track", "fetch"} => q.ticker \in w
  /\ q.op = "watch" /\ q.pc \in {"count", "store", "track", "fetch"} => q.ticker \notin h
  /\ q.op = "remove" /\ q.pc = "delete" => q.ticker \in h
  /\ q.op = "unwatch" /\ q.pc = "delete" => q.ticker \in w
  /\ q.op \in {"remove", "unwatch"} /\ q.pc \in {"untrack", "forget", "listAlerts", "cascade"} =>
       q.ticker \notin h \cup w
  /\ q.op = "setAlert" /\ q.pc = "create" => q.ticker \in h \cup w

TickerOK(t) ==
  /\ \A r, q \in Reqs : req[r].ticker = t /\ req[q].ticker = t => r = q
  /\ \A r \in Reqs : req[r].ticker = t => StillTrue(req[r], held, watched)
  /\ t \in held \cap watched => \E r \in Reqs : Migrating(req[r], t)
  /\ server = "up" /\ t \in held \cup watched =>
       t \in subscribed \/ \E r \in Reqs : Starting(req[r], t)
  /\ server = "up" /\ t \in subscribed =>
       t \in held \cup watched \/ \E r \in Reqs : Stopping(req[r], t)
  /\ \A a \in Alerts : alertOf[a] = t =>
       t \in held \cup watched \/ \E r \in Reqs : Removing(req[r], t, a)

CalmInv == \A t \in Tickers \ disturbed : TickerOK(t)

\* Nothing is amiss with a ticker at rest.
LEMMA RestIsOK ==
  ASSUME NEW t, AtRest(t)
  PROVE  TickerOK(t)
BY DEF AtRest, TickerOK, Busy

\* A step that is not about ticker t leaves it as it was.
LEMMA OthersFrame ==
  ASSUME NEW t, TickerOK(t), NEW r \in Reqs,
         \A q \in Reqs \ {r} : req'[q] = req[q],
         req[r].ticker # t, req'[r].ticker # t,
         t \in held' <=> t \in held, t \in watched' <=> t \in watched,
         t \in subscribed' <=> t \in subscribed, server' = server,
         \A a \in Alerts : alertOf'[a] = t => alertOf[a] = t
  PROVE  TickerOK(t)'
<1>1. \A q \in Reqs : req'[q].ticker = t \/ req[q].ticker = t => q # r /\ req'[q] = req[q]
  OBVIOUS
<1>2. \A p, q \in Reqs : req'[p].ticker = t /\ req'[q].ticker = t => p = q
  BY <1>1 DEF TickerOK
<1>3. \A q \in Reqs : req'[q].ticker = t => StillTrue(req'[q], held', watched')
  BY <1>1 DEF TickerOK, StillTrue
<1>4. t \in held' \cap watched' => \E q \in Reqs : Migrating(req'[q], t)
  BY <1>1 DEF TickerOK, Migrating
<1>5. server' = "up" /\ t \in held' \cup watched' =>
        t \in subscribed' \/ \E q \in Reqs : Starting(req'[q], t)
  BY <1>1 DEF TickerOK, Starting
<1>6. server' = "up" /\ t \in subscribed' =>
        t \in held' \cup watched' \/ \E q \in Reqs : Stopping(req'[q], t)
  BY <1>1 DEF TickerOK, Stopping
<1>7. \A a \in Alerts : alertOf'[a] = t =>
        t \in held' \cup watched' \/ \E q \in Reqs : Removing(req'[q], t, a)
  BY <1>1 DEF TickerOK, Removing
<1> QED
  BY <1>2, <1>3, <1>4, <1>5, <1>6, <1>7 DEF TickerOK

\* Of its own ticker a request that is alone on it knows all this without the others.
LEMMA Own ==
  ASSUME NEW r \in Reqs, NEW t, req[r].ticker = t, TickerOK(t), server = "up"
  PROVE  /\ StillTrue(req[r], held, watched)
         /\ t \in held \cap watched => Migrating(req[r], t)
         /\ t \in held \cup watched => t \in subscribed \/ Starting(req[r], t)
         /\ t \in subscribed => t \in held \cup watched \/ Stopping(req[r], t)
         /\ \A a \in Alerts : alertOf[a] = t =>
              t \in held \cup watched \/ Removing(req[r], t, a)
<1>1. \A q \in Reqs : req[q].ticker = t => q = r
  BY DEF TickerOK
<1> QED
  BY <1>1 DEF TickerOK, Migrating, Starting, Stopping, Removing

\* And after its step, if it is still about the ticker or nothing is left to do.
LEMMA OwnFrame ==
  ASSUME NEW t, TickerOK(t), NEW r \in Reqs, req[r].ticker = t,
         \A q \in Reqs \ {r} : req'[q] = req[q],
         StillTrue(req'[r], held', watched'),
         t \in held' \cap watched' => Migrating(req'[r], t),
         t \in held' \cup watched' => t \in subscribed' \/ Starting(req'[r], t),
         t \in subscribed' => t \in held' \cup watched' \/ Stopping(req'[r], t),
         \A a \in Alerts : alertOf'[a] = t =>
           t \in held' \cup watched' \/ Removing(req'[r], t, a)
  PROVE  TickerOK(t)'
<1>1. \A q \in Reqs : req'[q].ticker = t => q = r
  BY DEF TickerOK
<1> QED
  BY <1>1 DEF TickerOK

\* The records of the other requests are left alone, and this one keeps its ticker or ends.
LEMMA StepOne ==
  ASSUME TypeOK, NEW r \in Reqs, Step(r)
  PROVE  /\ \A q \in Reqs \ {r} : req'[q] = req[q]
         /\ req'[r].ticker \in {req[r].ticker, None}
<1>1. CASE AddStep(r) \/ RemoveStep(r) \/ WatchStep(r)
  BY <1>1
  DEF TypeOK, Requests, AddStep, AddCount, AddStore, AddLeaveWatchlist, RemoveStep, RemoveCheck,
      RemoveStore, UnwatchCheck, UnwatchStore, WatchStep, WatchCheck, WatchCount, WatchStore,
      Goto, Finish
<1>2. CASE TrackStep(r)
  BY <1>2
  DEF TypeOK, Requests, TrackStep, TrackKnown, TrackUnknown, TrackFetched, AfterTrack, Untrack,
      Forget, Goto, Finish
<1>3. CASE AlertStep(r)
  BY <1>3
  DEF TypeOK, Requests, AlertStep, AlertCheckHeld, AlertCheckWatched, ListAlerts, CascadeDone,
      AlertCreate, DeleteAlert, Goto, Finish
<1> QED
  BY <1>1, <1>2, <1>3 DEF Step

\* Lists and streams change for the request's own ticker only, and an alert is only ever
\* put on that ticker.
LEMMA StepLocal ==
  ASSUME TypeOK, NEW r \in Reqs, Step(r), NEW t, t # req[r].ticker, t # None
  PROVE  /\ t \in held' <=> t \in held
         /\ t \in watched' <=> t \in watched
         /\ t \in subscribed' <=> t \in subscribed
         /\ \A a \in Alerts : alertOf'[a] = t => alertOf[a] = t
<1>1. CASE AddStep(r) \/ RemoveStep(r) \/ WatchStep(r)
  BY <1>1
  DEF AddStep, AddCount, AddStore, AddLeaveWatchlist, RemoveStep, RemoveCheck,
      RemoveStore, UnwatchCheck, UnwatchStore, WatchStep, WatchCheck, WatchCount, WatchStore,
      redis, memory
<1>2. CASE TrackStep(r)
  BY <1>2
  DEF TrackStep, TrackKnown, TrackUnknown, TrackFetched, Untrack, Forget, redis, memory
<1>3. CASE AlertCheckHeld(r) \/ AlertCheckWatched(r) \/ ListAlerts(r) \/ CascadeDone(r)
  BY <1>3 DEF AlertCheckHeld, AlertCheckWatched, ListAlerts, CascadeDone, redis, memory
<1>4. ASSUME NEW a \in Alerts, AlertCreate(r, a) \/ DeleteAlert(r, a)
      PROVE  /\ UNCHANGED <<held, watched, subscribed>>
             /\ \A b \in Alerts : alertOf'[b] = t => alertOf[b] = t
  BY <1>4 DEF AlertCreate, DeleteAlert, memory, TypeOK
<1> QED
  BY <1>1, <1>2, <1>3, <1>4 DEF Step, AlertStep

\* So a step leaves every other ticker as it was.
LEMMA StepOthers ==
  ASSUME TypeOK, BootInv, NEW r \in Reqs, Step(r),
         NEW t \in Tickers, t # req[r].ticker, TickerOK(t)
  PROVE  TickerOK(t)'
<1>1. t # None
  BY TickersAssumption
<1>2. server' = server
  BY StepWhenUp DEF boot
<1>3. /\ \A q \in Reqs \ {r} : req'[q] = req[q]
      /\ req'[r].ticker # t
  BY <1>1, StepOne
<1>4. /\ t \in held' <=> t \in held
      /\ t \in watched' <=> t \in watched
      /\ t \in subscribed' <=> t \in subscribed
      /\ \A a \in Alerts : alertOf'[a] = t => alertOf[a] = t
  BY <1>1, StepLocal
<1> QED
  BY <1>2, <1>3, <1>4, OthersFrame

\* And it keeps what is true of its own.
LEMMA StepOwn ==
  ASSUME TypeOK, BootInv, NEW r \in Reqs, Step(r),
         NEW t \in Tickers, req[r].ticker = t, TickerOK(t)
  PROVE  TickerOK(t)'
<1> DEFINE q == req'[r]
<1>0. t # None
  BY TickersAssumption
<1>1. server = "up"
  BY StepWhenUp
<1>2. \A p \in Reqs \ {r} : req'[p] = req[p]
  BY StepOne
<1>3. /\ req[r] \in Requests /\ req[r].pc \in LabelsOf(req[r].op) /\ req[r].op \in TickerOps
      /\ alertOf \in [Alerts -> Tickers \cup {None}]
  BY <1>0 DEF TypeOK
<1>4. /\ StillTrue(req[r], held, watched)
      /\ t \in held \cap watched => Migrating(req[r], t)
      /\ t \in held \cup watched => t \in subscribed \/ Starting(req[r], t)
      /\ t \in subscribed => t \in held \cup watched \/ Stopping(req[r], t)
      /\ \A a \in Alerts : alertOf[a] = t =>
           t \in held \cup watched \/ Removing(req[r], t, a)
  BY <1>1, Own
<1>5. /\ \A l : Goto(r, l) => /\ q.pc = l /\ q.ticker = t /\ q.op = req[r].op
                              /\ q.todo = req[r].todo
      /\ Finish(r) => q.pc = "idle" /\ q.op = "none"
  BY DEF Goto, Finish, TypeOK, Requests
<1> HIDE DEF q
<1>6. ASSUME /\ StillTrue(q, held', watched')
             /\ t \in held' \cap watched' => Migrating(q, t)
             /\ t \in held' \cup watched' => t \in subscribed' \/ Starting(q, t)
             /\ t \in subscribed' => t \in held' \cup watched' \/ Stopping(q, t)
             /\ \A a \in Alerts : alertOf'[a] = t =>
                  t \in held' \cup watched' \/ Removing(q, t, a)
      PROVE  TickerOK(t)'
  BY <1>2, <1>6, OwnFrame DEF q
<1>7. CASE \/ AddCount(r) \/ RemoveCheck(r) \/ UnwatchCheck(r) \/ WatchCheck(r) \/ WatchCount(r)
           \/ AlertCheckHeld(r) \/ AlertCheckWatched(r) \/ TrackUnknown(r)
  <2>1. UNCHANGED <<held, watched, subscribed, alertOf>>
    BY <1>7 DEF AddCount, RemoveCheck, UnwatchCheck, WatchCheck, WatchCount, AlertCheckHeld,
                AlertCheckWatched, TrackUnknown, redis, memory
  <2>2. StillTrue(q, held, watched)
    BY <1>4, <1>5, <1>7
    DEF AddCount, RemoveCheck, UnwatchCheck, WatchCheck, WatchCount, AlertCheckHeld,
        AlertCheckWatched, TrackUnknown, At, StillTrue
  <2>3. Migrating(req[r], t) => Migrating(q, t)
    BY <1>5, <1>7
    DEF AddCount, RemoveCheck, UnwatchCheck, WatchCheck, WatchCount, AlertCheckHeld,
        AlertCheckWatched, TrackUnknown, At, Migrating
  <2>4. Starting(req[r], t) => Starting(q, t)
    BY <1>5, <1>7
    DEF AddCount, RemoveCheck, UnwatchCheck, WatchCheck, WatchCount, AlertCheckHeld,
        AlertCheckWatched, TrackUnknown, At, Starting
  <2>5. ~Stopping(req[r], t) /\ \A a \in Alerts : ~Removing(req[r], t, a)
    BY <1>7
    DEF AddCount, RemoveCheck, UnwatchCheck, WatchCheck, WatchCount, AlertCheckHeld,
        AlertCheckWatched, TrackUnknown, At, Stopping, Removing
  <2> QED
    BY <1>4, <1>6, <2>1, <2>2, <2>3, <2>4, <2>5
<1>8. CASE AddStore(r)
  <2>1. /\ held' = held \cup {t} /\ UNCHANGED <<watched, subscribed, alertOf>>
        /\ q.pc = "track" /\ q.ticker = t /\ q.op = "add"
    BY <1>5, <1>8 DEF AddStore, At, memory
  <2>2. StillTrue(q, held', watched') /\ Migrating(q, t) /\ Starting(q, t)
    BY <2>1 DEF StillTrue, Migrating, Starting
  <2> QED
    BY <1>6, <2>1, <2>2
<1>9. CASE WatchStore(r)
  <2>1. /\ watched' = watched \cup {t} /\ UNCHANGED <<held, subscribed, alertOf>>
        /\ q.pc = "track" /\ q.ticker = t /\ q.op = "watch"
    BY <1>5, <1>9 DEF WatchStore, At, memory
  <2>2. t \notin held
    BY <1>4, <1>9 DEF WatchStore, At, StillTrue
  <2>3. StillTrue(q, held', watched') /\ Starting(q, t)
    BY <2>1, <2>2 DEF StillTrue, Starting
  <2> QED
    BY <1>6, <2>1, <2>2, <2>3
<1>10. CASE AddLeaveWatchlist(r)
  <2>1. /\ watched' = watched \ {t} /\ UNCHANGED <<held, subscribed, alertOf>>
        /\ q.pc = "idle" /\ q.op = "none"
        /\ req[r].op = "add" /\ req[r].pc = "leaveWatchlist"
    BY <1>5, <1>10 DEF AddLeaveWatchlist, At, memory
  <2>2. t \in held
    BY <1>4, <2>1 DEF StillTrue
  <2>3. StillTrue(q, held', watched') /\ t \in subscribed
    BY <1>4, <2>1, <2>2 DEF StillTrue, Starting
  <2> QED
    BY <1>6, <2>1, <2>2, <2>3
<1>11. CASE RemoveStore(r) \/ UnwatchStore(r)
  <2>1. /\ UNCHANGED <<subscribed, alertOf>>
        /\ q.pc = "untrack" /\ q.ticker = t /\ q.op = req[r].op
        /\ req[r].pc = "delete" /\ req[r].op \in {"remove", "unwatch"}
    BY <1>5, <1>11 DEF RemoveStore, UnwatchStore, At, memory
  <2>2. t \notin held \cap watched
    BY <1>4, <2>1 DEF Migrating
  <2>3. t \notin held' /\ t \notin watched'
    BY <1>4, <1>11, <2>1, <2>2 DEF RemoveStore, UnwatchStore, At, StillTrue
  <2>4. /\ StillTrue(q, held', watched') /\ Stopping(q, t)
        /\ \A a \in Alerts : Removing(q, t, a)
    BY <2>1, <2>3 DEF StillTrue, Stopping, Removing
  <2> QED
    BY <1>6, <2>3, <2>4
<1>12. CASE TrackKnown(r) \/ TrackFetched(r)
  <2>1. /\ UNCHANGED <<held, watched, alertOf>> /\ subscribed' = subscribed \cup {t}
        /\ req[r].op \in {"add", "watch"}
    BY <1>3, <1>12 DEF TrackKnown, TrackFetched, redis, LabelsOf, CleanupLabels
  <2>2. \/ req[r].op = "add" /\ q.pc = "leaveWatchlist" /\ q.ticker = t /\ q.op = "add"
        \/ req[r].op = "watch" /\ q.pc = "idle" /\ q.op = "none"
    BY <1>5, <1>12, <2>1 DEF TrackKnown, TrackFetched, AfterTrack
  <2>3. t \in (IF req[r].op = "add" THEN held ELSE watched)
    BY <1>4, <1>12, <2>1 DEF TrackKnown, TrackFetched, StillTrue
  <2>4. StillTrue(q, held', watched')
    BY <2>1, <2>2, <2>3 DEF StillTrue
  <2>5. t \in held' \cap watched' => Migrating(q, t)
    BY <1>4, <2>1, <2>2 DEF Migrating
  <2>6. t \in held' \cup watched' /\ t \in subscribed'
    BY <2>1, <2>3
  <2> QED
    BY <1>6, <2>4, <2>5, <2>6
<1>13. CASE Untrack(r) \/ Forget(r)
  <2>1. /\ UNCHANGED <<held, watched, alertOf>> /\ subscribed' \subseteq subscribed
        /\ req[r].op \in {"remove", "unwatch"} /\ req[r].pc \in {"untrack", "forget"}
    BY <1>3, <1>13 DEF Untrack, Forget, redis, LabelsOf, CleanupLabels
  <2>2. t \notin held \cup watched
    BY <1>4, <2>1 DEF StillTrue
  <2>3. q.pc \in {"forget", "listAlerts"} /\ q.ticker = t /\ q.op = req[r].op
    BY <1>5, <1>13 DEF Untrack, Forget
  <2>4. StillTrue(q, held', watched') /\ \A a \in Alerts : Removing(q, t, a)
    BY <2>1, <2>2, <2>3 DEF StillTrue, Removing
  <2>5. t \notin subscribed'
    BY <1>4, <1>13, <2>2 DEF Untrack, Forget, Stopping
  <2> QED
    BY <1>6, <2>1, <2>2, <2>4, <2>5
<1>14. CASE ListAlerts(r)
  <2>1. /\ UNCHANGED <<held, watched, subscribed, alertOf>>
        /\ req[r].op \in {"remove", "unwatch"} /\ req[r].pc = "listAlerts"
    BY <1>3, <1>14 DEF ListAlerts, redis, memory, LabelsOf, CleanupLabels
  <2>2. t \notin held \cup watched /\ t \notin subscribed
    BY <1>4, <2>1 DEF StillTrue, Stopping
  <2>3. /\ q.pc = "cascade" /\ q.ticker = t /\ q.op = req[r].op
        /\ q.todo = {a \in Alerts : alertOf[a] = t}
    BY <1>14 DEF ListAlerts, TypeOK, Requests, q
  <2>4. StillTrue(q, held', watched') /\ \A a \in Alerts : alertOf[a] = t => Removing(q, t, a)
    BY <2>1, <2>2, <2>3 DEF StillTrue, Removing
  <2> QED
    BY <1>6, <2>1, <2>2, <2>4
<1>15. ASSUME NEW a \in Alerts, DeleteAlert(r, a) PROVE TickerOK(t)'
  <2>1. /\ UNCHANGED <<held, watched, subscribed>> /\ alertOf' = [alertOf EXCEPT ![a] = None]
        /\ req[r].pc = "cascade"
    BY <1>15 DEF DeleteAlert, memory
  <2>2. q.pc = "cascade" /\ q.ticker = t /\ q.op = req[r].op /\ q.todo = req[r].todo \ {a}
    BY <1>15, <2>1 DEF DeleteAlert, TypeOK, Requests, q
  <2>3. StillTrue(q, held', watched')
    BY <1>4, <2>1, <2>2 DEF StillTrue
  <2>4. \A b \in Alerts : b # a => (Removing(req[r], t, b) => Removing(q, t, b))
    BY <2>1, <2>2 DEF Removing
  <2>5. /\ alertOf'[a] # t /\ \A b \in Alerts \ {a} : alertOf'[b] = alertOf[b]
    BY <1>0, <1>3, <2>1
  <2>6. ~Migrating(req[r], t) /\ ~Starting(req[r], t) /\ ~Stopping(req[r], t)
    BY <2>1 DEF Migrating, Starting, Stopping
  <2> QED
    BY <1>4, <1>6, <2>1, <2>3, <2>4, <2>5, <2>6
<1>16. ASSUME NEW a \in Alerts, AlertCreate(r, a) PROVE TickerOK(t)'
  <2>1. /\ UNCHANGED <<held, watched, subscribed>>
        /\ req[r].op = "setAlert" /\ req[r].pc = "create"
        /\ q.pc = "idle" /\ q.op = "none"
    BY <1>5, <1>16 DEF AlertCreate, At, memory
  <2>2. t \in held \cup watched
    BY <1>4, <2>1 DEF StillTrue
  <2>3. StillTrue(q, held', watched')
    BY <2>1 DEF StillTrue
  <2>4. ~Migrating(req[r], t) /\ ~Starting(req[r], t)
    BY <2>1 DEF Migrating, Starting
  <2> QED
    BY <1>4, <1>6, <2>1, <2>2, <2>3, <2>4
<1>17. CASE CascadeDone(r)
  <2>1. /\ UNCHANGED <<held, watched, subscribed, alertOf>>
        /\ req[r].pc = "cascade" /\ req[r].todo = {} /\ q.pc = "idle" /\ q.op = "none"
    BY <1>5, <1>17 DEF CascadeDone, redis, memory
  <2>2. StillTrue(q, held', watched')
    BY <2>1 DEF StillTrue
  <2>3. /\ ~Migrating(req[r], t) /\ ~Starting(req[r], t) /\ ~Stopping(req[r], t)
        /\ \A a \in Alerts : ~Removing(req[r], t, a)
    BY <2>1 DEF Migrating, Starting, Stopping, Removing
  <2> QED
    BY <1>4, <1>6, <2>1, <2>2, <2>3
<1> QED
  BY <1>7, <1>8, <1>9, <1>10, <1>11, <1>12, <1>13, <1>14, <1>15, <1>16, <1>17
  DEF Step, AddStep, RemoveStep, WatchStep, TrackStep, AlertStep

\* A request that arrives on a ticker no other is on finds all true of it; of any other
\* ticker it changes nothing.
LEMMA ArriveOK ==
  ASSUME TypeOK, NEW r \in Reqs, Arrive(r), NEW t \in Tickers, t \notin disturbed', TickerOK(t)
  PROVE  TickerOK(t)'
<1>1. /\ UNCHANGED <<held, watched, subscribed, alertOf, server>>
      /\ req[r].pc = "idle" /\ \A q \in Reqs \ {r} : req'[q] = req[q]
  BY DEF Arrive, Submit, SubmitDeleteAlert, redis, memory, boot, TypeOK
<1>2. req[r].ticker = None
  BY <1>1 DEF TypeOK, LabelsOf, CleanupLabels
<1>3. CASE req'[r].ticker # t
  BY <1>1, <1>2, <1>3, TickersAssumption, OthersFrame
<1>4. CASE req'[r].ticker = t
  <2>1. PICK op \in TickerOps : Submit(r, op, t)
    <3>1. \A u \in Tickers, op \in TickerOps : Submit(r, op, u) => u = t
      BY <1>4 DEF Submit, TypeOK
    <3>2. \A a \in Alerts : ~SubmitDeleteAlert(r, a)
      BY <1>4, TickersAssumption DEF SubmitDeleteAlert, TypeOK
    <3> QED
      BY <3>1, <3>2 DEF Arrive
  <2>2. req'[r].pc \in {"count", "check"} /\ (req'[r].op = "watch" => req'[r].pc = "check")
    BY <2>1 DEF Submit, TypeOK
  <2>3. ~Busy(t)
    <3>1. SUFFICES ASSUME Busy(t) PROVE FALSE
      OBVIOUS
    <3>2. Disturb({t})
      BY <2>1, <3>1 DEF Submit
    <3>3. Busy(t)'
      BY <1>4 DEF Busy
    <3> QED
      BY <3>2, <3>3 DEF Disturb, AtRest
  <2>4. StillTrue(req'[r], held, watched)
    BY <2>2 DEF StillTrue
  <2>5. \A q \in Reqs : req'[q].ticker = t => q = r
    BY <1>1, <2>3 DEF Busy
  <2>6. \A q \in Reqs : /\ ~Migrating(req[q], t) /\ ~Starting(req[q], t) /\ ~Stopping(req[q], t)
                        /\ \A a \in Alerts : ~Removing(req[q], t, a)
    BY <2>3 DEF Busy, Migrating, Starting, Stopping, Removing
  <2> QED
    BY <1>1, <2>4, <2>5, <2>6 DEF TickerOK
<1> QED
  BY <1>3, <1>4

\* A failure comes upon the ticker of its request and touches no other.
LEMMA FailOK ==
  ASSUME TypeOK, NEW r \in Reqs, Fail(r), NEW t \in Tickers, t \notin disturbed', TickerOK(t)
  PROVE  TickerOK(t)'
<1>1. /\ UNCHANGED <<held, watched, subscribed, alertOf, server>>
      /\ req'[r].ticker = None /\ \A q \in Reqs \ {r} : req'[q] = req[q]
  BY DEF Fail, Finish, redis, memory, boot, TypeOK
<1>2. CASE req[r].ticker # t
  BY <1>1, <1>2, TickersAssumption, OthersFrame
<1>3. CASE req[r].ticker = t
  <2>1. AtRest(t)'
    BY <1>3, TickersAssumption DEF Fail, Disturb
  <2> QED
    BY <2>1, RestIsOK, PTL
<1> QED
  BY <1>2, <1>3

\* The start-up and crashes leave a ticker as it was, but for its stream.
LEMMA ServerOK ==
  ASSUME TypeOK, BootInv, BootInv', Boot \/ Crash,
         NEW t \in Tickers, t \notin disturbed', TickerOK(t)
  PROVE  TickerOK(t)'
<1>1. CASE Boot
  <2>1. UNCHANGED <<held, watched, alertOf, req>>
    BY <1>1 DEF Boot, BootStart, BootPhase, BootTrack, redis
  <2>2. server' = "up" => subscribed' = held \cup watched
    BY <1>1 DEF Boot, BootStart, BootPhase, BootTrack, BootInv, memory
  <2> QED
    BY <2>1, <2>2 DEF TickerOK
<1>2. CASE Crash /\ ~Busy(t)
  <2>1. /\ UNCHANGED <<held, watched, alertOf>> /\ server' = "down"
        /\ \A r \in Reqs : req'[r].ticker # t
    BY <1>2, TickersAssumption DEF Crash, redis
  <2>2. \A q \in Reqs : ~Migrating(req[q], t) /\ \A a \in Alerts : ~Removing(req[q], t, a)
    BY <1>2 DEF Busy, Migrating, Removing
  <2> QED
    BY <2>1, <2>2 DEF TickerOK
<1>3. CASE Crash /\ Busy(t)
  <2>1. AtRest(t)'
    BY <1>3 DEF Crash, Disturb
  <2> QED
    BY <2>1, RestIsOK, PTL
<1> QED
  BY <1>1, <1>2, <1>3

\* What holds of the tickers that nothing has come upon stays true along every step.
LEMMA CalmInductive ==
  ASSUME TypeOK, BootInv, BootInv', CalmInv, [Next]_vars
  PROVE  CalmInv'
<1> SUFFICES ASSUME NEW t \in Tickers, t \notin disturbed' PROVE TickerOK(t)'
  BY DEF CalmInv
<1>1. CASE t \in disturbed
  <2>1. AtRest(t)'
    BY <1>1, HistoryKept, TypeParts
  <2> QED
    BY <2>1, RestIsOK, PTL
<1>2. CASE t \notin disturbed
  <2>0. TickerOK(t)
    BY <1>2 DEF CalmInv
  <2>1. CASE UNCHANGED vars
    BY <2>0, <2>1 DEF vars, redis, memory, boot, TickerOK
  <2>2. ASSUME NEW r \in Reqs, Step(r) PROVE TickerOK(t)'
    BY <2>0, <2>2, StepOwn, StepOthers
  <2>3. ASSUME NEW r \in Reqs, Arrive(r) \/ Fail(r) PROVE TickerOK(t)'
    BY <2>0, <2>3, ArriveOK, FailOK
  <2>4. CASE Boot \/ Crash
    BY <2>0, <2>4, ServerOK
  <2> QED
    BY <2>1, <2>2, <2>3, <2>4 DEF Next
<1> QED
  BY <1>1, <1>2

\* The invariants hold together.
LEMMA Calm == Spec => [](TypeOK /\ BootInv /\ CalmInv)
<1>1. Init => BootInv
  BY DEF Init, BootInv
<1>2. Init => CalmInv
  BY TickersAssumption DEF Init, CalmInv, TickerOK
<1>3. TypeOK /\ BootInv /\ [Next]_vars => BootInv'
  BY BootInductive
<1>4. TypeOK /\ BootInv /\ BootInv' /\ CalmInv /\ [Next]_vars => CalmInv'
  BY CalmInductive
<1> QED
  BY <1>1, <1>2, <1>3, <1>4, TypeCorrect, PTL DEF Spec

\* However requests on different tickers interleave, and whatever comes upon other tickers,
\* every subscription belongs to a listed ticker, to a request in flight, or to a ticker
\* that an overlap, a failure or a crash has come upon since it was last at rest.
THEOREM NoLeaks == Spec => []NoLeak
<1>1. TypeOK /\ BootInv /\ CalmInv => NoLeak
  <2> SUFFICES ASSUME TypeOK, BootInv, CalmInv, NEW t \in subscribed, t \notin disturbed
               PROVE  t \in held \cup watched \/ Busy(t)
    BY DEF NoLeak
  <2>1. CASE server = "up"
    BY <2>1 DEF TypeOK, CalmInv, TickerOK, Busy, Stopping
  <2>2. CASE server # "up"
    BY <2>2 DEF TypeOK, BootInv
  <2> QED
    BY <2>1, <2>2
<1> QED
  BY <1>1, Calm, PTL

\* A ticker is in both lists only while the add that bought it is about to take it off the
\* watchlist, or something has come upon it since it was last at rest.
THEOREM OneListHolds == Spec => []OneList
<1>1. TypeOK /\ CalmInv => OneList
  BY DEF TypeOK, CalmInv, TickerOK, OneList, Migrating
<1> QED
  BY <1>1, Calm, PTL

\* When no request is on it and nothing has come upon it since it was last at rest, a
\* ticker streams exactly when it is in one of the lists.
THEOREM StreamsHold == Spec => []StreamsExactly
<1>1. CalmInv => StreamsExactly
  BY DEF CalmInv, TickerOK, StreamsExactly, Busy, Starting, Stopping
<1> QED
  BY <1>1, Calm, PTL

\* No removal leaves an alert behind on a ticker that is in neither list, unless something
\* has come upon the ticker since it was last at rest.
THEOREM AlertsHold == Spec => []NoOrphanAlert
<1>1. TypeOK /\ CalmInv => NoOrphanAlert
  <2> SUFFICES ASSUME TypeOK, CalmInv, NEW a \in Alerts, alertOf[a] # None,
                      alertOf[a] \notin held \cup watched \cup disturbed
               PROVE  Busy(alertOf[a])
    BY DEF NoOrphanAlert
  <2>1. alertOf[a] \in Tickers \ disturbed
    BY DEF TypeOK
  <2> QED
    BY <2>1 DEF CalmInv, TickerOK, Busy, Removing
<1> QED
  BY <1>1, Calm, PTL

-----------------------------------------------------------------------------
(* The promise.  Each step of a handler changes at most one of the things  *)
(* the user sees, in the way TrackedSet allows, and what comes upon a      *)
(* ticker or is over makes its status unknown or known again.              *)

\* The status of tickers that stay in their lists drifts at most.
LEMMA StatusDrifts ==
  ASSUME NEW T, T \subseteq Tickers,
         \A t \in T : \/ t \in disturbed \/ t \in disturbed'
                      \/ /\ t \in held' <=> t \in held
                         /\ t \in held \/ (t \in watched' <=> t \in watched)
  PROVE  Promise!Drift(T)
<1>1. Status' \in [Tickers -> Promise!Statuses]
  BY DEF Status, Promise!Statuses
<1>2. ASSUME NEW t \in T PROVE Status'[t] = Status[t] \/ "unknown" \in {Status[t], Status'[t]}
  BY <1>2 DEF Status
<1> QED
  BY <1>1, <1>2 DEF Promise!Drift

\* A step that moves no ticker between the lists, or only ones that something comes upon,
\* and touches no alert is at most a disturbance.
LEMMA Unmoved ==
  ASSUME UNCHANGED alertOf,
         \A t \in Tickers : \/ t \in disturbed \/ t \in disturbed'
                            \/ /\ t \in held' <=> t \in held
                               /\ t \in held \/ (t \in watched' <=> t \in watched)
  PROVE  Promise!Next
<1>1. Promise!Drift(Tickers)
  BY StatusDrifts
<1> QED
  BY <1>1 DEF Promise!Next, Promise!Disturbance

\* Every step of a request is one of the promise's.
LEMMA StepPromised ==
  ASSUME TypeOK, BootInv, CalmInv, NEW r \in Reqs, Step(r)
  PROVE  Promise!Next
<1> DEFINE t == req[r].ticker
<1>0. server = "up" /\ (req[r].op \in TickerOps => t \in Tickers)
  BY StepWhenUp DEF TypeOK, Requests
<1>1. t \in Tickers /\ t \notin disturbed =>
        /\ StillTrue(req[r], held, watched)
        /\ t \in held \cap watched => Migrating(req[r], t)
  BY <1>0, Own DEF CalmInv
<1>2. \A u \in Tickers \ {t} : (u \in held' <=> u \in held) /\ (u \in watched' <=> u \in watched)
  BY StepLocal, TickersAssumption
<1> HIDE DEF t
<1>3. CASE UNCHANGED <<held, watched, alertOf>>
  BY <1>3, Unmoved
<1>4. CASE alertOf' = alertOf /\ (t \in disturbed \/ t \in disturbed')
  BY <1>2, <1>4, Unmoved
<1>5. ASSUME NEW s, t \in Tickers, alertOf' = alertOf, Status'[t] = s,
             \/ Status[t] \in {"watched", "none"} /\ s = "held"
             \/ Status[t] = "held" /\ s = "none"
             \/ Status[t] = "none" /\ s = "watched"
             \/ Status[t] = "watched" /\ s = "none"
      PROVE  Promise!Next
  <2>1. Promise!Drift(Tickers \ {t})
    BY <1>2, StatusDrifts
  <2>2. Promise!Buy(t) \/ Promise!Sell(t) \/ Promise!Watch(t) \/ Promise!Unwatch(t)
    BY <1>5, <2>1
    DEF Promise!Buy, Promise!Sell, Promise!Watch, Promise!Unwatch, Promise!Moves
  <2> QED
    BY <1>5, <2>2 DEF Promise!Next
<1>6. CASE AddStore(r) /\ t \notin disturbed /\ t \notin disturbed'
  <2>1. t \in Tickers /\ held' = held \cup {t} /\ UNCHANGED <<watched, alertOf>>
    BY <1>0, <1>6 DEF AddStore, At, t
  <2>2. CASE t \in held
    BY <1>3, <2>1, <2>2
  <2>3. CASE t \notin held
    <3>1. Status'[t] = "held" /\ Status[t] \in {"watched", "none"}
      BY <1>6, <2>1, <2>3 DEF Status
    <3> QED
      BY <1>5, <2>1, <3>1
  <2> QED
    BY <2>2, <2>3
<1>7. CASE WatchStore(r) /\ t \notin disturbed /\ t \notin disturbed'
  <2>1. t \in Tickers /\ watched' = watched \cup {t} /\ UNCHANGED <<held, alertOf>>
    BY <1>0, <1>7 DEF WatchStore, At, t
  <2>2. t \notin held
    BY <1>1, <1>7, <2>1 DEF WatchStore, At, StillTrue, t
  <2>3. CASE t \in watched
    BY <1>3, <2>1, <2>3
  <2>4. CASE t \notin watched
    <3>1. Status'[t] = "watched" /\ Status[t] = "none"
      BY <1>7, <2>1, <2>2, <2>4 DEF Status
    <3> QED
      BY <1>5, <2>1, <3>1
  <2> QED
    BY <2>3, <2>4
<1>8. CASE AddLeaveWatchlist(r) /\ t \notin disturbed /\ t \notin disturbed'
  <2>1. t \in Tickers /\ UNCHANGED <<held, alertOf>>
    BY <1>0, <1>8 DEF AddLeaveWatchlist, At, t
  <2>2. t \in held
    BY <1>1, <1>8, <2>1 DEF AddLeaveWatchlist, At, StillTrue, t
  <2> QED
    BY <1>2, <2>1, <2>2, Unmoved
<1>9. CASE (RemoveStore(r) \/ UnwatchStore(r)) /\ t \notin disturbed /\ t \notin disturbed'
  <2>1. t \in Tickers /\ UNCHANGED alertOf
    BY <1>0, <1>9 DEF RemoveStore, UnwatchStore, At, t
  <2>2. t \notin held \cap watched
    BY <1>1, <1>9, <2>1 DEF RemoveStore, UnwatchStore, At, Migrating
  <2>3. t \notin held' \cup watched'
    BY <1>1, <1>9, <2>1, <2>2 DEF RemoveStore, UnwatchStore, At, StillTrue, t
  <2>4. t \in held \cup watched
    BY <1>1, <1>9, <2>1 DEF RemoveStore, UnwatchStore, At, StillTrue, t
  <2>5. Status'[t] = "none" /\ Status[t] \in {"held", "watched"}
    BY <1>9, <2>1, <2>3, <2>4 DEF Status
  <2> QED
    BY <1>5, <2>1, <2>5
<1>10. ASSUME NEW a \in Alerts, AlertCreate(r, a) PROVE Promise!Next
  <2>1. /\ t \in Tickers /\ alertOf[a] = None
        /\ alertOf' = [alertOf EXCEPT ![a] = t] /\ UNCHANGED <<held, watched>>
    BY <1>0, <1>10 DEF AlertCreate, At, FreshAlerts, t
  <2>2. Status[t] # "none"
    BY <1>1, <1>10, <2>1 DEF AlertCreate, At, StillTrue, Status, t
  <2>3. Promise!Drift(Tickers)
    BY <2>1, StatusDrifts
  <2> QED
    BY <2>1, <2>2, <2>3 DEF Promise!Next, Promise!SetAlert
<1>11. ASSUME NEW a \in Alerts, DeleteAlert(r, a) PROVE Promise!Next
  <2>1. alertOf' = [alertOf EXCEPT ![a] = None] /\ UNCHANGED <<held, watched>>
    BY <1>11 DEF DeleteAlert
  <2>2. Promise!Drift(Tickers)
    BY <2>1, StatusDrifts
  <2>3. CASE alertOf[a] = None
    BY <1>3, <2>1, <2>3 DEF TypeOK
  <2>4. CASE alertOf[a] # None
    BY <2>1, <2>2, <2>4 DEF Promise!Next, Promise!DropAlert
  <2> QED
    BY <2>3, <2>4
<1>12. \/ UNCHANGED <<held, watched, alertOf>>
       \/ AddStore(r) \/ WatchStore(r) \/ AddLeaveWatchlist(r) \/ RemoveStore(r) \/ UnwatchStore(r)
       \/ \E a \in Alerts : AlertCreate(r, a) \/ DeleteAlert(r, a)
  BY DEF Step, AddStep, AddCount, RemoveStep, RemoveCheck, UnwatchCheck, WatchStep, WatchCheck,
         WatchCount, TrackStep, TrackKnown, TrackUnknown, TrackFetched, Untrack, Forget,
         AlertStep, AlertCheckHeld, AlertCheckWatched, ListAlerts, CascadeDone, redis
<1>13. AddStore(r) \/ WatchStore(r) \/ AddLeaveWatchlist(r) \/ RemoveStore(r) \/ UnwatchStore(r)
         => alertOf' = alertOf
  BY DEF AddStore, WatchStore, AddLeaveWatchlist, RemoveStore, UnwatchStore
<1> QED
  BY <1>3, <1>4, <1>6, <1>7, <1>8, <1>9, <1>10, <1>11, <1>12, <1>13

\* The handlers implement the promise: through all their interleavings, failures and crashes
\* a ticker that nothing has come upon since it was last at rest is owned, watched or
\* neither, is never moved from owned straight to watched, and gets no alert unless it is in
\* a list.
THEOREM KeepsPromise == Spec => ImplementsTrackedSet
<1>1. Init => Promise!Init
  BY DEF Init, Promise!Init, Status
<1>2. TypeOK /\ BootInv /\ CalmInv /\ [Next]_vars
        => [Promise!Next]_<<Status, alertOf>>
  <2> SUFFICES ASSUME TypeOK, BootInv, CalmInv, [Next]_vars
               PROVE  [Promise!Next]_<<Status, alertOf>>
    OBVIOUS
  <2>1. CASE \E r \in Reqs : Step(r)
    BY <2>1, StepPromised
  <2>2. CASE UNCHANGED <<held, watched, alertOf>>
    BY <2>2, Unmoved
  <2>3. \/ UNCHANGED <<held, watched, alertOf>> \/ \E r \in Reqs : Step(r)
    BY DEF Next, Boot, BootStart, BootPhase, BootTrack, Crash, Arrive, Submit, SubmitDeleteAlert,
           Fail, vars, redis
  <2> QED
    BY <2>1, <2>2, <2>3
<1> QED
  BY <1>1, <1>2, Calm, PTL DEF Spec, ImplementsTrackedSet, Promise!Spec, Promise!vars
=============================================================================
