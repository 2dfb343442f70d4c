----------------------------- MODULE AlpacaStream -----------------------------
(***************************************************************************)
(* AlpacaClient: the stream thread that builds, publishes, runs and        *)
(* replaces StockDataStream objects, the event loop that subscribes and    *)
(* unsubscribes tickers, the worker threads its calls to the stream go     *)
(* through (asyncio.to_thread), and stop().                                *)
(*                                                                         *)
(* Of the SDK's stream the model keeps the set of tickers it has a handler *)
(* for and whether it runs; calls to a stream that has ended change        *)
(* nothing, and stop() ends any published one, its run() begun or not.     *)
(*                                                                         *)
(* The names are the stream's own, so that ReconnectProofs can extend      *)
(* WsHook beside this module.                                              *)
(***************************************************************************)
EXTENDS Naturals, FiniteSets

CONSTANTS
  Tickers,
  Calls,       \* worker threads for subscribe and unsubscribe calls
  MaxStreams   \* bound: streams built

ASSUME StreamAssumption == MaxStreams \in Nat \ {0}
ASSUME CallsAssumption == IsFiniteSet(Calls) /\ IsFiniteSet(Tickers)

VARIABLES
  subscribed, \* _subscribed
  stream,     \* _stream: number of the published stream, 0 for None
  thread,     \* where _run_stream_with_backoff is
  built,      \* number of the newest stream
  handlers,   \* tickers the newest stream has a handler for
  stopping,   \* _stop_event
  told,       \* has the newest stream been told to stop?
  stopper,    \* where stop() is
  target,     \* the stream stop() has read
  call,       \* calls handed to a worker thread
  doubtful    \* tickers (un)subscribed while the newest stream was not yet published, or
              \* while an earlier call about the same ticker was on its way

streamVars == <<subscribed, stream, thread, built, handlers, stopping, told, stopper, target,
                call, doubtful>>
loopVars == <<subscribed, call, doubtful>>
threadVars == <<stream, thread, built, handlers, told>>
stopVars == <<stopping, stopper, target>>

NoCall == [op |-> "none"]
CallRecords == [op : {"subscribe", "unsubscribe"}, ticker : Tickers, stream : 1..MaxStreams]
               \cup {NoCall}
Pending(t) == \E k \in Calls : call[k].op # "none" /\ call[k].ticker = t

StreamInit ==
  /\ subscribed = {} /\ stream = 0 /\ thread = "check" /\ built = 0 /\ handlers = {}
  /\ stopping = FALSE /\ told = FALSE /\ stopper = "idle" /\ target = 0
  /\ call = [k \in Calls |-> NoCall] /\ doubtful = {}

-----------------------------------------------------------------------------
(* The event loop                                                          *)

\* _subscribed first, then the published stream, if there is one, from a worker thread.
Request(k, op, t) ==
  /\ call[k].op = "none"
  /\ stopper = "idle"
  /\ call' = [call EXCEPT ![k] = IF stream = 0 THEN NoCall
                                 ELSE [op |-> op, ticker |-> t, stream |-> stream]]
  /\ doubtful' = IF thread = "publish" \/ Pending(t) THEN doubtful \cup {t} ELSE doubtful
  /\ UNCHANGED <<threadVars, stopVars>>

Subscribe(k, t) ==
  /\ t \notin subscribed
  /\ subscribed' = subscribed \cup {t}
  /\ Request(k, "subscribe", t)

Unsubscribe(k, t) ==
  /\ t \in subscribed
  /\ subscribed' = subscribed \ {t}
  /\ Request(k, "unsubscribe", t)

\* The worker thread reaches the stream it was given.
Deliver(k) ==
  /\ call[k].op # "none"
  /\ handlers' = IF call[k].stream # built \/ thread \notin {"run", "running"} THEN handlers
                 ELSE IF call[k].op = "subscribe" THEN handlers \cup {call[k].ticker}
                 ELSE handlers \ {call[k].ticker}
  /\ call' = [call EXCEPT ![k] = NoCall]
  /\ UNCHANGED <<subscribed, doubtful, stream, thread, built, told, stopVars>>

-----------------------------------------------------------------------------
(* The stream thread                                                       *)

Exit == /\ thread \in {"check", "ended"}
        /\ stopping
        /\ thread' = "exited"
        /\ UNCHANGED <<loopVars, stopVars, stream, built, handlers, told>>

\* The loop's condition; a fresh stream takes the tickers of a copy of _subscribed.
BuildEmpty ==
  /\ thread = "check" /\ ~stopping
  /\ built < MaxStreams
  /\ built' = built + 1
  /\ handlers' = {}
  /\ told' = FALSE /\ doubtful' = {}
  /\ thread' = "publish"
  /\ UNCHANGED <<subscribed, call, stream, stopVars>>

Build ==
  /\ thread = "check" /\ ~stopping
  /\ built < MaxStreams
  /\ built' = built + 1
  /\ handlers' = subscribed
  /\ told' = FALSE /\ doubtful' = {}
  /\ thread' = "publish"
  /\ UNCHANGED <<subscribed, call, stream, stopVars>>

PublishStream == /\ thread = "publish"
                 /\ stream' = built
                 /\ thread' = "run"
                 /\ UNCHANGED <<loopVars, stopVars, built, handlers, told>>

Run == /\ thread = "run"
       /\ thread' = "running"
       /\ UNCHANGED <<loopVars, stopVars, stream, built, handlers, told>>

\* run() returns because it was told to stop, or ends by itself.
RunEnds == /\ thread = "running"
           /\ thread' = "clear"
           /\ UNCHANGED <<loopVars, stopVars, stream, built, handlers, told>>

Clear == /\ thread = "clear"
         /\ stream' = 0
         /\ thread' = "ended"
         /\ UNCHANGED <<loopVars, stopVars, built, handlers, told>>

\* The backoff, which the stop event cuts short.
Retry == /\ thread = "ended" /\ ~stopping
         /\ thread' = "check"
         /\ UNCHANGED <<loopVars, stopVars, stream, built, handlers, told>>

-----------------------------------------------------------------------------
(* stop()                                                                  *)

StopSet == /\ stopper = "idle"
           /\ stopping' = TRUE
           /\ stopper' = "read"
           /\ UNCHANGED <<loopVars, threadVars, target>>

StopRead == /\ stopper = "read"
            /\ target' = stream
            /\ stopper' = IF stream = 0 THEN "done" ELSE "tell"
            /\ UNCHANGED <<loopVars, threadVars, stopping>>

StopTellNobody == /\ stopper = "tell"
                  /\ stopper' = "done"
                  /\ UNCHANGED <<loopVars, threadVars, stopping, target>>

\* stream.stop() reaches the stream that was read, if it has not ended.
StopTell == /\ stopper = "tell"
            /\ told' = (told \/ (target = built /\ thread \in {"run", "running"}))
            /\ stopper' = "done"
            /\ UNCHANGED <<loopVars, stopping, target, stream, thread, built, handlers>>

-----------------------------------------------------------------------------
ThreadStep == Exit \/ Build \/ PublishStream \/ Run \/ Clear \/ Retry
StopStep == StopRead \/ StopTell

StreamNext ==
  \/ \E k \in Calls, t \in Tickers : Subscribe(k, t) \/ Unsubscribe(k, t)
  \/ \E k \in Calls : Deliver(k)
  \/ ThreadStep \/ RunEnds \/ StopSet \/ StopStep

StreamSpec == StreamInit /\ [][StreamNext]_streamVars

\* The thread and stop() go on; a stream ends for sure only when it was told to stop.
FairStreamSpec ==
  /\ StreamSpec
  /\ WF_streamVars(ThreadStep) /\ WF_streamVars(told /\ RunEnds) /\ WF_streamVars(StopStep)

-----------------------------------------------------------------------------
(* Properties                                                              *)

\* Every variable keeps to its values, and a stream is published exactly while it is to
\* run, runs, or has just ended.
StreamTypeOK ==
  /\ subscribed \subseteq Tickers /\ handlers \subseteq Tickers
  /\ doubtful \subseteq Tickers
  /\ stream \in 0..built /\ built \in 0..MaxStreams /\ target \in 0..built
  /\ thread \in {"check", "publish", "run", "running", "clear", "ended", "exited"}
  /\ stopping \in BOOLEAN /\ told \in BOOLEAN
  /\ stopper \in {"idle", "read", "tell", "done"}
  /\ call \in [Calls -> CallRecords]
  /\ stream # 0 <=> thread \in {"run", "running", "clear"}

\* A running stream quotes exactly the subscribed tickers, through any number of
\* restarts, but for tickers with a call still on its way, tickers (un)subscribed between
\* the copy of _subscribed and the publication of the stream, and tickers with two calls
\* under way at once, which worker threads may carry out in either order.
InSync == thread = "running" =>
  \A t \in Tickers : ~Pending(t) /\ t \notin doubtful => (t \in handlers <=> t \in subscribed)

\* stop() that finds a published stream ends the thread, however often it has restarted.
StopEndsPublished == (stopper = "read" /\ stream # 0) ~> thread = "exited"
=============================================================================
