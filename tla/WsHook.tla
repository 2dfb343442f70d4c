------------------------------- MODULE WsHook -------------------------------
(***************************************************************************)
(* useWebSocket (frontend/lib/websocket.ts): one component's connection to *)
(* the backend, over renders that mount it, change its url and unmount it, *)
(* sockets that open and drop, and reconnect timers.  The browser runs the *)
(* handlers one at a time; React runs an effect's cleanup and its next     *)
(* set-up together; a socket told to close fires onclose later.            *)
(***************************************************************************)
EXTENDS Naturals, FiniteSets

CONSTANTS
  MaxSockets, \* bound: sockets the hook makes
  MaxUrls     \* bound: urls the component is rendered with (the token is part of it)

ASSUME HookAssumption == MaxSockets \in Nat \ {0} /\ MaxUrls \in Nat \ {0}

InitialDelay == 1 \* INITIAL_RECONNECT_DELAY_MS, in seconds
MaxDelay == 30    \* MAX_RECONNECT_DELAY_MS
Sockets == 1..MaxSockets
Urls == 1..MaxUrls

VARIABLES
  mounted,   \* is the component on the page?
  url,       \* the url it was last rendered with, 0 before the first render
  unmounted, \* unmountedRef
  sock,      \* state of each socket
  sockUrl,   \* the url each was made with
  made,      \* how many sockets there are
  wsRef,     \* wsRef, 0 for null
  timers,    \* pending timers, each named by the socket whose onclose set it
  timerRef,  \* reconnectTimeoutRef, 0 for null
  delay      \* reconnectDelayRef

vars == <<mounted, url, unmounted, sock, sockUrl, made, wsRef, timers, timerRef, delay>>

Live == {i \in Sockets : sock[i] \in {"connecting", "open"}}

Init == /\ mounted = FALSE /\ url = 0 /\ unmounted = FALSE
        /\ sock = [i \in Sockets |-> "none"] /\ sockUrl = [i \in Sockets |-> 0]
        /\ made = 0 /\ wsRef = 0
        /\ timers = {} /\ timerRef = 0 /\ delay = InitialDelay

\* connect(), in the closure of the effect for url u; table is what the sockets are like.
Connect(u, table) ==
  /\ made < MaxSockets
  /\ made' = made + 1
  /\ sock' = [table EXCEPT ![made + 1] = "connecting"]
  /\ sockUrl' = [sockUrl EXCEPT ![made + 1] = u]
  /\ wsRef' = made + 1

\* What the cleanup's wsRef.current?.close() makes of the sockets.
Closed == [i \in Sockets |-> IF i = wsRef /\ i \in Live THEN "closing" ELSE sock[i]]

Mount ==
  /\ url = 0
  /\ mounted' = TRUE
  /\ url' = 1
  /\ unmounted' = FALSE
  /\ Connect(1, sock)
  /\ UNCHANGED <<timers, timerRef, delay>>

\* A render with another url: the cleanup of the old effect, then the new effect.
ChangeUrl ==
  /\ mounted /\ url < MaxUrls
  /\ url' = url + 1
  /\ timers' = timers \ {timerRef}
  /\ unmounted' = FALSE
  /\ Connect(url + 1, Closed)
  /\ UNCHANGED <<mounted, timerRef, delay>>

UnmountKeepsTimer ==
  /\ mounted
  /\ mounted' = FALSE
  /\ unmounted' = TRUE
  /\ sock' = Closed
  /\ UNCHANGED <<url, timers, sockUrl, made, wsRef, timerRef, delay>>

\* The component leaves for good; its refs go with it.
Unmount ==
  /\ mounted
  /\ mounted' = FALSE
  /\ unmounted' = TRUE
  /\ timers' = timers \ {timerRef}
  /\ sock' = Closed
  /\ UNCHANGED <<url, sockUrl, made, wsRef, timerRef, delay>>

Opens(i) ==
  /\ sock[i] = "connecting"
  /\ sock' = [sock EXCEPT ![i] = "open"]
  /\ delay' = InitialDelay
  /\ UNCHANGED <<mounted, url, unmounted, sockUrl, made, wsRef, timers, timerRef>>

DropsNeverRetry(i) ==
  /\ sock[i] \in {"connecting", "open", "closing"}
  /\ sock' = [sock EXCEPT ![i] = "closed"]
  /\ UNCHANGED <<mounted, url, unmounted, sockUrl, made, wsRef, timers, timerRef, delay>>

\* onclose, after an error, a drop or a close(): a retry unless unmountedRef says no.
Drops(i) ==
  /\ sock[i] \in {"connecting", "open", "closing"}
  /\ sock' = [sock EXCEPT ![i] = "closed"]
  /\ IF unmounted THEN UNCHANGED <<timers, timerRef, delay>>
     ELSE /\ timers' = timers \cup {i}
          /\ timerRef' = i
          /\ delay' = IF 2 * delay < MaxDelay THEN 2 * delay ELSE MaxDelay
  /\ UNCHANGED <<mounted, url, unmounted, sockUrl, made, wsRef>>

\* A timer calls connect of the closure it was set in.
Fires(i) ==
  /\ i \in timers
  /\ timers' = timers \ {i}
  /\ Connect(sockUrl[i], sock)
  /\ UNCHANGED <<mounted, url, unmounted, timerRef, delay>>

Next == \/ Mount \/ ChangeUrl \/ Unmount
        \/ \E i \in Sockets : Opens(i) \/ Drops(i) \/ Fires(i)

\* Timers fire and a socket that is closing closes.
Spec == Init /\ [][Next]_vars
FairSpec == /\ Spec
            /\ \A i \in Sockets : WF_vars(Fires(i)) /\ WF_vars(sock[i] = "closing" /\ Drops(i))

-----------------------------------------------------------------------------
(* Properties                                                              *)

\* Every variable keeps to its values; the delay stays between its two limits.
TypeOK == /\ mounted \in BOOLEAN /\ unmounted \in BOOLEAN /\ url \in 0..MaxUrls
          /\ sock \in [Sockets -> {"none", "connecting", "open", "closing", "closed"}]
          /\ sockUrl \in [Sockets -> 0..MaxUrls]
          /\ made \in 0..MaxSockets /\ wsRef \in 0..made /\ timerRef \in 0..made
          /\ timers \subseteq 1..made
          /\ delay \in InitialDelay..MaxDelay
          /\ \A i \in Sockets : i > made <=> sock[i] = "none"

\* The sockets that are up or coming up, and those whose timer will make another.
Going == Live \cup timers

\* No url ever has two connections, or attempts at one; the url of a component that is
\* mounted always has one; and a component that is gone has ended the one of some url, so
\* that one which never changed its url leaves nothing.  An earlier url's may stay for good.
OnePerUrl ==
  /\ \A i, j \in Going : sockUrl[i] = sockUrl[j] => i = j
  /\ mounted => \E i \in Going : sockUrl[i] = url
  /\ ~mounted /\ url # 0 => \E u \in 1..url : \A i \in Going : sockUrl[i] # u

\* While the component is mounted a dropped connection is replaced.
Reconnects == (mounted /\ Live = {} /\ made < MaxSockets) ~> (Live # {} \/ ~mounted)
=============================================================================
