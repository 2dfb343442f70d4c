------------------------------- MODULE Device -------------------------------
(***************************************************************************)
(* What the tabs of one browser share: the token in localStorage           *)
(* (frontend/lib/auth.ts, app/login/page.tsx) and the push subscription of *)
(* the service worker (lib/push.ts, components/NotificationToggle.tsx,     *)
(* public/sw.js), with the server's record of subscriptions                *)
(* (backend/push_store.py, push_service.py).                               *)
(*                                                                         *)
(* Tokens and endpoints are numbered as they are issued, 0 being none.  An *)
(* endpoint lives while it is the browser's subscription.  What the toggle *)
(* of a tab calls in push.ts runs on when a link of the page unmounts the  *)
(* toggle: such a call is left behind, beside one of the toggle that is    *)
(* mounted next.  A step is what runs between two awaits.                  *)
(***************************************************************************)
EXTENDS Naturals, FiniteSets

CONSTANTS
  Tabs,
  MaxTokens,   \* bound: logins
  MaxEndpoints,\* bound: subscriptions made
  MaxPending   \* bound: reads, orders and calls on their way at once

ASSUME DeviceAssumption == {MaxTokens, MaxEndpoints, MaxPending} \subseteq Nat

VARIABLES
  issued, valid, \* server: tokens issued, and those not expired
  store,         \* server: the endpoints in push:subscriptions
  sending,       \* server: the endpoints notify_all has yet to send to
  token,         \* browser: localStorage
  permission,    \* browser: Notification.permission
  made,          \* browser: subscriptions made so far
  subscription,  \* browser: the present one
  tab,           \* each tab: its page, and what its toggle says
  call,          \* each tab: the call of its toggle, and the one left behind
  fetching,      \* each tab: the token a read or an order was sent with
  unheard,       \* the subscription, if its POST was not heard of or cut off, or its undo failed
  doubt          \* tabs whose label something else has overtaken since it was set

serverVars == <<issued, valid, store, sending>>
pushVars == <<permission, made, subscription>>
ghosts == <<unheard, doubt>>
vars == <<serverVars, token, pushVars, tab, call, fetching, ghosts>>

Toggle(b) == <<b, "toggle">>
Left(b) == <<b, "left">>
Callers == Tabs \X {"toggle", "left"}

NoFetch == MaxTokens + 1
NoCall == [pc |-> "idle", sent |-> 0, endpoint |-> 0]
Page(p) == [page |-> p, ready |-> FALSE, label |-> "unknown"]

Init == /\ issued = 0 /\ valid = {} /\ store = {} /\ sending = {}
        /\ token = 0 /\ permission = "default" /\ made = 0 /\ subscription = 0
        /\ tab = [b \in Tabs |-> Page("home")] /\ call = [c \in Callers |-> NoCall]
        /\ fetching = [b \in Tabs |-> NoFetch] /\ unheard = {} /\ doubt = {}

Pending == Cardinality({b \in Tabs : fetching[b] # NoFetch})
             + Cardinality({c \in Callers : call[c].pc # "idle"})

Goes(c, pc) == call' = [call EXCEPT ![c].pc = pc]

\* The tab whose toggle made the call, if it is still there.
Told(c) == IF c = Toggle(c[1]) /\ tab[c[1]].page = "home" THEN {c[1]} ELSE {}

\* The call is over, and tells its toggle what to say.
Ends(c, label) ==
  /\ call' = [call EXCEPT ![c] = NoCall]
  /\ tab' = [b \in Tabs |-> IF b \in Told(c) THEN [tab[b] EXCEPT !.label = label] ELSE tab[b]]

\* The subscription becomes e, which the labels of the others say nothing of.
Labelled == {b \in Tabs : tab[b].label # "unknown"}
Resubscribe(c, e) ==
  /\ subscription' = e /\ unheard' = unheard \cap {e}
  /\ doubt' = doubt \cup (IF e = subscription THEN {} ELSE Labelled \ Told(c))

\* The label says off whatever the subscription is.
OffUnseen(c) ==
  /\ Ends(c, "off")
  /\ doubt' = doubt \cup (IF subscription = 0 THEN {} ELSE Told(c))

\* Of these endpoints the server may not know.
Untold(endpoints) == unheard' = unheard \cup (endpoints \cap {subscription})

-----------------------------------------------------------------------------
(* The session.                                                            *)

Leaving(b) == [tab EXCEPT ![b] = Page("leaving")]

\* The login form.
HandleSubmit(b) ==
  /\ tab[b].page = "login"
  /\ tab' = [tab EXCEPT ![b].page = "signing"]
  /\ UNCHANGED <<serverVars, token, pushVars, call, fetching, ghosts>>

SignedIn(b) ==
  /\ tab[b].page = "signing" /\ issued < MaxTokens
  /\ issued' = issued + 1 /\ valid' = valid \cup {issued + 1} /\ token' = issued + 1
  /\ tab' = [tab EXCEPT ![b] = Page("home")]
  /\ UNCHANGED <<store, sending, pushVars, call, fetching, ghosts>>

SignInFailed(b) ==
  /\ tab[b].page = "signing"
  /\ tab' = [tab EXCEPT ![b].page = "login"]
  /\ UNCHANGED <<serverVars, token, pushVars, call, fetching, ghosts>>

\* useRequireAuth, once the page is mounted.
RequireAuth(b) ==
  /\ tab[b].page = "home" /\ ~tab[b].ready
  /\ tab' = [tab EXCEPT ![b] = IF token = 0 THEN Page("login") ELSE [@ EXCEPT !.ready = TRUE]]
  /\ UNCHANGED <<serverVars, token, pushVars, call, fetching, ghosts>>

\* A read of the page's, which its mount makes whether there is a token or not, or an order.
Fetch(b) ==
  /\ tab[b].page = "home" /\ fetching[b] = NoFetch
  /\ Pending < MaxPending
  /\ fetching' = [fetching EXCEPT ![b] = token]
  /\ UNCHANGED <<serverVars, token, pushVars, tab, call, ghosts>>

\* A 401 or 403, whatever became of the token since: the tab is on its way to the login page.
Refused(b) == token' = 0 /\ tab' = Leaving(b)

\* Any other answer, and no answer, leaves the session alone.
FetchAnswered(b) ==
  /\ fetching[b] # NoFetch
  /\ fetching' = [fetching EXCEPT ![b] = NoFetch]
  /\ \/ UNCHANGED <<token, tab>>
     \/ fetching[b] \notin valid /\ Refused(b)
  /\ UNCHANGED <<serverVars, pushVars, call, ghosts>>

Logout(b) ==
  /\ tab[b].page = "home" /\ tab[b].ready
  /\ token' = 0 /\ tab' = Leaving(b)
  /\ UNCHANGED <<serverVars, pushVars, call, fetching, ghosts>>

\* The tab is loaded anew, with another page or none: what was to follow its requests does
\* not, but each of its calls may still be served.
Navigate(b, page) ==
  LET calls == {call[Toggle(b)], call[Left(b)]}
      served == {k \in calls : k.pc \in {"posting", "deleting"} /\ k.sent \in valid}
  IN /\ tab' = [tab EXCEPT ![b] = Page(page)]
     /\ call' = [call EXCEPT ![Toggle(b)] = NoCall, ![Left(b)] = NoCall]
     /\ fetching' = [fetching EXCEPT ![b] = NoFetch]
     /\ \E arrived \in SUBSET served :
          store' = (store \cup {k.endpoint : k \in {k \in arrived : k.pc = "posting"}})
                     \ {k.endpoint : k \in {k \in arrived : k.pc = "deleting"}}
     /\ Untold({k.endpoint : k \in {k \in calls : k.pc \in {"posting", "undoing"}}})
     /\ doubt' = doubt \ {b}
     /\ UNCHANGED <<issued, valid, sending, token, pushVars>>

Reload(b) == Navigate(b, "home")
CloseTab(b) == Navigate(b, "closed")
Leave(b) == tab[b].page = "leaving" /\ Navigate(b, "login")

\* The link to the analytics page and the one back: the toggle is mounted anew, and what the
\* former one was about goes on.
Visit(b) ==
  /\ tab[b].page = "home" /\ tab[b].ready
  /\ tab' = [tab EXCEPT ![b] = Page("home")]
  /\ IF call[Toggle(b)].pc = "idle" THEN UNCHANGED call
     ELSE /\ call[Left(b)].pc = "idle"
          /\ call' = [call EXCEPT ![Toggle(b)] = NoCall, ![Left(b)] = call[Toggle(b)]]
  /\ doubt' = doubt \ {b}
  /\ UNCHANGED <<serverVars, token, pushVars, fetching, unheard>>

\* TOKEN_TTL_HOURS have passed, or the secret has changed.
Expire(k) ==
  /\ valid' = valid \ {k}
  /\ UNCHANGED <<issued, store, sending, token, pushVars, tab, call, fetching, ghosts>>

-----------------------------------------------------------------------------
(* The toggle.                                                             *)

CheckPermission(b) ==
  /\ tab[b].page = "home" /\ tab[b].ready /\ tab[b].label = "unknown" /\ call[Toggle(b)].pc = "idle"
  /\ tab' = [tab EXCEPT ![b].label = IF permission = "granted" THEN "on" ELSE "off"]
  /\ doubt' = doubt \ {b}
  /\ UNCHANGED <<serverVars, token, pushVars, call, fetching, unheard>>

\* isPushSubscribed, on mount.
CheckSubscribed(b) ==
  /\ tab[b].page = "home" /\ tab[b].ready /\ tab[b].label = "unknown" /\ call[Toggle(b)].pc = "idle"
  /\ tab' = [tab EXCEPT ![b].label = IF subscription # 0 THEN "on" ELSE "off"]
  /\ doubt' = doubt \ {b}
  /\ UNCHANGED <<serverVars, token, pushVars, call, fetching, unheard>>

HandleClick(b) ==
  /\ tab[b].page = "home" /\ tab[b].label # "unknown" /\ call[Toggle(b)].pc = "idle"
  /\ Pending < MaxPending
  /\ Goes(Toggle(b), IF tab[b].label = "on" THEN "removing" ELSE "asking")
  /\ doubt' = doubt \ {b}
  /\ UNCHANGED <<serverVars, token, pushVars, tab, fetching, unheard>>

-----------------------------------------------------------------------------
(* What it calls.                                                          *)

\* requestPermission: the user is asked unless they have answered before.
Ask(c) ==
  /\ call[c].pc = "asking"
  /\ permission' \in IF permission = "default" THEN {"default", "granted", "denied"} ELSE {permission}
  /\ IF permission' = "granted" THEN Goes(c, "subscribing") /\ UNCHANGED tab ELSE Ends(c, "off")
  /\ UNCHANGED <<serverVars, token, made, subscription, fetching, ghosts>>

\* pushManager.subscribe gives the present subscription if there is one.
Subscribe(c) ==
  /\ call[c].pc = "subscribing" /\ permission = "granted"
  /\ subscription # 0 \/ made < MaxEndpoints
  /\ LET e == IF subscription # 0 THEN subscription ELSE made + 1
     IN /\ made' = IF subscription # 0 THEN made ELSE made + 1
        /\ Resubscribe(c, e)
        /\ call' = [call EXCEPT ![c] = [pc |-> "posting", sent |-> token, endpoint |-> e]]
  /\ UNCHANGED <<serverVars, token, permission, tab, fetching>>

\* It throws.
SubscribeThrows(c) ==
  /\ call[c].pc = "subscribing"
  /\ OffUnseen(c)
  /\ UNCHANGED <<serverVars, token, pushVars, fetching, unheard>>

Posted(c) ==
  /\ call[c].pc = "posting" /\ call[c].sent \in valid
  /\ store' = store \cup {call[c].endpoint}
  /\ Ends(c, "on")
  /\ UNCHANGED <<issued, valid, sending, token, pushVars, fetching, ghosts>>

\* An answer that is not ok: the server's error, or its refusal of the token.
PostRefusedKeeps(c) ==
  /\ call[c].pc = "posting"
  /\ Ends(c, "off")
  /\ UNCHANGED <<serverVars, token, pushVars, fetching, ghosts>>

PostRefused(c) ==
  /\ call[c].pc = "posting"
  /\ Goes(c, "undoing")
  /\ \/ UNCHANGED <<token, tab>>
     \/ call[c].sent \notin valid /\ Refused(c[1])
  /\ UNCHANGED <<serverVars, pushVars, fetching, ghosts>>

\* The fetch throws, the POST having been served or not: the browser stays subscribed.
PostLost(c) ==
  /\ call[c].pc = "posting"
  /\ \/ call[c].sent \in valid /\ store' = store \cup {call[c].endpoint}
     \/ UNCHANGED store
  /\ OffUnseen(c)
  /\ Untold({call[c].endpoint})
  /\ UNCHANGED <<issued, valid, sending, token, pushVars, fetching>>

\* subscription.unsubscribe(), of a subscription that may be gone already.
Undo(c) ==
  /\ call[c].pc = "undoing"
  /\ Resubscribe(c, IF subscription = call[c].endpoint THEN 0 ELSE subscription)
  /\ Ends(c, "off")
  /\ UNCHANGED <<serverVars, token, permission, made, fetching>>

\* It rejects: the browser stays subscribed.
UndoThrows(c) ==
  /\ call[c].pc = "undoing"
  /\ OffUnseen(c)
  /\ Untold({call[c].endpoint})
  /\ UNCHANGED <<serverVars, token, pushVars, fetching>>

\* unsubscribeFromPush, up to its DELETE.
Unsubscribe(c) ==
  /\ call[c].pc = "removing"
  /\ IF subscription = 0 THEN Ends(c, "off")
     ELSE /\ call' = [call EXCEPT ![c] = [pc |-> "deleting", sent |-> token, endpoint |-> subscription]]
          /\ UNCHANGED tab
  /\ Resubscribe(c, 0)
  /\ UNCHANGED <<serverVars, token, permission, made, fetching>>

\* unsubscribe() rejects, and handleClick with it: the label stays on, and is right.
UnsubscribeThrows(c) ==
  /\ call[c].pc = "removing" /\ subscription # 0
  /\ Ends(c, "on")
  /\ UNCHANGED <<serverVars, token, pushVars, fetching, ghosts>>

\* Whatever the answer is, the label says off.
Deleted(c) ==
  /\ call[c].pc = "deleting"
  /\ \/ /\ call[c].sent \in valid /\ store' = store \ {call[c].endpoint}
        /\ Ends(c, "off") /\ UNCHANGED token
     \/ Ends(c, "off") /\ UNCHANGED <<store, token>>
     \/ /\ call[c].sent \notin valid /\ Refused(c[1])
        /\ call' = [call EXCEPT ![c] = NoCall]
        /\ UNCHANGED store
  /\ UNCHANGED <<issued, valid, sending, pushVars, fetching, ghosts>>

\* The fetch throws, and handleClick with it: the label stays on.
DeleteLost(c) ==
  /\ call[c].pc = "deleting"
  /\ \/ call[c].sent \in valid /\ store' = store \ {call[c].endpoint}
     \/ UNCHANGED store
  /\ Ends(c, "on") /\ doubt' = doubt \cup Told(c)
  /\ UNCHANGED <<issued, valid, sending, token, pushVars, fetching, unheard>>

\* The user changes the permission in the browser's settings.
ChangePermission(p) ==
  /\ p # permission /\ permission' = p
  /\ subscription' = IF p = "granted" THEN subscription ELSE 0
  /\ unheard' = unheard \cap {subscription'}
  /\ doubt' = IF subscription' = subscription THEN doubt ELSE doubt \cup Labelled
  /\ UNCHANGED <<serverVars, token, made, tab, call, fetching>>

-----------------------------------------------------------------------------
(* Notifications.                                                          *)

\* notify_all, for an alert or a digest.
NotifyAll ==
  /\ sending = {} /\ store # {}
  /\ sending' = store
  /\ UNCHANGED <<issued, valid, store, token, pushVars, tab, call, fetching, ghosts>>

SendOneKeeps(e) ==
  /\ e \in sending /\ sending' = sending \ {e}
  /\ UNCHANGED <<issued, valid, store, token, pushVars, tab, call, fetching, ghosts>>

\* The push service delivers, or says 404 or 410, upon which the endpoint is removed.
SendOne(e) ==
  /\ e \in sending /\ sending' = sending \ {e}
  /\ store' = IF e = subscription THEN store ELSE store \ {e}
  /\ UNCHANGED <<issued, valid, token, pushVars, tab, call, fetching, ghosts>>

SendOneFails(e) ==
  /\ e \in sending /\ sending' = sending \ {e}
  /\ UNCHANGED <<issued, valid, store, token, pushVars, tab, call, fetching, ghosts>>

\* notificationclick, of a notification that was delivered once and stayed on screen: a tab
\* there is is focused, which changes nothing here, else one is opened.
NotificationClick ==
  /\ made # 0 /\ \A b \in Tabs : tab[b].page = "closed"
  /\ \E b \in Tabs : tab' = [tab EXCEPT ![b] = Page("home")]
  /\ UNCHANGED <<serverVars, token, pushVars, call, fetching, ghosts>>

-----------------------------------------------------------------------------

TabNext(b) ==
  \/ HandleSubmit(b) \/ SignedIn(b) \/ SignInFailed(b) \/ RequireAuth(b)
  \/ Fetch(b) \/ FetchAnswered(b) \/ Logout(b) \/ Reload(b) \/ CloseTab(b) \/ Leave(b) \/ Visit(b)
  \/ CheckSubscribed(b) \/ HandleClick(b)

CallNext(c) ==
  \/ Ask(c) \/ Subscribe(c) \/ SubscribeThrows(c)
  \/ Posted(c) \/ PostRefused(c) \/ PostLost(c) \/ Undo(c) \/ UndoThrows(c)
  \/ Unsubscribe(c) \/ UnsubscribeThrows(c) \/ Deleted(c) \/ DeleteLost(c)

Next ==
  \/ \E b \in Tabs : TabNext(b)
  \/ \E c \in Callers : CallNext(c)
  \/ \E k \in valid : Expire(k)
  \/ \E p \in {"default", "granted", "denied"} : ChangePermission(p)
  \/ NotifyAll \/ \E e \in 1..MaxEndpoints : SendOne(e) \/ SendOneFails(e)
  \/ NotificationClick

\* Of a push service asked again and again, an answer comes in the end.
Spec == Init /\ [][Next]_vars /\ \A e \in 1..MaxEndpoints : SF_vars(SendOne(e))

-----------------------------------------------------------------------------
(* Properties                                                              *)

Endpoints == 1..MaxEndpoints

TypeOK ==
  /\ issued \in 0..MaxTokens /\ valid \subseteq 1..issued /\ token \in 0..issued
  /\ made \in 0..MaxEndpoints /\ subscription \in 0..made /\ store \subseteq 1..made
  /\ sending \subseteq Endpoints /\ unheard \subseteq Endpoints /\ doubt \subseteq Tabs
  /\ permission \in {"default", "granted", "denied"}
  /\ subscription # 0 => permission = "granted"
  /\ \A b \in Tabs : /\ tab[b].page \in {"login", "signing", "home", "leaving", "closed"}
                     /\ tab[b].label \in {"unknown", "on", "off"}
                     /\ fetching[b] \in 0..NoFetch
  /\ \A c \in Callers : call[c].endpoint \in 0..made

\* The browser's subscription is one the server sends to, or about to be, or about to be
\* undone, unless the call that made it never heard of its POST, was cut off by a reload
\* before its end, or could not undo it.
Registered ==
  subscription # 0 =>
    \/ subscription \in store \cup unheard
    \/ \E c \in Callers : call[c].pc \in {"posting", "undoing"} /\ call[c].endpoint = subscription

\* A toggle at rest says what the browser's subscription is, unless it was changed since by
\* another tab, by the browser's settings or by a call left behind, or the toggle's own last
\* call failed to find out.
LabelTrue ==
  \A b \in Tabs \ doubt :
    tab[b].page = "home" /\ call[Toggle(b)].pc = "idle" /\ tab[b].label # "unknown" =>
      (tab[b].label = "on") = (subscription # 0)

\* An endpoint that died, however it stayed or came back on record, is removed in the end
\* when notifications keep being sent.
DeadGo ==
  \A e \in Endpoints :
    []<><<NotifyAll>>_vars => ((e \in store /\ e # subscription) ~> e \notin store)
=============================================================================
