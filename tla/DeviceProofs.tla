----------------------------- MODULE DeviceProofs -----------------------------
(***************************************************************************)
(* Proofs about what the tabs of a browser share, for any number of tabs,  *)
(* logins, subscriptions and calls on their way: the server knows of the   *)
(* browser's subscription, and the toggles tell the truth about it.        *)
(***************************************************************************)
EXTENDS Device, TLAPS

Pages == {"login", "signing", "home", "leaving", "closed"}
Answers == {"unknown", "on", "off"}
Places == {"idle", "asking", "subscribing", "posting", "undoing", "removing", "deleting"}
TabRecords == [page : Pages, ready : BOOLEAN, label : Answers]
CallRecords == [pc : Places, sent : 0..MaxTokens, endpoint : 0..MaxEndpoints]

\* What a call k has with it when m endpoints have been made and s is the subscription: an
\* endpoint that was made, and that is the subscription no more once its DELETE is sent.
CallOK(k, m, s) ==
  /\ k.endpoint \in 0..m
  /\ k.pc \in {"posting", "undoing", "deleting"} => k.endpoint # 0
  /\ k.pc = "deleting" => k.endpoint # s

\* Only a page that is ready has a toggle that says something; only such a toggle has a call
\* on its way, or one whose tab is being sent to the login page.
Says(t) == t.page = "home" /\ t.ready = TRUE /\ t.label # "unknown"
TabOK(t, k) ==
  /\ t.label = "unknown" \/ Says(t)
  /\ k.pc = "idle" \/ t.page = "leaving" \/ Says(t)

\* TypeOK but for what it says of each tab and call.
SharedOK ==
  /\ issued \in 0..MaxTokens /\ valid \subseteq 1..issued /\ token \in 0..issued
  /\ made \in 0..MaxEndpoints /\ subscription \in 0..made /\ store \subseteq 1..made
  /\ sending \subseteq Endpoints /\ unheard \subseteq Endpoints /\ doubt \subseteq Tabs
  /\ permission \in {"default", "granted", "denied"}
  /\ subscription # 0 => permission = "granted"

TypeInv ==
  /\ SharedOK
  /\ tab \in [Tabs -> TabRecords] /\ call \in [Callers -> CallRecords]
  /\ fetching \in [Tabs -> 0..NoFetch]
  /\ \A c \in Callers : CallOK(call[c], made, subscription)
  /\ \A b \in Tabs : TabOK(tab[b], call[Toggle(b)])

\* What makes LabelTrue inductive: nobody has interfered with a toggle outside doubt, so it
\* knows what became of the subscription between its own steps.
LabelOK(t, k, s) ==
  t.page = "home" =>
    /\ k.pc = "idle" /\ t.label # "unknown" => (t.label = "on" <=> s # 0)
    /\ k.pc \in {"posting", "undoing"} => s = k.endpoint
    /\ k.pc = "deleting" => s = 0
LabelInv == \A b \in Tabs \ doubt : LabelOK(tab[b], call[Toggle(b)], subscription)

-----------------------------------------------------------------------------
(* One tab's step                                                          *)

\* A caller is the toggle of a tab or what a former one left behind.
LEMMA CallersOK ==
  /\ \A c \in Callers : c[1] \in Tabs /\ (c = Toggle(c[1]) \/ c = Left(c[1]))
  /\ \A b \in Tabs : /\ Toggle(b) \in Callers /\ Left(b) \in Callers
                     /\ Toggle(b)[1] = b /\ Left(b)[1] = b
  /\ \A b, d : Toggle(b) # Left(d) /\ (Toggle(b) = Toggle(d) => b = d) /\ (Left(b) = Left(d) => b = d)
BY DEF Callers, Toggle, Left

\* What becomes of the subscription: an endpoint does not come back.
NewSubscription ==
  \/ UNCHANGED <<made, subscription>>
  \/ made' = made /\ subscription' = 0
  \/ made' = made + 1 /\ subscription' = made + 1

\* A step of tab b and its calls keeps the types and the labels if they are in order after
\* it and the toggles of the others are in doubt of a subscription that changed.
LEMMA OneTab ==
  ASSUME TypeInv, LabelInv, NEW b \in Tabs,
         tab' \in [Tabs -> TabRecords], call' \in [Callers -> CallRecords],
         fetching' \in [Tabs -> 0..NoFetch], SharedOK', NewSubscription,
         \A d \in Tabs \ {b} : tab'[d] = tab[d],
         \A c \in Callers \ {Toggle(b), Left(b)} : call'[c] = call[c],
         CallOK(call'[Toggle(b)], made', subscription'),
         CallOK(call'[Left(b)], made', subscription'),
         TabOK(tab'[b], call'[Toggle(b)]),
         doubt \ {b} \subseteq doubt',
         subscription' = subscription \/ Labelled \ {b} \subseteq doubt',
         b \in doubt' \/ LabelOK(tab'[b], call'[Toggle(b)], subscription')
  PROVE  TypeInv' /\ LabelInv'
<1>1. made \in Nat /\ \A c \in Callers : call[c].endpoint \in 0..made
  BY DeviceAssumption DEF TypeInv, SharedOK, CallOK
<1>2. \A c \in Callers : CallOK(call'[c], made', subscription')
  <2> SUFFICES ASSUME NEW c \in Callers \ {Toggle(b), Left(b)}
               PROVE  CallOK(call'[c], made', subscription')
    OBVIOUS
  <2>1. CallOK(call[c], made, subscription) /\ call'[c] = call[c]
    BY DEF TypeInv
  <2> QED
    BY <1>1, <2>1 DEF CallOK, NewSubscription
<1>3. \A d \in Tabs \ {b} : call'[Toggle(d)] = call[Toggle(d)]
  BY CallersOK
<1>4. \A d \in Tabs : TabOK(tab'[d], call'[Toggle(d)])
  BY <1>3 DEF TypeInv
<1>5. ASSUME NEW d \in Tabs \ doubt' PROVE LabelOK(tab'[d], call'[Toggle(d)], subscription')
  <2>1. CASE d = b
    BY <1>5, <2>1
  <2>2. CASE d # b
    <3>1. /\ LabelOK(tab[d], call[Toggle(d)], subscription) /\ TabOK(tab[d], call[Toggle(d)])
          /\ tab'[d] = tab[d] /\ call'[Toggle(d)] = call[Toggle(d)]
      BY <1>3, <1>5, <2>2 DEF TypeInv, LabelInv
    <3>2. subscription' = subscription \/ tab[d].label = "unknown"
      BY <1>5, <2>2 DEF Labelled
    <3>3. CASE subscription' = subscription
      BY <3>1, <3>3
    <3>4. CASE tab[d].label = "unknown"
      BY <3>1, <3>4 DEF LabelOK, TabOK, Says
    <3> QED
      BY <3>2, <3>3, <3>4
  <2> QED
    BY <2>1, <2>2
<1> QED
  BY <1>2, <1>4, <1>5 DEF TypeInv, LabelInv

\* A tab, its calls and their records are in order.
LEMMA TabFacts ==
  ASSUME TypeInv, LabelInv, NEW b \in Tabs
  PROVE  /\ Toggle(b) \in Callers /\ Left(b) \in Callers /\ Toggle(b) # Left(b)
         /\ tab[b] \in TabRecords /\ call[Toggle(b)] \in CallRecords /\ call[Left(b)] \in CallRecords
         /\ TabOK(tab[b], call[Toggle(b)])
         /\ CallOK(call[Toggle(b)], made, subscription) /\ CallOK(call[Left(b)], made, subscription)
         /\ b \in doubt \/ LabelOK(tab[b], call[Toggle(b)], subscription)
         /\ doubt \subseteq Tabs
BY CallersOK DEF TypeInv, LabelInv, SharedOK

\* A page that is loaded says nothing yet, and a call that is over has nothing with it.
LEMMA BlankOK ==
  /\ NoCall \in CallRecords /\ NoCall.pc = "idle"
  /\ \A m \in Nat : \A s : CallOK(NoCall, m, s)
  /\ \A p \in Pages : /\ Page(p) \in TabRecords
                      /\ Page(p).page = p /\ Page(p).ready = FALSE /\ Page(p).label = "unknown"
<1>1. 0 \in 0..MaxTokens /\ 0 \in 0..MaxEndpoints
  BY DeviceAssumption
<1>2. \A p \in Pages : /\ Page(p) \in TabRecords
                       /\ Page(p).page = p /\ Page(p).ready = FALSE /\ Page(p).label = "unknown"
  BY DEF Page, TabRecords, Answers
<1>3. NoCall \in CallRecords /\ NoCall.pc = "idle" /\ NoCall.endpoint = 0
  BY <1>1 DEF NoCall, CallRecords, Places
<1> QED
  BY <1>2, <1>3 DEF CallOK

\* A step of the tab alone.
LEMMA TabAlone ==
  ASSUME TypeInv, LabelInv, NEW b \in Tabs, NEW t \in TabRecords,
         tab' = [tab EXCEPT ![b] = t], UNCHANGED <<call, made, subscription>>,
         fetching' \in [Tabs -> 0..NoFetch], SharedOK',
         TabOK(t, call[Toggle(b)]), doubt \ {b} \subseteq doubt',
         b \in doubt' \/ LabelOK(t, call[Toggle(b)], subscription)
  PROVE  TypeInv' /\ LabelInv'
<1>1. /\ tab' \in [Tabs -> TabRecords] /\ call' \in [Callers -> CallRecords]
      /\ tab'[b] = t /\ \A d \in Tabs \ {b} : tab'[d] = tab[d]
  BY DEF TypeInv
<1> QED
  BY <1>1, TabFacts, OneTab DEF NewSubscription

-----------------------------------------------------------------------------
(* The session                                                             *)

\* Nothing changes that the tabs share but the token, which is gone.
LEMMA SharedKeeps ==
  ASSUME TypeInv, UNCHANGED <<serverVars, pushVars, unheard>>, doubt' \subseteq Tabs,
         token' \in {0, token}
  PROVE  SharedOK' /\ UNCHANGED <<made, subscription>>
<1> USE DeviceAssumption
<1> QED
  BY DEF TypeInv, SharedOK, serverVars, pushVars

\* A tab that is sent to the login page says nothing.
LEMMA LeavingOK ==
  ASSUME TypeInv, NEW b \in Tabs, NEW k \in CallRecords, NEW s
  PROVE  /\ Page("leaving") \in TabRecords /\ Page("leaving").page = "leaving"
         /\ TabOK(Page("leaving"), k) /\ LabelOK(Page("leaving"), k, s)
BY BlankOK DEF Pages, TabOK, LabelOK

\* Signing in, out and away, and what is read and ordered, keeps the types and the labels.
LEMMA SessionKeeps ==
  ASSUME TypeInv, LabelInv, NEW b \in Tabs,
         \/ HandleSubmit(b) \/ SignedIn(b) \/ SignInFailed(b) \/ RequireAuth(b)
         \/ Fetch(b) \/ FetchAnswered(b) \/ Logout(b)
  PROVE  TypeInv' /\ LabelInv'
<1>0. /\ tab[b] \in TabRecords /\ call[Toggle(b)] \in CallRecords
      /\ TabOK(tab[b], call[Toggle(b)])
      /\ b \in doubt \/ LabelOK(tab[b], call[Toggle(b)], subscription)
      /\ doubt \subseteq Tabs /\ fetching \in [Tabs -> 0..NoFetch]
  BY TabFacts DEF TypeInv
<1>1. CASE HandleSubmit(b) \/ SignInFailed(b)
  <2>1. PICK p \in {"login", "signing"} : tab' = [tab EXCEPT ![b] = [tab[b] EXCEPT !.page = p]]
    BY <1>1 DEF HandleSubmit, SignInFailed, TypeInv
  <2> DEFINE t == [tab[b] EXCEPT !.page = p]
  <2>2. tab[b].page \in {"login", "signing"} /\ UNCHANGED <<serverVars, pushVars, ghosts, token, call, fetching>>
    BY <1>1 DEF HandleSubmit, SignInFailed
  <2>3. t \in TabRecords /\ t.page = p /\ t.label = tab[b].label
    BY <1>0 DEF TabRecords, Pages
  <2>5. tab' = [tab EXCEPT ![b] = t] /\ UNCHANGED <<call, fetching, unheard, doubt>>
    <3>1. tab' = [tab EXCEPT ![b] = t]
      BY <2>1
    <3> QED
      BY <2>2, <3>1 DEF ghosts
  <2> HIDE DEF t
  <2>4. TabOK(t, call[Toggle(b)]) /\ LabelOK(t, call[Toggle(b)], subscription)
    BY <1>0, <2>2, <2>3 DEF TabOK, LabelOK, Says
  <2>6. SharedOK' /\ UNCHANGED <<made, subscription>>
    BY <1>0, <2>2, <2>5, SharedKeeps
  <2> QED
    BY <1>0, <2>3, <2>4, <2>5, <2>6, TabAlone
<1>2. CASE SignedIn(b)
  <2>1. SharedOK' /\ UNCHANGED <<call, made, subscription, fetching, doubt>>
    BY <1>2, DeviceAssumption DEF SignedIn, TypeInv, SharedOK, pushVars, ghosts
  <2>2. tab' = [tab EXCEPT ![b] = Page("home")] /\ call[Toggle(b)].pc = "idle"
    BY <1>0, <1>2 DEF SignedIn, TabOK, Says
  <2>3. /\ Page("home") \in TabRecords /\ TabOK(Page("home"), call[Toggle(b)])
        /\ LabelOK(Page("home"), call[Toggle(b)], subscription)
    BY <2>2, BlankOK DEF Pages, TabOK, LabelOK
  <2> QED
    BY <1>0, <2>1, <2>2, <2>3, TabAlone
<1>3. CASE RequireAuth(b)
  <2>1. UNCHANGED <<serverVars, pushVars, ghosts, token, call, fetching>>
    BY <1>3 DEF RequireAuth
  <2>2. call[Toggle(b)].pc = "idle" /\ tab[b].label = "unknown"
    <3>1. tab[b].page = "home" /\ ~(tab[b].ready = TRUE)
      BY <1>3, Zenon DEF RequireAuth
    <3> QED
      BY <1>0, <3>1 DEF TabOK, Says
  <2>3. ASSUME NEW t \in TabRecords, tab' = [tab EXCEPT ![b] = t], t.label = "unknown"
        PROVE  TypeInv' /\ LabelInv'
    <3>1. TabOK(t, call[Toggle(b)]) /\ LabelOK(t, call[Toggle(b)], subscription)
      BY <2>2, <2>3 DEF TabOK, LabelOK
    <3> QED
      BY <1>0, <2>1, <2>3, <3>1, SharedKeeps, TabAlone DEF ghosts
  <2>4. CASE token = 0
    BY <1>3, <2>3, <2>4, BlankOK DEF RequireAuth, Pages
  <2>5. CASE token # 0
    <3>1. [tab[b] EXCEPT !.ready = TRUE] \in TabRecords
          /\ [tab[b] EXCEPT !.ready = TRUE].label = "unknown"
      BY <1>0, <2>2 DEF TabRecords
    <3>2. tab' = [tab EXCEPT ![b] = [tab[b] EXCEPT !.ready = TRUE]]
      BY <1>3, <2>5 DEF RequireAuth, TypeInv
    <3> QED
      BY <2>3, <3>1, <3>2
  <2> QED
    BY <2>4, <2>5
<1>4. CASE Fetch(b)
  <2>1. /\ UNCHANGED <<serverVars, pushVars, ghosts, token, tab, call>>
        /\ fetching' \in [Tabs -> 0..NoFetch]
    BY <1>4, DeviceAssumption DEF Fetch, TypeInv, SharedOK, NoFetch
  <2> QED
    BY <1>0, <2>1, SharedKeeps DEF TypeInv, LabelInv, ghosts
<1>5. CASE FetchAnswered(b) \/ Logout(b)
  <2>1. UNCHANGED <<serverVars, pushVars, ghosts, call>> /\ token' \in {0, token}
        /\ fetching' \in [Tabs -> 0..NoFetch]
    BY <1>5, DeviceAssumption DEF FetchAnswered, Logout, Refused, TypeInv, NoFetch
  <2>2. CASE UNCHANGED tab
    BY <1>0, <2>1, <2>2, SharedKeeps DEF TypeInv, LabelInv, ghosts
  <2>3. CASE tab' = Leaving(b)
    BY <1>0, <2>1, <2>3, LeavingOK, SharedKeeps, TabAlone DEF Leaving, ghosts
  <2> QED
    BY <1>5, <2>2, <2>3 DEF FetchAnswered, Logout, Refused
<1> QED
  BY <1>1, <1>2, <1>3, <1>4, <1>5

\* A tab that is loaded anew drops what was on its way: of a POST that may have been served
\* the endpoint is then unheard of.
LEMMA NavigateKeeps ==
  ASSUME TypeInv, LabelInv, NEW b \in Tabs, NEW page \in Pages, Navigate(b, page)
  PROVE  TypeInv' /\ LabelInv'
<1> DEFINE calls == {call[Toggle(b)], call[Left(b)]}
<1>1. \A k \in calls : k.pc \in {"posting", "undoing", "deleting"} => k.endpoint \in 1..made
  BY TabFacts, DeviceAssumption DEF CallOK, TypeInv, SharedOK
<1>2. store' \subseteq 1..made /\ doubt' \subseteq Tabs
  BY <1>1 DEF Navigate, TypeInv, SharedOK
<1>3. unheard' \subseteq Endpoints
  <2>1. made \in Nat /\ MaxEndpoints \in Nat /\ made <= MaxEndpoints
    BY DeviceAssumption DEF TypeInv, SharedOK
  <2>2. {k.endpoint : k \in {k \in calls : k.pc \in {"posting", "undoing"}}} \subseteq Endpoints
    BY <1>1, <2>1 DEF Endpoints
  <2>3. Untold({k.endpoint : k \in {k \in calls : k.pc \in {"posting", "undoing"}}})
    BY DEF Navigate
  <2> QED
    BY <2>2, <2>3 DEF Untold, TypeInv, SharedOK
<1>4. SharedOK' /\ NewSubscription /\ UNCHANGED <<made, subscription>>
  BY <1>2, <1>3 DEF Navigate, TypeInv, SharedOK, NewSubscription, pushVars
<1>5. /\ tab' = [tab EXCEPT ![b] = Page(page)] /\ doubt' = doubt \ {b}
      /\ fetching' \in [Tabs -> 0..NoFetch]
      /\ call' = [call EXCEPT ![Toggle(b)] = NoCall, ![Left(b)] = NoCall]
  BY DeviceAssumption DEF Navigate, TypeInv, NoFetch
<1>6. /\ tab' \in [Tabs -> TabRecords] /\ call' \in [Callers -> CallRecords]
      /\ tab'[b] = Page(page) /\ \A d \in Tabs \ {b} : tab'[d] = tab[d]
      /\ call'[Toggle(b)] = NoCall /\ call'[Left(b)] = NoCall
      /\ \A c \in Callers \ {Toggle(b), Left(b)} : call'[c] = call[c]
  BY <1>5, BlankOK, TabFacts DEF TypeInv
<1>7. /\ CallOK(NoCall, made', subscription') /\ TabOK(Page(page), NoCall)
      /\ LabelOK(Page(page), NoCall, subscription')
  BY <1>4, BlankOK, DeviceAssumption DEF TabOK, LabelOK, SharedOK
<1> HIDE DEF calls
<1> QED
  BY <1>4, <1>5, <1>6, <1>7, OneTab

\* A toggle that is unmounted leaves its call behind, and the one mounted in its place has
\* yet to find out what it says.
LEMMA VisitKeeps ==
  ASSUME TypeInv, LabelInv, NEW b \in Tabs, Visit(b)
  PROVE  TypeInv' /\ LabelInv'
<1>0. /\ Toggle(b) \in Callers /\ Left(b) \in Callers /\ Toggle(b) # Left(b)
      /\ CallOK(call[Toggle(b)], made, subscription) /\ CallOK(call[Left(b)], made, subscription)
      /\ call[Toggle(b)] \in CallRecords
  BY TabFacts
<1>1. /\ UNCHANGED <<serverVars, pushVars, token, unheard, fetching>> /\ doubt' = doubt \ {b}
      /\ tab' = [tab EXCEPT ![b] = Page("home")]
  BY DEF Visit
<1>2. SharedOK' /\ UNCHANGED <<made, subscription>>
  BY <1>1, SharedKeeps DEF TypeInv, SharedOK
<1>3. /\ call' \in [Callers -> CallRecords]
      /\ \A c \in Callers \ {Toggle(b), Left(b)} : call'[c] = call[c]
      /\ call'[Toggle(b)].pc = "idle"
      /\ CallOK(call'[Toggle(b)], made, subscription) /\ CallOK(call'[Left(b)], made, subscription)
  <2>1. CASE call[Toggle(b)].pc = "idle"
    BY <1>0, <2>1 DEF Visit, TypeInv
  <2>2. CASE call[Toggle(b)].pc # "idle"
    <3>1. call' = [call EXCEPT ![Toggle(b)] = NoCall, ![Left(b)] = call[Toggle(b)]]
      BY <2>2 DEF Visit
    <3>2. CallOK(NoCall, made, subscription)
      BY BlankOK, DeviceAssumption DEF TypeInv, SharedOK
    <3> QED
      BY <1>0, <3>1, <3>2, BlankOK DEF TypeInv
  <2> QED
    BY <2>1, <2>2
<1>4. /\ tab' \in [Tabs -> TabRecords] /\ tab'[b] = Page("home")
      /\ \A d \in Tabs \ {b} : tab'[d] = tab[d]
  BY <1>1, BlankOK DEF TypeInv, Pages
<1>5. /\ TabOK(tab'[b], call'[Toggle(b)])
      /\ LabelOK(tab'[b], call'[Toggle(b)], subscription')
  BY <1>3, <1>4, BlankOK DEF TabOK, LabelOK, Pages
<1> QED
  BY <1>1, <1>2, <1>3, <1>4, <1>5, OneTab DEF TypeInv, NewSubscription

-----------------------------------------------------------------------------
(* The calls of the toggles                                                *)

\* A step of call c, which leaves it as k and its tab as t, keeps the types and the labels
\* if the tab is sent to the login page or else its toggle, if it is still there, says
\* something and is in order or in doubt.
LEMMA OneCall ==
  ASSUME TypeInv, LabelInv, NEW c \in Callers, NEW k \in CallRecords, NEW t \in TabRecords,
         call[c].pc # "idle",
         call' = [call EXCEPT ![c] = k], tab' = [tab EXCEPT ![c[1]] = t],
         UNCHANGED fetching, SharedOK', NewSubscription, CallOK(k, made', subscription'),
         doubt \subseteq doubt',
         subscription' = subscription \/ Labelled \ Told(c) \subseteq doubt',
         \/ t = Page("leaving")
         \/ t = tab[c[1]]
         \/ Told(c) # {} /\ Says(t),
         \/ t = Page("leaving") \/ Told(c) = {} \/ c[1] \in doubt'
         \/ LabelOK(t, k, subscription')
  PROVE  TypeInv' /\ LabelInv'
<1> DEFINE b == c[1]
<1>1. b \in Tabs /\ (c = Toggle(b) \/ c = Left(b))
  BY CallersOK
<1>2. /\ Toggle(b) \in Callers /\ Left(b) \in Callers /\ Toggle(b) # Left(b)
      /\ TabOK(tab[b], call[Toggle(b)])
      /\ CallOK(call[Toggle(b)], made, subscription) /\ CallOK(call[Left(b)], made, subscription)
      /\ b \in doubt \/ LabelOK(tab[b], call[Toggle(b)], subscription)
      /\ call[Toggle(b)] \in CallRecords
  BY <1>1, TabFacts
<1>3. Told(c) = IF c = Toggle(b) /\ tab[b].page = "home" THEN {b} ELSE {}
  BY DEF Told
<1>4. /\ tab' \in [Tabs -> TabRecords] /\ call' \in [Callers -> CallRecords]
      /\ tab'[b] = t /\ call'[c] = k
      /\ \A d \in Tabs \ {b} : tab'[d] = tab[d]
      /\ \A d \in Callers \ {c} : call'[d] = call[d]
  BY <1>1 DEF TypeInv
<1> HIDE DEF b
<1>5. CallOK(call'[Toggle(b)], made', subscription') /\ CallOK(call'[Left(b)], made', subscription')
  <2>1. made \in Nat
    BY DeviceAssumption DEF TypeInv, SharedOK
  <2>2. ASSUME NEW d \in {Toggle(b), Left(b)}, d # c
        PROVE  CallOK(call'[d], made', subscription')
    BY <1>2, <1>4, <2>1, <2>2 DEF CallOK, NewSubscription
  <2> QED
    BY <1>4, <2>2
<1>6. ASSUME TabOK(t, call'[Toggle(b)]),
             b \in doubt' \/ LabelOK(t, call'[Toggle(b)], subscription')
      PROVE  TypeInv' /\ LabelInv'
  <2>1. subscription' = subscription \/ Labelled \ {b} \subseteq doubt'
    BY <1>3
  <2>2. doubt \ {b} \subseteq doubt'
    OBVIOUS
  <2>3. \A d \in Callers \ {Toggle(b), Left(b)} : call'[d] = call[d]
    BY <1>1, <1>4
  <2>4. fetching' \in [Tabs -> 0..NoFetch]
    BY DEF TypeInv
  <2>5. TabOK(tab'[b], call'[Toggle(b)])
    BY <1>4, <1>6
  <2>6. b \in doubt' \/ LabelOK(tab'[b], call'[Toggle(b)], subscription')
    BY <1>4, <1>6
  <2>7. b \in Tabs
    BY <1>1
  <2> QED
    BY <1>4, <1>5, <2>1, <2>2, <2>3, <2>4, <2>5, <2>6, <2>7, OneTab
<1>7. CASE t = Page("leaving")
  <2>1. call'[Toggle(b)] \in CallRecords
    BY <1>2, <1>4
  <2>2. TabOK(t, call'[Toggle(b)]) /\ LabelOK(t, call'[Toggle(b)], subscription')
    BY <1>1, <1>7, <2>1, LeavingOK
  <2> QED
    BY <1>6, <2>2
<1>8. CASE Told(c) = {} /\ t = tab[b]
  <2>1. CASE c = Left(b)
    <3>1. call'[Toggle(b)] = call[Toggle(b)]
      BY <1>2, <1>4, <2>1
    <3>2. b \in doubt' \/ LabelOK(t, call'[Toggle(b)], subscription')
      <4>1. CASE tab[b].label = "unknown"
        BY <1>2, <1>8, <3>1, <4>1 DEF TabOK, LabelOK, Says
      <4>2. CASE tab[b].label # "unknown" /\ subscription' # subscription
        BY <1>1, <1>8, <4>2 DEF Labelled
      <4>3. CASE subscription' = subscription
        BY <1>2, <1>8, <3>1, <4>3
      <4> QED
        BY <4>1, <4>2, <4>3
    <3> QED
      BY <1>2, <1>6, <1>8, <3>1, <3>2
  <2>2. CASE c = Toggle(b)
    <3>1. tab[b].page = "leaving"
      BY <1>2, <1>3, <1>8, <2>2 DEF TabOK, Says
    <3>2. TabOK(t, k) /\ LabelOK(t, k, subscription')
      BY <1>2, <1>8, <3>1 DEF TabOK, LabelOK, Says
    <3> QED
      BY <1>4, <1>6, <2>2, <3>2
  <2> QED
    BY <1>1, <2>1, <2>2
<1>9. CASE Told(c) # {} /\ t # Page("leaving")
  <2>1. c = Toggle(b) /\ tab[b].page = "home"
    BY <1>3, <1>9
  <2>2. Says(t)
    <3>1. Says(tab[b])
      BY <1>2, <2>1 DEF TabOK
    <3> QED
      BY <1>9, <3>1 DEF b
  <2>3. TabOK(t, k) /\ (b \in doubt' \/ LabelOK(t, k, subscription'))
    BY <1>9, <2>2 DEF TabOK, b
  <2> QED
    BY <1>4, <1>6, <2>1, <2>3
<1> QED
  BY <1>7, <1>8, <1>9 DEF b

\* The facts about a call and its tab that the steps of the call rest on.
LEMMA CallFacts ==
  ASSUME TypeInv, LabelInv, NEW c \in Callers
  PROVE  /\ c[1] \in Tabs /\ tab[c[1]] \in TabRecords /\ call[c] \in CallRecords
         /\ CallOK(call[c], made, subscription)
         /\ call[c].pc = "idle" \/ Told(c) = {} \/ Says(tab[c[1]])
         /\ Told(c) # {} => c[1] \in doubt \/ LabelOK(tab[c[1]], call[c], subscription)
         /\ Told(c) # {} => tab[c[1]].page = "home" /\ Told(c) = {c[1]}
         /\ doubt \subseteq Tabs
<1> DEFINE b == c[1]
<1>1. b \in Tabs /\ (c = Toggle(b) \/ c = Left(b))
  BY CallersOK
<1>2. /\ TabOK(tab[b], call[Toggle(b)]) /\ tab[b] \in TabRecords
      /\ b \in doubt \/ LabelOK(tab[b], call[Toggle(b)], subscription)
      /\ doubt \subseteq Tabs
  BY <1>1, TabFacts
<1>3. call[c] \in CallRecords /\ CallOK(call[c], made, subscription)
  BY DEF TypeInv
<1>4. Told(c) # {} => c = Toggle(b) /\ tab[b].page = "home" /\ Told(c) = {b}
  BY DEF Told
<1> HIDE DEF b
<1>5. call[c].pc = "idle" \/ Told(c) = {} \/ Says(tab[b])
  BY <1>2, <1>4 DEF TabOK
<1>6. Told(c) # {} => b \in doubt \/ LabelOK(tab[b], call[c], subscription)
  BY <1>2, <1>4
<1> QED
  BY <1>1, <1>2, <1>3, <1>4, <1>5, <1>6 DEF b

\* A call that ends keeps the types and the labels if what it says is true or in doubt.
LEMMA EndsKeeps ==
  ASSUME TypeInv, LabelInv, NEW c \in Callers, NEW label \in {"on", "off"}, Ends(c, label),
         call[c].pc # "idle",
         SharedOK', UNCHANGED fetching, NewSubscription,
         doubt \subseteq doubt',
         subscription' = subscription \/ Labelled \ Told(c) \subseteq doubt',
         Told(c) = {} \/ c[1] \in doubt' \/ (label = "on" <=> subscription' # 0)
  PROVE  TypeInv' /\ LabelInv'
<1> DEFINE b == c[1]
           t == IF Told(c) = {} THEN tab[b] ELSE [tab[b] EXCEPT !.label = label]
<1>0. /\ b \in Tabs /\ tab[b] \in TabRecords
      /\ Told(c) = {} \/ Says(tab[b])
      /\ Told(c) # {} => tab[b].page = "home" /\ Told(c) = {b}
  BY CallFacts
<1>1. t \in TabRecords /\ (Told(c) # {} => Says(t) /\ t.label = label)
  BY <1>0 DEF TabRecords, Answers, Says
<1>2. tab' = [tab EXCEPT ![b] = t]
  BY <1>0 DEF Ends, TypeInv
<1>3. call' = [call EXCEPT ![c] = NoCall] /\ NoCall \in CallRecords /\ NoCall.pc = "idle"
  BY BlankOK DEF Ends
<1>4. CallOK(NoCall, made', subscription')
  BY BlankOK, DeviceAssumption DEF SharedOK
<1>5. t = tab[b] \/ (Told(c) # {} /\ Says(t))
  BY <1>1
<1>6. Told(c) = {} \/ b \in doubt' \/ LabelOK(t, NoCall, subscription')
  BY <1>1, <1>3 DEF LabelOK, b
<1> HIDE DEF t
<1> QED
  BY <1>1, <1>2, <1>3, <1>4, <1>5, <1>6, OneCall

\* A call that goes on with nothing new keeps the types and the labels.
LEMMA GoesKeeps ==
  ASSUME TypeInv, LabelInv, NEW c \in Callers, NEW pc \in Places, Goes(c, pc), UNCHANGED tab,
         call[c].pc # "idle", SharedOK', UNCHANGED <<made, subscription, fetching, doubt>>,
         pc \in {"asking", "subscribing", "removing"}
           \/ (pc = "undoing" /\ call[c].pc = "posting")
  PROVE  TypeInv' /\ LabelInv'
<1> DEFINE k == [call[c] EXCEPT !.pc = pc]
<1>0. /\ c[1] \in Tabs /\ tab[c[1]] \in TabRecords /\ call[c] \in CallRecords
      /\ CallOK(call[c], made, subscription)
      /\ Told(c) # {} => c[1] \in doubt \/ LabelOK(tab[c[1]], call[c], subscription)
  BY CallFacts
<1>1. k \in CallRecords /\ k.pc = pc /\ k.endpoint = call[c].endpoint
  BY <1>0 DEF CallRecords
<1>2. call' = [call EXCEPT ![c] = k] /\ tab' = [tab EXCEPT ![c[1]] = tab[c[1]]]
  BY <1>0 DEF Goes, TypeInv
<1> HIDE DEF k
<1>3. CallOK(k, made', subscription')
  BY <1>0, <1>1 DEF CallOK
<1>4. Told(c) = {} \/ c[1] \in doubt' \/ LabelOK(tab[c[1]], k, subscription')
  BY <1>0, <1>1 DEF LabelOK
<1> QED
  BY <1>0, <1>1, <1>2, <1>3, <1>4, OneCall DEF NewSubscription

\* What a toggle reads and is clicked for keeps the types and the labels.
LEMMA ToggleKeeps ==
  ASSUME TypeInv, LabelInv, NEW b \in Tabs, CheckSubscribed(b) \/ HandleClick(b)
  PROVE  TypeInv' /\ LabelInv'
<1>0. /\ tab[b] \in TabRecords /\ call[Toggle(b)] \in CallRecords
      /\ Toggle(b) \in Callers /\ Toggle(b) # Left(b)
      /\ TabOK(tab[b], call[Toggle(b)]) /\ CallOK(call[Toggle(b)], made, subscription)
      /\ CallOK(call[Left(b)], made, subscription)
      /\ doubt \subseteq Tabs
  BY TabFacts
<1>1. UNCHANGED <<serverVars, token, pushVars, fetching, unheard>> /\ doubt' = doubt \ {b}
  BY DEF CheckSubscribed, HandleClick
<1>2. SharedOK' /\ UNCHANGED <<made, subscription, fetching>> /\ NewSubscription
  BY <1>0, <1>1, SharedKeeps DEF NewSubscription
<1>3. CASE CheckSubscribed(b)
  <2> DEFINE l == IF subscription # 0 THEN "on" ELSE "off"
             t == [tab[b] EXCEPT !.label = l]
  <2>1. tab' = [tab EXCEPT ![b] = t] /\ UNCHANGED call
    BY <1>3 DEF CheckSubscribed, TypeInv
  <2>2. tab[b].page = "home" /\ tab[b].ready = TRUE /\ call[Toggle(b)].pc = "idle"
    <3>1. tab[b].ready
      BY <1>3, Zenon DEF CheckSubscribed
    <3>2. tab[b].ready \in BOOLEAN
      BY <1>0 DEF TabRecords
    <3>3. tab[b].ready = TRUE
      BY <3>1, <3>2, Zenon
    <3> QED
      BY <1>3, <3>3 DEF CheckSubscribed
  <2>3. l \in {"on", "off"} /\ (l = "on" <=> subscription # 0)
    OBVIOUS
  <2> HIDE DEF l
  <2>4. t \in TabRecords /\ t.page = "home" /\ t.ready = TRUE /\ t.label = l
    BY <1>0, <2>2, <2>3 DEF TabRecords, Answers
  <2> HIDE DEF t
  <2>5. TabOK(t, call[Toggle(b)]) /\ LabelOK(t, call[Toggle(b)], subscription)
    BY <2>2, <2>3, <2>4 DEF TabOK, LabelOK, Says
  <2> QED
    BY <1>1, <1>2, <2>1, <2>4, <2>5, TabAlone DEF TypeInv
<1>4. CASE HandleClick(b)
  <2>1. PICK pc \in {"asking", "removing"} : Goes(Toggle(b), pc)
    BY <1>4 DEF HandleClick
  <2> DEFINE k == [call[Toggle(b)] EXCEPT !.pc = pc]
  <2>2. k \in CallRecords /\ k.pc = pc /\ k.endpoint = call[Toggle(b)].endpoint
    BY <1>0 DEF CallRecords, Places
  <2>3. call' = [call EXCEPT ![Toggle(b)] = k] /\ UNCHANGED tab /\ tab[b].label # "unknown"
    BY <1>4, <2>1 DEF Goes, HandleClick, TypeInv
  <2> HIDE DEF k
  <2>4. CallOK(k, made, subscription) /\ TabOK(tab[b], k) /\ LabelOK(tab[b], k, subscription)
    BY <1>0, <2>2, <2>3 DEF CallOK, TabOK, LabelOK, Says
  <2>5. /\ call' \in [Callers -> CallRecords] /\ tab' \in [Tabs -> TabRecords]
        /\ call'[Toggle(b)] = k /\ call'[Left(b)] = call[Left(b)]
        /\ \A d \in Callers \ {Toggle(b), Left(b)} : call'[d] = call[d]
        /\ \A d \in Tabs \ {b} : tab'[d] = tab[d]
        /\ fetching' \in [Tabs -> 0..NoFetch]
    BY <1>0, <1>1, <2>2, <2>3, CallersOK DEF TypeInv
  <2> QED
    BY <1>0, <1>1, <1>2, <2>3, <2>4, <2>5, OneTab
<1> QED
  BY <1>3, <1>4

\* What the user answers keeps the types and the labels.
LEMMA AskKeeps ==
  ASSUME TypeInv, LabelInv, NEW c \in Callers, Ask(c) \/ SubscribeThrows(c)
  PROVE  TypeInv' /\ LabelInv'
<1>1. /\ UNCHANGED <<serverVars, token, made, subscription, fetching, unheard>>
      /\ call[c].pc \in {"asking", "subscribing"}
      /\ permission' \in {"default", "granted", "denied"}
      /\ permission = "granted" => permission' = "granted"
      /\ doubt \subseteq doubt' /\ doubt' \subseteq doubt \cup Told(c)
  BY DEF Ask, SubscribeThrows, OffUnseen, pushVars, ghosts, TypeInv, SharedOK
<1>2. Told(c) \subseteq Tabs
  BY CallFacts
<1>3. SharedOK' /\ NewSubscription
  BY <1>1, <1>2 DEF TypeInv, SharedOK, NewSubscription, serverVars
<1>4. CASE Ask(c) /\ permission' = "granted"
  BY <1>1, <1>3, <1>4, GoesKeeps DEF Ask, Places, ghosts
<1>5. CASE Ask(c) /\ permission' # "granted"
  <2>1. subscription = 0
    BY <1>1, <1>5 DEF TypeInv, SharedOK
  <2> QED
    BY <1>1, <1>3, <1>5, <2>1, EndsKeeps DEF Ask
<1>6. CASE SubscribeThrows(c)
  <2>1. subscription = 0 \/ Told(c) \subseteq doubt'
    BY <1>6 DEF SubscribeThrows, OffUnseen
  <2>2. Told(c) = {} \/ c[1] \in doubt' \/ subscription = 0
    BY <2>1, CallFacts
  <2> QED
    BY <1>1, <1>3, <1>6, <2>2, EndsKeeps DEF SubscribeThrows, OffUnseen
<1> QED
  BY <1>4, <1>5, <1>6

\* A subscription that is made or ends is one the labels of the others are in doubt of.
LEMMA ResubscribeKeeps ==
  ASSUME TypeInv, LabelInv, NEW c \in Callers, NEW e, Resubscribe(c, e),
         UNCHANGED <<serverVars, token, permission>>,
         \/ made' = made /\ e \in {0, subscription}
         \/ made' = made + 1 /\ e = made + 1 /\ made < MaxEndpoints /\ permission = "granted"
  PROVE  /\ SharedOK' /\ NewSubscription /\ subscription' = e
         /\ doubt \subseteq doubt'
         /\ subscription' = subscription \/ Labelled \ Told(c) \subseteq doubt'
<1>1. made \in Nat /\ made' \in 0..MaxEndpoints /\ e \in 0..made' /\ 1..made \subseteq 1..made'
  BY DeviceAssumption DEF TypeInv, SharedOK
<1>2. subscription' = e /\ unheard' \subseteq unheard /\ doubt \subseteq doubt'
      /\ doubt' \subseteq doubt \cup Labelled
  BY DEF Resubscribe
<1>3. doubt' \subseteq Tabs
  BY <1>2 DEF TypeInv, SharedOK, Labelled
<1>4. e # 0 => permission = "granted"
  BY DEF TypeInv, SharedOK
<1>5. SharedOK'
  BY <1>1, <1>2, <1>3, <1>4 DEF TypeInv, SharedOK, serverVars
<1> QED
  BY <1>2, <1>5 DEF Resubscribe, NewSubscription

\* Subscribing, and unsubscribing up to the DELETE, keep the types and the labels.
LEMMA SubscriptionKeeps ==
  ASSUME TypeInv, LabelInv, NEW c \in Callers, Subscribe(c) \/ Unsubscribe(c) \/ Undo(c)
  PROVE  TypeInv' /\ LabelInv'
<1>0. /\ c[1] \in Tabs /\ tab[c[1]] \in TabRecords /\ call[c] \in CallRecords
      /\ CallOK(call[c], made, subscription)
      /\ Told(c) # {} => c[1] \in doubt \/ LabelOK(tab[c[1]], call[c], subscription)
      /\ token \in 0..MaxTokens /\ made \in 0..MaxEndpoints /\ subscription \in 0..made
      /\ MaxEndpoints \in Nat
  BY CallFacts, DeviceAssumption DEF TypeInv, SharedOK
<1>1. ASSUME NEW pc \in {"posting", "deleting"}, NEW e \in 1..made',
             call' = [call EXCEPT ![c] = [pc |-> pc, sent |-> token, endpoint |-> e]],
             UNCHANGED <<tab, fetching>>, call[c].pc # "idle",
             SharedOK', NewSubscription, doubt \subseteq doubt',
             subscription' = subscription \/ Labelled \ Told(c) \subseteq doubt',
             subscription' = IF pc = "posting" THEN e ELSE 0
      PROVE  TypeInv' /\ LabelInv'
  <2> DEFINE k == [pc |-> pc, sent |-> token, endpoint |-> e]
  <2>1. made' \in 0..MaxEndpoints
    BY <1>1 DEF SharedOK
  <2>2. /\ k \in CallRecords /\ k.pc = pc /\ k.endpoint = e
        /\ call' = [call EXCEPT ![c] = k] /\ tab' = [tab EXCEPT ![c[1]] = tab[c[1]]]
    BY <1>0, <1>1, <2>1 DEF CallRecords, Places, TypeInv
  <2> HIDE DEF k
  <2>3. CallOK(k, made', subscription') /\ LabelOK(tab[c[1]], k, subscription')
    BY <1>0, <1>1, <2>1, <2>2 DEF CallOK, LabelOK
  <2> QED
    BY <1>0, <1>1, <2>2, <2>3, OneCall
<1>2. CASE Subscribe(c)
  <2> DEFINE e == IF subscription # 0 THEN subscription ELSE made + 1
  <2>1. /\ Resubscribe(c, e) /\ UNCHANGED <<serverVars, token, permission, tab, fetching>>
        /\ call' = [call EXCEPT ![c] = [pc |-> "posting", sent |-> token, endpoint |-> e]]
        /\ call[c].pc # "idle"
        /\ made' = IF subscription # 0 THEN made ELSE made + 1
    BY <1>2 DEF Subscribe
  <2>2. \/ made' = made /\ e \in {0, subscription}
        \/ made' = made + 1 /\ e = made + 1 /\ made < MaxEndpoints /\ permission = "granted"
    BY <1>2, <2>1 DEF Subscribe
  <2>3. e \in 1..made'
    BY <1>0, <2>1
  <2> HIDE DEF e
  <2> QED
    BY <1>1, <2>1, <2>2, <2>3, ResubscribeKeeps
<1>3. CASE Unsubscribe(c) /\ subscription # 0
  <2>1. /\ Resubscribe(c, 0) /\ UNCHANGED <<serverVars, token, permission, tab, fetching, made>>
        /\ call' = [call EXCEPT ![c] = [pc |-> "deleting", sent |-> token, endpoint |-> subscription]]
        /\ call[c].pc # "idle"
    BY <1>3 DEF Unsubscribe
  <2>2. subscription \in 1..made'
    BY <1>0, <1>3, <2>1
  <2> QED
    BY <1>1, <2>1, <2>2, ResubscribeKeeps
<1>4. CASE Undo(c) \/ (Unsubscribe(c) /\ subscription = 0)
  <2>1. PICK e \in {0, subscription} :
          /\ Resubscribe(c, e) /\ Ends(c, "off")
          /\ e = 0 \/ (call[c].pc = "undoing" /\ call[c].endpoint # subscription)
    BY <1>4 DEF Undo, Unsubscribe
  <2>2. UNCHANGED <<serverVars, token, permission, made, fetching>> /\ call[c].pc # "idle"
    BY <1>4 DEF Undo, Unsubscribe
  <2>3. /\ SharedOK' /\ NewSubscription /\ subscription' = e /\ doubt \subseteq doubt'
        /\ subscription' = subscription \/ Labelled \ Told(c) \subseteq doubt'
    BY <2>1, <2>2, ResubscribeKeeps
  <2>4. Told(c) = {} \/ c[1] \in doubt' \/ subscription' = 0
    <3>1. Told(c) # {} => tab[c[1]].page = "home"
      BY CallFacts
    <3> QED
      BY <1>0, <2>1, <2>3, <3>1 DEF LabelOK
  <2> QED
    BY <2>1, <2>2, <2>3, <2>4, EndsKeeps
<1> QED
  BY <1>2, <1>3, <1>4 DEF Undo, Unsubscribe

\* Answers to what a call sent, their loss and what throws keep the types and the labels.
LEMMA AnswerKeeps ==
  ASSUME TypeInv, LabelInv, NEW c \in Callers,
         \/ Posted(c) \/ PostRefused(c) \/ PostLost(c) \/ UndoThrows(c)
         \/ UnsubscribeThrows(c) \/ Deleted(c) \/ DeleteLost(c)
  PROVE  TypeInv' /\ LabelInv'
<1>0. /\ c[1] \in Tabs /\ tab[c[1]] \in TabRecords /\ call[c] \in CallRecords
      /\ CallOK(call[c], made, subscription)
      /\ Told(c) # {} => c[1] \in doubt \/ LabelOK(tab[c[1]], call[c], subscription)
      /\ Told(c) # {} => tab[c[1]].page = "home" /\ Told(c) = {c[1]}
      /\ doubt \subseteq Tabs
  BY CallFacts
<1>1. /\ UNCHANGED <<issued, valid, sending, pushVars, fetching>>
      /\ store' = store \/ store' = store \cup {call[c].endpoint} \/ store' = store \ {call[c].endpoint}
      /\ store' \subseteq store \/ call[c].pc = "posting"
      /\ unheard' \subseteq unheard \cup ({subscription} \ {0})
      /\ doubt \subseteq doubt' /\ doubt' \subseteq doubt \cup Told(c)
      /\ token' \in {0, token}
      /\ call[c].pc # "idle"
  <2>1. Posted(c) \/ PostRefused(c) \/ Deleted(c) \/ DeleteLost(c) \/ UnsubscribeThrows(c) => unheard' = unheard
    BY DEF Posted, PostRefused, Deleted, DeleteLost, UnsubscribeThrows, ghosts
  <2>2. PostLost(c) \/ UndoThrows(c) => unheard' \subseteq unheard \cup ({subscription} \ {0})
    BY <1>0 DEF PostLost, UndoThrows, Untold, CallOK
  <2> QED
    BY <2>1, <2>2
    DEF Posted, PostRefused, PostLost, UndoThrows, UnsubscribeThrows, Deleted, DeleteLost,
        Refused, OffUnseen, serverVars, ghosts
<1>2. SharedOK' /\ NewSubscription /\ UNCHANGED <<made, subscription, fetching>>
  <2>1. store' \subseteq 1..made
    <3>1. call[c].pc = "posting" => call[c].endpoint \in 1..made
      BY <1>0, DeviceAssumption DEF TypeInv, SharedOK, CallOK
    <3>2. store \subseteq 1..made
      BY DEF TypeInv, SharedOK
    <3> QED
      BY <1>1, <3>1, <3>2
  <2>2. unheard' \subseteq Endpoints
    BY <1>1, DeviceAssumption DEF TypeInv, SharedOK, Endpoints
  <2>3. doubt' \subseteq Tabs
    BY <1>0, <1>1
  <2>4. token' \in 0..issued
    BY <1>1, DeviceAssumption DEF TypeInv, SharedOK
  <2> QED
    BY <1>1, <2>1, <2>2, <2>3, <2>4 DEF TypeInv, SharedOK, NewSubscription, pushVars
<1>3. ASSUME NEW label \in {"on", "off"}, Ends(c, label),
             Told(c) = {} \/ c[1] \in doubt' \/ (label = "on" <=> subscription # 0)
      PROVE  TypeInv' /\ LabelInv'
  BY <1>1, <1>2, <1>3, EndsKeeps
<1>4. CASE Posted(c) \/ (Deleted(c) /\ Ends(c, "off"))
  <2>1. PICK label \in {"on", "off"} :
          /\ Ends(c, label)
          /\ label = "on" => call[c].pc = "posting"
          /\ label = "off" => call[c].pc = "deleting"
    BY <1>4 DEF Posted, Deleted
  <2>2. Told(c) = {} \/ c[1] \in doubt' \/ (label = "on" <=> subscription # 0)
    <3>1. CASE Told(c) # {} /\ c[1] \notin doubt'
      <4>1. LabelOK(tab[c[1]], call[c], subscription) /\ tab[c[1]].page = "home"
        BY <1>0, <1>1, <3>1
      <4> QED
        BY <1>0, <2>1, <4>1 DEF LabelOK, CallOK
    <3> QED
      BY <3>1
  <2> QED
    BY <1>3, <2>1, <2>2
<1>5. CASE PostLost(c) \/ UndoThrows(c)
  <2>1. OffUnseen(c)
    BY <1>5 DEF PostLost, UndoThrows
  <2>2. Told(c) = {} \/ c[1] \in doubt' \/ subscription = 0
    BY <1>0, <2>1 DEF OffUnseen
  <2> QED
    BY <1>3, <2>1, <2>2 DEF OffUnseen
<1>6. CASE UnsubscribeThrows(c)
  BY <1>3, <1>6 DEF UnsubscribeThrows
<1>7. CASE DeleteLost(c)
  <2>1. Told(c) = {} \/ c[1] \in doubt'
    BY <1>0, <1>7 DEF DeleteLost
  <2> QED
    BY <1>3, <1>7, <2>1 DEF DeleteLost
<1>8. CASE Deleted(c) /\ ~Ends(c, "off")
  <2>1. tab' = [tab EXCEPT ![c[1]] = Page("leaving")] /\ call' = [call EXCEPT ![c] = NoCall]
    BY <1>8 DEF Deleted, Refused, Leaving
  <2>2. CallOK(NoCall, made', subscription') /\ NoCall \in CallRecords /\ Page("leaving") \in TabRecords
    <3>1. made' \in Nat
      BY <1>2, DeviceAssumption DEF SharedOK
    <3> QED
      BY <3>1, BlankOK DEF Pages
  <2> QED
    BY <1>0, <1>1, <1>2, <2>1, <2>2, OneCall
<1>9. CASE PostRefused(c) /\ UNCHANGED tab
  <2>1. Goes(c, "undoing") /\ call[c].pc = "posting" /\ UNCHANGED doubt
    BY <1>9 DEF PostRefused, ghosts
  <2> QED
    BY <1>1, <1>2, <1>9, <2>1, GoesKeeps DEF Places
<1>10. CASE PostRefused(c) /\ tab' # tab
  <2> DEFINE k == [call[c] EXCEPT !.pc = "undoing"]
  <2>1. tab' = [tab EXCEPT ![c[1]] = Page("leaving")] /\ call[c].pc = "posting"
    BY <1>10 DEF PostRefused, Refused, Leaving
  <2>2. k \in CallRecords /\ k.pc = "undoing" /\ k.endpoint = call[c].endpoint
    BY <1>0 DEF CallRecords, Places
  <2>3. call' = [call EXCEPT ![c] = k]
    BY <1>10 DEF PostRefused, Goes, TypeInv
  <2> HIDE DEF k
  <2>4. CallOK(k, made', subscription') /\ Page("leaving") \in TabRecords
    BY <1>0, <1>2, <2>1, <2>2, BlankOK DEF CallOK, Pages
  <2> QED
    BY <1>0, <1>1, <1>2, <2>1, <2>2, <2>3, <2>4, OneCall
<1> QED
  BY <1>4, <1>5, <1>6, <1>7, <1>8, <1>9, <1>10

-----------------------------------------------------------------------------
(* The world around                                                        *)

\* Tokens that expire, permissions that change and notifications keep the types and the
\* labels.
LEMMA WorldKeeps ==
  ASSUME TypeInv, LabelInv,
         \/ \E k \in valid : Expire(k)
         \/ \E p \in {"default", "granted", "denied"} : ChangePermission(p)
         \/ NotifyAll \/ \E e \in 1..MaxEndpoints : SendOne(e) \/ SendOneFails(e)
         \/ NotificationClick \/ UNCHANGED vars
  PROVE  TypeInv' /\ LabelInv'
<1>1. ASSUME NEW k \in valid, Expire(k) PROVE TypeInv' /\ LabelInv'
  <2>1. /\ valid' \subseteq valid
        /\ UNCHANGED <<issued, store, sending, token, permission, made, subscription, tab, call,
                       fetching, unheard, doubt>>
    BY <1>1 DEF Expire, pushVars, ghosts
  <2> QED
    BY <2>1 DEF TypeInv, SharedOK, LabelInv
<1>2. ASSUME NEW p \in {"default", "granted", "denied"}, ChangePermission(p)
      PROVE  TypeInv' /\ LabelInv'
  <2>1. /\ UNCHANGED <<issued, valid, store, sending, token, made, tab, call, fetching>>
        /\ permission' = p /\ subscription' = IF p = "granted" THEN subscription ELSE 0
        /\ unheard' \subseteq unheard
        /\ doubt' = IF subscription' = subscription THEN doubt ELSE doubt \cup Labelled
    BY <1>2 DEF ChangePermission, serverVars
  <2>2. SharedOK'
    <3>1. subscription' \in 0..made
      BY <2>1, DeviceAssumption DEF TypeInv, SharedOK
    <3> QED
      BY <2>1, <3>1 DEF TypeInv, SharedOK, Labelled
  <2>3. \A c \in Callers : CallOK(call[c], made, subscription')
    BY <2>1 DEF TypeInv, CallOK
  <2>4. TypeInv'
    BY <2>1, <2>2, <2>3 DEF TypeInv
  <2>5. ASSUME NEW b \in Tabs \ doubt' PROVE LabelOK(tab[b], call[Toggle(b)], subscription')
    <3>1. TabOK(tab[b], call[Toggle(b)]) /\ LabelOK(tab[b], call[Toggle(b)], subscription)
      BY <2>1, <2>5 DEF TypeInv, LabelInv
    <3>2. subscription' = subscription \/ tab[b].label = "unknown"
      BY <2>1, <2>5 DEF Labelled
    <3> QED
      BY <3>1, <3>2 DEF TabOK, LabelOK, Says
  <2> QED
    BY <2>1, <2>4, <2>5 DEF LabelInv
<1>3. ASSUME NotifyAll \/ \E e \in 1..MaxEndpoints : SendOne(e) \/ SendOneFails(e)
      PROVE  TypeInv' /\ LabelInv'
  <2>1. /\ UNCHANGED <<issued, valid, token, pushVars, tab, call, fetching, unheard, doubt>>
        /\ store' \subseteq store /\ sending' \subseteq sending \cup store
    BY <1>3 DEF NotifyAll, SendOne, SendOneFails, ghosts
  <2>2. sending' \subseteq Endpoints
    BY <2>1, DeviceAssumption DEF TypeInv, SharedOK, Endpoints
  <2>3. SharedOK'
    BY <2>1, <2>2 DEF TypeInv, SharedOK, pushVars
  <2> QED
    BY <2>1, <2>3 DEF TypeInv, LabelInv, pushVars
<1>4. CASE NotificationClick
  <2>1. PICK b \in Tabs : tab' = [tab EXCEPT ![b] = Page("home")] /\ tab[b].page = "closed"
    BY <1>4 DEF NotificationClick
  <2>2. UNCHANGED <<serverVars, token, pushVars, call, fetching, unheard, doubt>>
    BY <1>4 DEF NotificationClick, ghosts
  <2>3. SharedOK' /\ UNCHANGED <<made, subscription>>
    BY <2>2, SharedKeeps DEF TypeInv, SharedOK
  <2>4. call[Toggle(b)].pc = "idle"
    BY <2>1, TabFacts DEF TabOK, Says
  <2>5. /\ Page("home") \in TabRecords /\ TabOK(Page("home"), call[Toggle(b)])
        /\ LabelOK(Page("home"), call[Toggle(b)], subscription)
    BY <2>4, BlankOK DEF Pages, TabOK, LabelOK
  <2> QED
    BY <2>1, <2>2, <2>3, <2>5, TabAlone DEF TypeInv
<1>5. CASE UNCHANGED vars
  BY <1>5 DEF vars, serverVars, pushVars, ghosts, TypeInv, SharedOK, LabelInv
<1> QED
  BY <1>1, <1>2, <1>3, <1>4, <1>5

\* Every step keeps the types and the labels.
LEMMA StepKeeps ==
  ASSUME TypeInv, LabelInv, [Next]_vars
  PROVE  TypeInv' /\ LabelInv'
<1>1. ASSUME NEW b \in Tabs, Reload(b) \/ CloseTab(b) \/ Leave(b) PROVE TypeInv' /\ LabelInv'
  BY <1>1, NavigateKeeps DEF Reload, CloseTab, Leave, Pages
<1>2. ASSUME NEW b \in Tabs, TabNext(b) PROVE TypeInv' /\ LabelInv'
  BY <1>1, <1>2, SessionKeeps, VisitKeeps, ToggleKeeps DEF TabNext
<1>3. ASSUME NEW c \in Callers, CallNext(c) PROVE TypeInv' /\ LabelInv'
  BY <1>3, AskKeeps, SubscriptionKeeps, AnswerKeeps DEF CallNext
<1> QED
  BY <1>2, <1>3, WorldKeeps DEF Next

\* In the initial state no tab has done anything yet.
LEMMA InitKeeps == Init => TypeInv /\ LabelInv
<1> SUFFICES ASSUME Init PROVE TypeInv /\ LabelInv
  OBVIOUS
<1>1. 0 \in 0..MaxTokens /\ 0 \in 0..MaxEndpoints /\ NoFetch \in 0..NoFetch
  BY DeviceAssumption DEF NoFetch
<1>2. SharedOK
  BY <1>1 DEF Init, SharedOK
<1>3. /\ tab \in [Tabs -> TabRecords] /\ call \in [Callers -> CallRecords]
      /\ fetching \in [Tabs -> 0..NoFetch]
  BY <1>1, BlankOK DEF Init, Pages
<1>4. \A c \in Callers : CallOK(call[c], made, subscription)
  BY BlankOK DEF Init
<1>5. \A b \in Tabs : /\ TabOK(tab[b], call[Toggle(b)])
                      /\ LabelOK(tab[b], call[Toggle(b)], subscription)
  BY BlankOK, CallersOK DEF Init, Pages, TabOK, LabelOK
<1> QED
  BY <1>2, <1>3, <1>4, <1>5 DEF TypeInv, LabelInv

\* Every variable keeps to its values: no token, endpoint or answer is one that was never
\* issued, made or given, and there is no subscription without permission.
THEOREM DeviceTypeCorrect == Spec => []TypeOK
<1>1. TypeInv => TypeOK
  BY DEF TypeInv, SharedOK, CallOK, TypeOK, TabRecords, Pages, Answers
<1> QED
  BY <1>1, InitKeeps, StepKeeps, PTL DEF Spec

\* A toggle at rest tells the truth about the browser's subscription, whatever the tabs, the
\* browser's settings, calls left behind and lost answers did, unless one of them has put it
\* in doubt.
THEOREM LabelsHold == Spec => []LabelTrue
<1>1. TypeInv /\ LabelInv => LabelTrue
  BY DEF TypeInv, LabelInv, LabelTrue, LabelOK
<1> QED
  BY <1>1, InitKeeps, StepKeeps, PTL DEF Spec

-----------------------------------------------------------------------------
(* The server's record                                                     *)

\* The POST of an endpoint is on its way, or about to be undone.
Telling(k, e) == k.pc \in {"posting", "undoing"} /\ k.endpoint = e

\* A subscription that stays is still registered if neither the server nor the calls that
\* are about to tell it have lost it.
LEMMA StaysRegistered ==
  ASSUME Registered, subscription' = subscription,
         subscription \in store \cup unheard => subscription \in store' \cup unheard',
         \A c \in Callers : Telling(call[c], subscription) =>
           \/ subscription \in store' \cup unheard'
           \/ \E d \in Callers : Telling(call'[d], subscription)
  PROVE  Registered'
BY DEF Registered, Telling

\* The tabs keep the subscription registered.
LEMMA TabRegistered ==
  ASSUME TypeInv, LabelInv, Registered, NEW b \in Tabs, TabNext(b)
  PROVE  Registered'
<1>0. /\ Toggle(b) \in Callers /\ Left(b) \in Callers /\ Toggle(b) # Left(b)
      /\ call \in [Callers -> CallRecords]
  BY TabFacts DEF TypeInv
<1>1. CASE \/ HandleSubmit(b) \/ SignedIn(b) \/ SignInFailed(b) \/ RequireAuth(b)
           \/ Fetch(b) \/ FetchAnswered(b) \/ Logout(b) \/ CheckSubscribed(b)
  <2>1. UNCHANGED <<subscription, store, unheard, call>>
    BY <1>1
    DEF HandleSubmit, SignedIn, SignInFailed, RequireAuth, Fetch, FetchAnswered, Logout,
        CheckSubscribed, serverVars, pushVars, ghosts
  <2> QED
    BY <2>1 DEF Registered
<1>2. CASE HandleClick(b)
  <2>1. /\ UNCHANGED <<subscription, store, unheard>> /\ call[Toggle(b)].pc = "idle"
        /\ \A c \in Callers \ {Toggle(b)} : call'[c] = call[c]
    BY <1>2 DEF HandleClick, Goes, serverVars, pushVars, TypeInv
  <2> QED
    BY <2>1, StaysRegistered DEF Telling
<1>3. ASSUME NEW page \in Pages, Navigate(b, page) PROVE Registered'
  <2>1. CallOK(call[Toggle(b)], made, subscription) /\ CallOK(call[Left(b)], made, subscription)
    BY TabFacts
  <2>2. subscription' = subscription /\ unheard \subseteq unheard'
    BY <1>3 DEF Navigate, Untold, pushVars
  <2>3. subscription \in store => subscription \in store'
    BY <1>3, <2>1 DEF Navigate, CallOK
  <2>4. \A c \in {Toggle(b), Left(b)} : Telling(call[c], subscription) => subscription \in unheard'
    BY <1>3 DEF Navigate, Untold, Telling
  <2>5. \A c \in Callers \ {Toggle(b), Left(b)} : call'[c] = call[c]
    BY <1>3 DEF Navigate, TypeInv
  <2> QED
    BY <2>2, <2>3, <2>4, <2>5, StaysRegistered
<1>4. CASE Visit(b)
  <2>1. UNCHANGED <<subscription, store, unheard>>
    BY <1>4 DEF Visit, serverVars, pushVars
  <2>2. CASE UNCHANGED call
    BY <2>1, <2>2 DEF Registered
  <2>3. CASE call' = [call EXCEPT ![Toggle(b)] = NoCall, ![Left(b)] = call[Toggle(b)]]
             /\ call[Left(b)].pc = "idle"
    <3>1. /\ call'[Left(b)] = call[Toggle(b)]
          /\ \A c \in Callers \ {Toggle(b), Left(b)} : call'[c] = call[c]
      BY <1>0, <2>3
    <3>2. \A c \in Callers : Telling(call[c], subscription) =>
            \E d \in Callers : Telling(call'[d], subscription)
      BY <1>0, <2>3, <3>1 DEF Telling
    <3> QED
      BY <2>1, <3>2, StaysRegistered
  <2> QED
    BY <1>4, <2>2, <2>3 DEF Visit
<1> QED
  BY <1>1, <1>2, <1>3, <1>4 DEF TabNext, Reload, CloseTab, Leave, Pages

\* The calls keep the subscription registered.
LEMMA CallRegistered ==
  ASSUME TypeInv, LabelInv, Registered, NEW c \in Callers, CallNext(c)
  PROVE  Registered'
<1>0. call \in [Callers -> CallRecords] /\ CallOK(call[c], made, subscription)
      /\ call[c] \in CallRecords
  BY CallFacts DEF TypeInv
<1>1. \A d \in Callers \ {c} : call'[d] = call[d]
  BY <1>0
  DEF CallNext, Ask, Subscribe, SubscribeThrows, Posted, PostRefused, PostLost, Undo, UndoThrows,
      Unsubscribe, UnsubscribeThrows, Deleted, DeleteLost, OffUnseen, Ends, Goes
<1>2. CASE Ask(c) \/ SubscribeThrows(c) \/ UnsubscribeThrows(c)
  <2>1. UNCHANGED <<subscription, store, unheard>> /\ ~Telling(call[c], subscription)
    BY <1>2 DEF Ask, SubscribeThrows, UnsubscribeThrows, Telling, serverVars, pushVars, ghosts
  <2> QED
    BY <1>1, <2>1, StaysRegistered
<1>3. CASE Subscribe(c)
  <2>1. Telling(call'[c], subscription')
    BY <1>0, <1>3 DEF Subscribe, Resubscribe, Telling
  <2> QED
    BY <2>1 DEF Registered, Telling
<1>4. CASE Undo(c) \/ Unsubscribe(c)
  <2>1. UNCHANGED store
    BY <1>4 DEF Undo, Unsubscribe, serverVars
  <2>2. \/ subscription' = 0
        \/ /\ subscription' = subscription /\ unheard' = unheard \cap {subscription}
           /\ ~Telling(call[c], subscription)
    BY <1>4 DEF Undo, Unsubscribe, Resubscribe, Telling
  <2>3. CASE subscription' = 0
    BY <2>3 DEF Registered
  <2> QED
    BY <1>1, <2>1, <2>2, <2>3, StaysRegistered
<1>5. CASE Posted(c) \/ PostLost(c) \/ UndoThrows(c)
  <2>1. /\ subscription' = subscription /\ unheard \subseteq unheard' /\ store \subseteq store'
        /\ Telling(call[c], subscription) => subscription \in store' \cup unheard'
    BY <1>5 DEF Posted, PostLost, UndoThrows, Untold, Telling, serverVars, pushVars, ghosts
  <2> QED
    BY <1>1, <2>1, StaysRegistered
<1>6. CASE PostRefused(c)
  <2>1. UNCHANGED <<subscription, store, unheard>>
    BY <1>6 DEF PostRefused, serverVars, pushVars, ghosts
  <2>2. Telling(call[c], subscription) => Telling(call'[c], subscription)
    BY <1>0, <1>6 DEF PostRefused, Goes, CallRecords, Telling
  <2> QED
    BY <1>1, <2>1, <2>2, StaysRegistered
<1>7. CASE Deleted(c) \/ DeleteLost(c)
  <2>1. /\ subscription' = subscription /\ unheard' = unheard
        /\ store' = store \/ store' = store \ {call[c].endpoint}
        /\ call[c].pc = "deleting"
    BY <1>7 DEF Deleted, DeleteLost, serverVars, pushVars, ghosts
  <2>2. ~Telling(call[c], subscription) /\ (subscription \in store => subscription \in store')
    BY <1>0, <2>1 DEF CallOK, Telling
  <2> QED
    BY <1>1, <2>1, <2>2, StaysRegistered
<1> QED
  BY <1>2, <1>3, <1>4, <1>5, <1>6, <1>7 DEF CallNext

\* Every step keeps the subscription registered.
LEMMA StepRegistered ==
  ASSUME TypeInv, LabelInv, Registered, [Next]_vars
  PROVE  Registered'
<1>1. CASE \/ \E k \in valid : Expire(k)
           \/ NotifyAll \/ \E e \in 1..MaxEndpoints : SendOne(e) \/ SendOneFails(e)
           \/ NotificationClick \/ UNCHANGED vars
  <2>1. UNCHANGED <<subscription, unheard, call>>
    BY <1>1 DEF Expire, NotifyAll, SendOne, SendOneFails, NotificationClick, vars, pushVars, ghosts
  <2>2. subscription \in store => subscription \in store'
    BY <1>1 DEF Expire, NotifyAll, SendOne, SendOneFails, NotificationClick, vars, serverVars
  <2> QED
    BY <2>1, <2>2, StaysRegistered
<1>2. ASSUME NEW p, ChangePermission(p) PROVE Registered'
  <2>1. UNCHANGED <<store, call>> /\ subscription' \in {0, subscription}
        /\ unheard' = unheard \cap {subscription'}
    BY <1>2 DEF ChangePermission, serverVars
  <2> QED
    BY <2>1 DEF Registered
<1> QED
  BY <1>1, <1>2, TabRegistered, CallRegistered DEF Next

\* The browser's subscription is on the server's record, on its way there or to its end, or
\* one whose POST was never heard of or whose undo failed: no other interleaving of tabs,
\* calls left behind, lost answers and dead endpoints leaves a browser that is subscribed
\* and that nobody will send to.
THEOREM RegisteredHolds == Spec => []Registered
<1>1. Init => Registered
  BY DEF Init, Registered
<1> QED
  BY <1>1, InitKeeps, StepKeeps, StepRegistered, PTL DEF Spec
=============================================================================
