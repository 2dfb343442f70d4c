----------------------------- MODULE TrackedSet -----------------------------
(***************************************************************************)
(* What the portfolio and the watchlist promise their user, without any of *)
(* the steps a request takes: a ticker is owned, watched or neither, it is *)
(* never moved from owned straight to watched, and a price alert belongs   *)
(* to a ticker that was owned or watched when the alert was made.          *)
(*                                                                         *)
(* Requests that overlap on a ticker, fail or are cut off make its status  *)
(* unknown; it is known again when the ticker is at rest.                  *)
(***************************************************************************)
CONSTANTS Tickers, Alerts, None

VARIABLES status,   \* status[t]: the list ticker t is in
          owner     \* owner[a]: the ticker alert a is on, None when a is unused

vars == <<status, owner>>

Statuses == {"held", "watched", "none", "unknown"}

Init == /\ status = [t \in Tickers |-> "none"]
        /\ owner = [a \in Alerts |-> None]

\* Of these tickers the status is kept, lost or found again.
Drift(T) == /\ status' \in [Tickers -> Statuses]
            /\ \A t \in T : status'[t] = status[t] \/ "unknown" \in {status[t], status'[t]}

Moves(t, from, to) == /\ status[t] \in from /\ status'[t] = to
                      /\ Drift(Tickers \ {t}) /\ UNCHANGED owner

Buy(t) == Moves(t, {"watched", "none"}, "held")
Sell(t) == Moves(t, {"held"}, "none")
Watch(t) == Moves(t, {"none"}, "watched")
Unwatch(t) == Moves(t, {"watched"}, "none")

SetAlert(t, a) == /\ status[t] # "none"
                  /\ owner[a] = None
                  /\ owner' = [owner EXCEPT ![a] = t]
                  /\ Drift(Tickers)

DropAlert(a) == /\ owner[a] # None
                /\ owner' = [owner EXCEPT ![a] = None]
                /\ Drift(Tickers)

Disturbance == Drift(Tickers) /\ UNCHANGED owner

Next == \/ \E t \in Tickers : Buy(t) \/ Sell(t) \/ Watch(t) \/ Unwatch(t)
        \/ \E t \in Tickers, a \in Alerts : SetAlert(t, a)
        \/ \E a \in Alerts : DropAlert(a)
        \/ Disturbance

Spec == Init /\ [][Next]_vars
=============================================================================
