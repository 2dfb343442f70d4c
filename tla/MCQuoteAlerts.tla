---------------------------- MODULE MCQuoteAlerts ----------------------------
(* Instances of QuoteAlerts for TLC.                                       *)
EXTENDS QuoteAlerts, TLC

CONSTANTS k1, k2, a1, a2

TwoTasks == {k1, k2}
OneAlert == {a1}
TwoAlerts == {a1, a2}

ThreePrices == 1..3
\* Prices can be below, at and above every target.
MiddleTarget == [a \in Alerts |-> 2]
BothFeeds == {"yahoo", "alpaca"}
AlpacaOnly == {"alpaca"}

Symmetry == Permutations(Tasks) \cup Permutations(Alerts)
=============================================================================
