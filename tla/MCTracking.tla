----------------------------- MODULE MCTracking -----------------------------
(* Instances of Tracking for TLC.                                          *)
EXTENDS Tracking, TLC

CONSTANTS aapl, bbca, spy, r1, r2, a1

TwoTickers == {aapl, bbca}
ThreeTickers == {aapl, bbca, spy}
TwoRequests == {r1, r2}
NoAlerts == {}
OneAlert == {a1}

\* Tickers, request slots and alert ids are interchangeable in every definition.
Symmetry == Permutations(Tickers) \cup Permutations(Reqs) \cup Permutations(Alerts)
=============================================================================
