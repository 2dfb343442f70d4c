---------------------------- MODULE MCDashboard ----------------------------
(* Small instances of the dashboard: tickers are alike, alerts are alike. *)
EXTENDS Dashboard, TLC

Symmetry == Permutations(Tickers) \cup Permutations(Alerts)
=============================================================================
