------------------------------- MODULE MCFeed -------------------------------
(* One holding in rupiah and one watched ticker, two prices, two lots. *)
EXTENDS Feed

MCLots == {[quantity |-> 1, avg_cost |-> 1], [quantity |-> 2, avg_cost |-> 2]}

MCPrevClose == [t \in Tickers |-> IF t \in Watched THEN 2 ELSE 0]
=============================================================================
