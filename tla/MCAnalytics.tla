---------------------------- MODULE MCAnalytics ----------------------------
(* Two holdings in dollars, and one in rupiah that loses so little of its  *)
(* cost that the percentage is rounded to zero.                            *)
EXTENDS Analytics, TLC

CONSTANTS u1, u2, r1

MCLot == u1 :> [quantity |-> 1, avg_cost |-> 1] @@ u2 :> [quantity |-> 2, avg_cost |-> 2]
         @@ r1 :> [quantity |-> 2, avg_cost |-> 3000000]
MCPrices == u1 :> {1, 2} @@ u2 :> {1} @@ r1 :> {2999999}
=============================================================================
