---------------------------- MODULE MCNewsPanel ----------------------------
(* Two articles, one of them of both tickers, and prices that hardly move. *)
EXTENDS NewsPanel, TLC

CONSTANTS t1, t2

\* With the first published a tick can come before it and another after; of the second all
\* ticks can be earlier.
MCSymbolsOf == 2 :> {t1} @@ 3 :> {t1, t2}
MCPriceAt == 1 :> 3000 @@ 2 :> 3001 @@ 3 :> 2990
MCTickSets == {{}, {t1, t2}}
=============================================================================
