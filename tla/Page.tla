-------------------------------- MODULE Page --------------------------------
(***************************************************************************)
(* What the models of the page have in common: the tickers it is about,    *)
(* and Array.prototype.filter, given the positions it keeps.               *)
(***************************************************************************)
EXTENDS Naturals, FiniteSets

CONSTANT Tickers

\* The k-th number of I, from the lowest.
Nth(I, k) == CHOOSE i \in I : Cardinality({j \in I : j <= i}) = k
Keep(s, I) == [k \in 1..Cardinality(I) |-> s[Nth(I, k)]]
=============================================================================
