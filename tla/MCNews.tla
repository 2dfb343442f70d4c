------------------------------- MODULE MCNews -------------------------------
(* Instances of News for TLC.                                              *)
EXTENDS News

CONSTANTS aapl, spy, poller, l1

TwoTickers == {aapl, spy}
OneLoad == {l1}

\* The first article is about aapl alone, the later ones about both: with one item per
\* ticker the second pushes the first out.
Mixed == [a \in Articles |-> IF a = 1 THEN {aapl} ELSE Tickers]
=============================================================================
