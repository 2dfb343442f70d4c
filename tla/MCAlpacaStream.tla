--------------------------- MODULE MCAlpacaStream ---------------------------
(* Instances of AlpacaStream for TLC.                                      *)
EXTENDS AlpacaStream

CONSTANTS aapl, spy, k1, k2

TwoTickers == {aapl, spy}
TwoCalls == {k1, k2}
=============================================================================
