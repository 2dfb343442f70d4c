------------------------------ MODULE MCFanout ------------------------------
(* Instances of Fanout for TLC.                                            *)
EXTENDS Fanout, TLC

CONSTANTS c1, c2, c3, s1, s2

TwoClients == {c1, c2}
ThreeClients == {c1, c2, c3}
OneSender == {s1}
TwoSenders == {s1, s2}

Symmetry == Permutations(Clients) \cup Permutations(Senders)
=============================================================================
