------------------------------- MODULE MCLatest -------------------------------
(* Instances of LatestPrice for TLC.                                         *)
EXTENDS LatestPrice, TLC

Symmetry == Permutations(Exchanges)
=============================================================================
