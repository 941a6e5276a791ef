------------------------------- MODULE MCSeries -------------------------------
(* Instances of PriceSeries for TLC.                                        *)
EXTENDS PriceSeries, TLC

CONSTANTS e1, e2

Symmetry == Permutations({e1, e2})
=============================================================================
