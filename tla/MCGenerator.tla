----------------------------- MODULE MCGenerator -----------------------------
(***************************************************************************)
(* Instances of PriceGenerator for TLC: a base price of 10 units, changes  *)
(* of one unit, of the width of the band and beyond it.                    *)
(***************************************************************************)
EXTENDS PriceGenerator

MCChanges == {-15, -4, -1, 0, 1, 4, 15}
=============================================================================
