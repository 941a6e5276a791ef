------------------------------ MODULE MCService ------------------------------
(***************************************************************************)
(* Instances of ExchangeService for TLC.                                   *)
(***************************************************************************)
EXTENDS ExchangeService, TLC

Symmetry == Permutations(Handlers) \cup Permutations(Observers)
=============================================================================
