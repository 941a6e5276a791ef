------------------------------ MODULE MCAdapter ------------------------------
(***************************************************************************)
(* Instances of ExchangeAdapter for TLC; its bounds are its only constants.*)
(***************************************************************************)
EXTENDS ExchangeAdapter
=============================================================================
