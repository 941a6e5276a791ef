----------------------------- MODULE MCTestServer -----------------------------
(* Instances of TestExchangeServer for TLC.                                  *)
EXTENDS TestExchangeServer
=============================================================================
