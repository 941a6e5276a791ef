----------------------------- MODULE MCPipeline -----------------------------
(***************************************************************************)
(* Instances of MarketPipeline for TLC: channels of capacity one, so that  *)
(* every stage can fill up, and few updates.                               *)
(***************************************************************************)
EXTENDS MarketPipeline

(* The second update of every exchange is malformed, the first and the     *)
(* second come without a timestamp.                                        *)
MCMalformed == Exchanges \X {2}
MCUnstamped == Exchanges \X {1, 2}
=============================================================================
