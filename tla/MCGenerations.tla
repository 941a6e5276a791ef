---------------------------- MODULE MCGenerations ----------------------------
(* Instances of PipelineGenerations for TLC.                                 *)
EXTENDS PipelineGenerations
=============================================================================
