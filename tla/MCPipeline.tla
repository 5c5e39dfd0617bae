----------------------------- MODULE MCPipeline -----------------------------
(* The chains of one to three middleware of every kind. *)
EXTENDS Pipeline

AllKinds == {"observer", "gate", "cache", "breaker", "retry"}
=============================================================================
