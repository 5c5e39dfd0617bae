---------------------------- MODULE MCTelemetry ----------------------------
(* Two buckets, and an answer with which after_response counts two retries *)
(* and a cache hit; one that has neither is a request that fails.          *)
EXTENDS Telemetry, TLC

MCBounds == <<2, 3>>

MCAnswers == {[cache_hit |-> TRUE, attempt |-> 2, input |-> 0, output |-> 0]}
=============================================================================
