---------------------------- MODULE MCExchange ----------------------------
(* A rate limit, a server error that lasts, and a refusal that is not     *)
(* retried.                                                                *)
EXTENDS Exchange, TLC

MCInjections == {<<429, 2>>, <<401, 1>>}
=============================================================================
