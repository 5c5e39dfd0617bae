----------------------------- MODULE MCBreaker -----------------------------
(* Instances of CircuitBreaker for TLC. *)
EXTENDS CircuitBreaker

\* reset(provider) for the provider of every key, or for one that has none of
\* them (the dictionaries are rebuilt all the same).
OwnOrOther == {Keys, {}}

ProviderPerKey == {{k} : k \in Keys}
=============================================================================
