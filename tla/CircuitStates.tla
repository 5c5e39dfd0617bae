---------------------------- MODULE CircuitStates ----------------------------
(***************************************************************************)
(* What circuit_breaker.py promises of one circuit per key, whatever the   *)
(* dictionaries behind it: the closed / open / half_open machine of the    *)
(* module's documentation (lines 8-22), for a client that makes one call   *)
(* at a time.                                                              *)
(***************************************************************************)
EXTENDS Integers

CONSTANTS Keys, FailureThreshold, ResetTimeout

VARIABLES
    circuit,    \* per key: failures in a row while closed, and the time it has been open
    calls       \* the keys with a call at the provider

Closed(n) == [failures |-> n, openFor |-> -1]
Open(age) == [failures |-> 0, openFor |-> age]

IsClosed(k) == circuit[k].openFor = -1
IsHalfOpen(k) == circuit[k].openFor = ResetTimeout

CircuitTypeOK ==
    /\ circuit \in [Keys -> {Closed(n) : n \in 0..FailureThreshold - 1}
                            \cup {Open(age) : age \in 0..ResetTimeout}]
    /\ calls \in SUBSET Keys

CircuitInit ==
    /\ circuit = [k \in Keys |-> Closed(0)]
    /\ calls = {}

\* A closed circuit lets a call through, and a half-open one its single trial.
Admit(k) ==
    /\ calls = {}
    /\ IsClosed(k) \/ IsHalfOpen(k)
    /\ calls' = {k}
    /\ UNCHANGED circuit

\* A success closes the circuit and resets its counter.
CallSucceeds(k) ==
    /\ k \in calls
    /\ calls' = {}
    /\ circuit' = [circuit EXCEPT ![k] = Closed(0)]

\* The threshold-th failure in a row opens the circuit; a failed trial opens
\* it for another reset_timeout.
CallFails(k) ==
    /\ k \in calls
    /\ calls' = {}
    /\ circuit' = [circuit EXCEPT ![k] =
                     IF IsClosed(k) /\ @.failures + 1 < FailureThreshold
                       THEN Closed(@.failures + 1)
                       ELSE Open(0)]

\* The call ends without saying anything about the provider.
CallIsHalted(k) ==
    /\ k \in calls
    /\ calls' = {}
    /\ UNCHANGED circuit

Reset(scope) ==
    /\ circuit' = [k \in Keys |-> IF k \in scope THEN Closed(0) ELSE circuit[k]]
    /\ UNCHANGED calls

\* Time passes: open circuits come closer to half_open.
TimePasses(scope) ==
    /\ \A k \in scope : ~IsClosed(k) /\ ~IsHalfOpen(k)
    /\ circuit' = [k \in Keys |-> IF k \in scope THEN Open(circuit[k].openFor + 1)
                                                 ELSE circuit[k]]
    /\ UNCHANGED calls

CircuitNext ==
    \/ \E k \in Keys :
          Admit(k) \/ CallSucceeds(k) \/ CallFails(k) \/ CallIsHalted(k)
    \/ \E scope \in SUBSET Keys : Reset(scope) \/ TimePasses(scope)

CircuitSpec == CircuitInit /\ [][CircuitNext]_<<circuit, calls>>
=============================================================================
