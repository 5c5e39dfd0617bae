--------------------------- MODULE CircuitBreaker ---------------------------
(***************************************************************************)
(* middleware/circuit_breaker.py: one CircuitBreakerMiddleware shared by   *)
(* the threads of an application, with the management call reset() running *)
(* beside them.  The code takes no lock: a thread may be preempted between *)
(* any two of the dictionary operations and clock reads below, each of     *)
(* which is one action.                                                    *)
(*                                                                         *)
(* Time.  The code compares time.monotonic() - stamp with reset_timeout    *)
(* and never anything else, so a timestamp is kept as its age, which stops *)
(* counting at ResetTimeout.                                               *)
(***************************************************************************)
EXTENDS Integers, FiniteSets

CONSTANTS
    Threads,            \* threads that send requests through the middleware
    Keys,               \* (provider, model) pairs
    ProviderKeys,       \* the key sets reset(provider) can select
    FailureThreshold,   \* failure_threshold
    ResetTimeout,       \* reset_timeout, in ticks
    MaxFaults           \* bound: how many calls the provider may fail

ASSUME ConstructorAssumption ==
    /\ FailureThreshold \in Nat \ {0}
    /\ ResetTimeout \in Nat \ {0}
    /\ MaxFaults \in Nat
    /\ Threads # {}
    /\ ProviderKeys \subseteq SUBSET Keys

VARIABLES
    failures,   \* _failures; 0 stands for an absent key
    openSince,  \* _open_since, as an age; Absent stands for an absent key
    pc,         \* what each thread does next
    key,        \* the key of the thread's request
    opened,     \* local of _record_failure: the stamp it read, as an age
    count,      \* local of _record_failure: the incremented failure count
    stamp,      \* the clock value about to be stored, as an age
    admin,      \* the thread inside reset()
    faults,     \* the calls the provider may still fail before it recovers
    evidence    \* history: failures counted since the key was last untouched

vars == <<failures, openSince, pc, key, opened, count, stamp, admin, faults, evidence>>

locals == <<opened, count, stamp>>

Absent == -1
Age == 0..ResetTimeout
Stamp == Age \cup {Absent}

Recording == {"failed", "count", "write", "stamp", "store", "close"}
PC == {"idle", "guard", "calling", "probing"} \cup Recording

AdminIdle == [pc |-> "idle", scope |-> {}, copy |-> [k \in Keys |-> 0]]

Expired(age) == age = ResetTimeout

Min2(a, b) == IF a < b THEN a ELSE b

TypeOK ==
    /\ failures \in [Keys -> Nat]
    /\ openSince \in [Keys -> Stamp]
    /\ pc \in [Threads -> PC]
    /\ key \in [Threads -> Keys]
    /\ opened \in [Threads -> Stamp]
    /\ count \in [Threads -> Nat]
    /\ stamp \in [Threads -> Age]
    /\ admin \in [pc : {"idle", "clear", "rebindFailures", "copyOpen", "rebindOpen"},
                  scope : SUBSET Keys, copy : [Keys -> Int]]
    /\ admin.pc = "rebindFailures" => admin.copy \in [Keys -> Nat]
    /\ admin.pc = "rebindOpen" => admin.copy \in [Keys -> Stamp]
    /\ faults \in 0..MaxFaults
    /\ evidence \in [Keys -> Nat]

Init ==
    /\ failures = [k \in Keys |-> 0]
    /\ openSince = [k \in Keys |-> Absent]
    /\ pc = [t \in Threads |-> "idle"]
    /\ key \in [Threads -> Keys]
    /\ opened = [t \in Threads |-> Absent]
    /\ count = [t \in Threads |-> 0]
    /\ stamp = [t \in Threads |-> 0]
    /\ admin = AdminIdle
    /\ faults = MaxFaults
    /\ evidence = [k \in Keys |-> 0]

-----------------------------------------------------------------------------
(* A request: execute(), _guard_open_circuit(), the call, _record_*().      *)

Goto(t, label) == pc' = [pc EXCEPT ![t] = label]

\* execute() reads the state: a closed circuit lets the request through, any
\* other goes to _guard_open_circuit.
Enter(t, k) ==
    /\ pc[t] = "idle"
    /\ key' = [key EXCEPT ![t] = k]
    /\ Goto(t, IF openSince[k] = Absent THEN "calling" ELSE "guard")
    /\ UNCHANGED <<failures, openSince, locals, admin, faults, evidence>>

\* Rejected: the circuit is open, or was closed between the two reads, for
\* then the default of .get() is the current time and the elapsed time is 0.
Rejected(age) == age = Absent \/ ~Expired(age)

Guard_RestampOnReject(t) ==
    LET k == key[t] IN
    /\ pc[t] = "guard"
    /\ Goto(t, IF Rejected(openSince[k]) THEN "idle" ELSE "probing")
    /\ openSince' = [openSince EXCEPT ![k] = IF Rejected(@) THEN 0 ELSE @]
    /\ UNCHANGED <<failures, key, locals, admin, faults, evidence>>

\* _guard_open_circuit: reject (UAICircuitOpenError or the fallback response)
\* or let the half-open probe through.
Guard(t) ==
    /\ pc[t] = "guard"
    /\ Goto(t, IF Rejected(openSince[key[t]]) THEN "idle" ELSE "probing")
    /\ UNCHANGED <<failures, openSince, key, locals, admin, faults, evidence>>

InCall(t) == pc[t] \in {"calling", "probing"}

\* MiddlewareHalt from an inner middleware, or an empty stream: not recorded.
Unrecorded(t) ==
    /\ InCall(t)
    /\ Goto(t, "idle")
    /\ UNCHANGED <<failures, openSince, key, locals, admin, faults, evidence>>

Succeed_KeepCount(t) ==
    /\ InCall(t)
    /\ Goto(t, "close")
    /\ UNCHANGED <<failures, openSince, key, locals, admin, faults, evidence>>

\* A response, or the first chunk of a stream; _record_success drops the count.
Succeed(t) ==
    /\ InCall(t)
    /\ failures' = [failures EXCEPT ![key[t]] = 0]
    /\ Goto(t, "close")
    /\ UNCHANGED <<openSince, key, locals, admin, faults, evidence>>

\* None of these threads is in the middle of recording an outcome for key k.
Untouched(k, among) == \A u \in among : key[u] = k => pc[u] \notin Recording

\* _record_success then removes the stamp.  (The history starts again if
\* nobody else is recording and nobody counted in between.)
Close(t) ==
    LET k == key[t] IN
    /\ pc[t] = "close"
    /\ openSince' = [openSince EXCEPT ![k] = Absent]
    /\ Goto(t, "idle")
    /\ evidence' = [evidence EXCEPT ![k] =
                      IF /\ failures[k] = 0
                         /\ admin.pc = "idle"
                         /\ Untouched(k, Threads \ {t})
                      THEN 0 ELSE @]
    /\ UNCHANGED <<failures, key, locals, admin, faults>>

\* An exception leaves the call; _record_failure reads the stamp.
Fail(t) ==
    /\ InCall(t)
    /\ faults > 0
    /\ faults' = faults - 1
    /\ opened' = [opened EXCEPT ![t] = openSince[key[t]]]
    /\ Goto(t, "failed")
    /\ UNCHANGED <<failures, openSince, key, count, stamp, admin, evidence>>

\* The stamp is absent or younger than reset_timeout: count the failure.
NotHalfOpen(t) ==
    /\ pc[t] = "failed"
    /\ ~Expired(opened[t])
    /\ opened' = [opened EXCEPT ![t] = Absent]
    /\ Goto(t, "count")
    /\ UNCHANGED <<failures, openSince, key, count, stamp, admin, faults, evidence>>

\* The stamp it read has expired: drop the count, then stamp again.
Reopen(t) ==
    /\ pc[t] = "failed"
    /\ Expired(opened[t])
    /\ failures' = [failures EXCEPT ![key[t]] = 0]
    /\ opened' = [opened EXCEPT ![t] = Absent]
    /\ Goto(t, "stamp")
    /\ UNCHANGED <<openSince, key, count, stamp, admin, faults, evidence>>

CountRead_Decrement(t) ==
    LET k == key[t] IN
    /\ pc[t] = "count"
    /\ count' = [count EXCEPT ![t] = failures[k] - 1]
    /\ evidence' = [evidence EXCEPT ![k] = @ + 1]
    /\ Goto(t, "write")
    /\ UNCHANGED <<failures, openSince, key, opened, stamp, admin, faults>>

\* failures = self._failures.get(key, 0) + 1
CountRead(t) ==
    LET k == key[t] IN
    /\ pc[t] = "count"
    /\ count' = [count EXCEPT ![t] = failures[k] + 1]
    /\ evidence' = [evidence EXCEPT ![k] = @ + 1]
    /\ Goto(t, "write")
    /\ UNCHANGED <<failures, openSince, key, opened, stamp, admin, faults>>

\* The write, then the comparison `opens` of the local count with the threshold.
WriteThen(t, opens) ==
    /\ pc[t] = "write"
    /\ failures' = [failures EXCEPT ![key[t]] = count[t]]
    /\ count' = [count EXCEPT ![t] = 0]
    /\ Goto(t, IF opens THEN "stamp" ELSE "idle")
    /\ UNCHANGED <<openSince, key, opened, stamp, admin, faults, evidence>>

CountWrite_Early(t) == WriteThen(t, count[t] >= FailureThreshold - 1)
CountWrite_Late(t) == WriteThen(t, count[t] > FailureThreshold)

\* self._failures[key] = failures; open the circuit at the threshold.
CountWrite(t) == WriteThen(t, count[t] >= FailureThreshold)

\* time.monotonic(), evaluated before the store into _open_since.
ReadClock(t) ==
    /\ pc[t] = "stamp"
    /\ stamp' = [stamp EXCEPT ![t] = 0]
    /\ Goto(t, "store")
    /\ UNCHANGED <<failures, openSince, key, opened, count, admin, faults, evidence>>

\* self._open_since[key] = ...
StoreStamp(t) ==
    /\ pc[t] = "store"
    /\ openSince' = [openSince EXCEPT ![key[t]] = stamp[t]]
    /\ stamp' = [stamp EXCEPT ![t] = 0]
    /\ Goto(t, "idle")
    /\ UNCHANGED <<failures, key, opened, count, admin, faults, evidence>>

-----------------------------------------------------------------------------
(* reset(): in place for everything or one pair; reset(provider) rebuilds   *)
(* each dictionary without the provider's keys and assigns it, so what other*)
(* threads did to the old dictionary in between is lost.                    *)

Without(f, scope, default) == [k \in Keys |-> IF k \in scope THEN default ELSE f[k]]

\* The history of a key that reset() leaves closed, uncounted and untouched.
Forgotten(scope) ==
    [k \in Keys |-> IF k \in scope /\ failures[k] = 0 /\ Untouched(k, Threads)
                      THEN 0 ELSE evidence[k]]

ResetInPlace(scope) ==
    /\ admin.pc = "idle"
    /\ failures' = Without(failures, scope, 0)
    /\ admin' = [admin EXCEPT !.pc = "clear", !.scope = scope]
    /\ UNCHANGED <<openSince, pc, key, locals, faults, evidence>>

ClearOpen ==
    /\ admin.pc = "clear"
    /\ openSince' = Without(openSince, admin.scope, Absent)
    /\ admin' = AdminIdle
    /\ evidence' = Forgotten(admin.scope)
    /\ UNCHANGED <<failures, pc, key, locals, faults>>

CopyFailures(scope) ==
    /\ admin.pc = "idle"
    /\ admin' = [pc |-> "rebindFailures", scope |-> scope, copy |-> failures]
    /\ UNCHANGED <<failures, openSince, pc, key, locals, faults, evidence>>

RebindFailures ==
    /\ admin.pc = "rebindFailures"
    /\ failures' = Without(admin.copy, admin.scope, 0)
    /\ admin' = [pc |-> "copyOpen", scope |-> admin.scope, copy |-> AdminIdle.copy]
    /\ UNCHANGED <<openSince, pc, key, locals, faults, evidence>>

CopyOpen ==
    /\ admin.pc = "copyOpen"
    /\ admin' = [pc |-> "rebindOpen", scope |-> admin.scope, copy |-> openSince]
    /\ UNCHANGED <<failures, openSince, pc, key, locals, faults, evidence>>

RebindOpen ==
    /\ admin.pc = "rebindOpen"
    /\ openSince' = Without(admin.copy, admin.scope, Absent)
    /\ admin' = AdminIdle
    /\ evidence' = Forgotten(admin.scope)
    /\ UNCHANGED <<failures, pc, key, locals, faults>>

\* A comprehension whose next item is asked for while the dictionary has not
\* the size it began with raises RuntimeError out of reset(): the dictionary
\* is then not replaced.
Present(f, absent) == Cardinality({k \in Keys : f[k] # absent})

ResetRaises ==
    /\ \/ /\ admin.pc = "rebindFailures"
          /\ Present(failures, 0) # Present(admin.copy, 0)
       \/ /\ admin.pc = "rebindOpen"
          /\ Present(openSince, Absent) # Present(admin.copy, Absent)
    /\ admin' = AdminIdle
    /\ UNCHANGED <<failures, openSince, pc, key, locals, faults, evidence>>

AdminStep ==
    \/ ResetInPlace(Keys)
    \/ \E k \in Keys : ResetInPlace({k})
    \/ \E scope \in ProviderKeys : CopyFailures(scope)
    \/ ClearOpen
    \/ RebindFailures
    \/ CopyOpen
    \/ RebindOpen
    \/ ResetRaises

-----------------------------------------------------------------------------
Older(age) == IF age = Absent THEN Absent ELSE Min2(age + 1, ResetTimeout)

\* time.monotonic() advances for every timestamp in use.
Tick ==
    /\ openSince' = [k \in Keys |-> Older(openSince[k])]
    /\ opened' = [t \in Threads |-> Older(opened[t])]
    /\ stamp' = [t \in Threads |-> IF pc[t] = "store" THEN Older(stamp[t]) ELSE 0]
    /\ admin' = IF admin.pc = "rebindOpen"
                   THEN [admin EXCEPT !.copy = [k \in Keys |-> Older(@[k])]]
                   ELSE admin
    /\ UNCHANGED <<failures, pc, key, count, faults, evidence>>

Record(t) ==
    \/ Close(t) \/ NotHalfOpen(t) \/ Reopen(t) \/ CountRead(t)
    \/ CountWrite(t) \/ ReadClock(t) \/ StoreStamp(t)

ThreadStep(t) ==
    \/ \E k \in Keys : Enter(t, k)
    \/ Guard(t)
    \/ Succeed(t) \/ Fail(t) \/ Unrecorded(t)
    \/ Record(t)

Next ==
    \/ \E t \in Threads : ThreadStep(t)
    \/ AdminStep
    \/ Tick

Spec == Init /\ [][Next]_vars

(***************************************************************************)
(* Fairness.  A started operation runs on and the clock advances; the      *)
(* outage is over after MaxFaults failed calls.  Of the environment: every *)
(* circuit keeps being requested, and requests are not for ever cut short  *)
(* by halts and empty streams.                                             *)
(***************************************************************************)
Fairness ==
    /\ WF_vars(Tick)
    /\ WF_vars(ClearOpen \/ RebindFailures \/ CopyOpen \/ RebindOpen)
    /\ \A t \in Threads :
        /\ WF_vars(Guard(t) \/ Record(t))
        /\ SF_vars(Succeed(t))
        /\ \A k \in Keys : SF_vars(Enter(t, k))

FairSpec == Spec /\ Fairness

(***************************************************************************)
(* The client used from one thread: a request or a reset() begins only     *)
(* when no other is under way.                                             *)
(***************************************************************************)
Busy(t) == pc[t] # "idle"

OneAtATime ==
    /\ \A t, u \in Threads : Busy(t) /\ Busy(u) => t = u
    /\ \A t \in Threads : ~(Busy(t) /\ admin.pc # "idle")

SequentialNext == Next /\ OneAtATime'
SequentialSpec == Init /\ [][SequentialNext]_vars

-----------------------------------------------------------------------------
(* Properties that hold however the threads interleave.                    *)

(***************************************************************************)
(* _record_failure opens a circuit on the count it read, and the races on  *)
(* that count (two threads reading the same value, a success or a reset()  *)
(* dropping it in between, a provider reset() restoring an old copy) may   *)
(* lose failures but never invent one: an open circuit has had             *)
(* failure_threshold counted failures since it was last untouched.         *)
(***************************************************************************)
NeverOpensEarly ==
    \A k \in Keys : openSince[k] # Absent => evidence[k] >= FailureThreshold

(***************************************************************************)
(* Once the provider has recovered, no late failure, stale stamp or racing *)
(* reset() leaves a circuit open for ever: a probe gets through, and its   *)
(* success closes the circuit.                                             *)
(***************************************************************************)
Recovers == \A k \in Keys : (openSince[k] # Absent) ~> (openSince[k] = Absent)

-----------------------------------------------------------------------------
(* Properties of a client used from one thread.                            *)

(***************************************************************************)
(* Outside the recording of an outcome, a circuit is closed only below the *)
(* threshold (_record_failure opens it at the threshold, and whatever      *)
(* closes it drops the count too).                                         *)
(***************************************************************************)
ClosedBelowThreshold ==
    admin.pc = "idle" =>
        \A k \in Keys : /\ openSince[k] = Absent
                         /\ Untouched(k, Threads)
                        => failures[k] < FailureThreshold

\* The circuit as CircuitStates sees it.  An outcome counts from the step that
\* decides it: the reading of the clock for a failure that opens the circuit,
\* the dropping of the count for a success.
Recorder(k, labels) == {t \in Threads : key[t] = k /\ pc[t] \in labels}

CircuitOf(k) ==
    LET open(age) == [failures |-> 0, openFor |-> age]
        closed(n) == [failures |-> n, openFor |-> Absent]
    IN  CASE Recorder(k, {"store"}) # {} ->
                 open(stamp[CHOOSE t \in Recorder(k, {"store"}) : TRUE])
          [] Recorder(k, {"close"}) # {} -> closed(0)
          [] Recorder(k, {"store", "close"}) = {} /\ openSince[k] # Absent ->
                 open(openSince[k])
          [] Recorder(k, {"store", "close"}) = {} /\ openSince[k] = Absent ->
                 \* at "stamp" the last failure is written but not yet effective
                 closed(IF Recorder(k, {"stamp"}) # {} THEN failures[k] - 1 ELSE failures[k])

AtProvider == {k \in Keys : Recorder(k, {"calling", "probing", "failed",
                                         "count", "write", "stamp"}) # {}}

Circuits == INSTANCE CircuitStates
              WITH circuit <- [k \in Keys |-> CircuitOf(k)], calls <- AtProvider

(***************************************************************************)
(* Used from one thread, the dictionaries behave as one circuit per key:   *)
(* failures in a row open it, an open circuit stays open for reset_timeout,*)
(* one trial then decides, and a halted call or an empty stream changes    *)
(* nothing.                                                                *)
(***************************************************************************)
Implements == Circuits!CircuitSpec
=============================================================================
