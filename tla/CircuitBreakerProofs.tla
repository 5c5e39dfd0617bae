------------------------ MODULE CircuitBreakerProofs ------------------------
(***************************************************************************)
(* Type correctness of CircuitBreaker and NeverOpensEarly for any number   *)
(* of threads and keys and any threshold, timeout and outage; and for a    *)
(* client used from one thread, that it implements CircuitStates.          *)
(***************************************************************************)
EXTENDS CircuitBreaker, TLAPS

(***************************************************************************)
(* NeverOpensEarly is not inductive: a thread that holds a count or a      *)
(* stamp, and a reset() that holds a copy of a dictionary, are about to    *)
(* write what they hold.  What they hold is backed by the history too.     *)
(***************************************************************************)
CountsBacked == \A k \in Keys : failures[k] <= evidence[k]

HeldCountsBacked ==
    \A t \in Threads : pc[t] = "write" => count[t] <= evidence[key[t]]

HeldStampsBacked ==
    \A t \in Threads :
        \/ pc[t] \in {"stamp", "store"}
        \/ pc[t] = "failed" /\ opened[t] # Absent
        => evidence[key[t]] >= FailureThreshold

CopiesBacked ==
    /\ admin.pc = "rebindFailures" =>
           \A k \in Keys : admin.copy[k] <= evidence[k]
    /\ admin.pc = "rebindOpen" =>
           \A k \in Keys : admin.copy[k] # Absent => evidence[k] >= FailureThreshold

IInv ==
    /\ TypeOK
    /\ CountsBacked
    /\ HeldCountsBacked
    /\ HeldStampsBacked
    /\ CopiesBacked
    /\ NeverOpensEarly

-----------------------------------------------------------------------------
LEMMA AgeFacts ==
    /\ Absent \notin Age
    /\ 0 \in Age
    /\ \A a \in Stamp : Older(a) \in Stamp /\ (Older(a) = Absent <=> a = Absent)
    /\ \A a \in Age : Older(a) \in Age
    /\ \A a \in Stamp : Expired(a) => a # Absent
BY ConstructorAssumption DEF Absent, Age, Stamp, Older, Min2, Expired

LEMMA TypeInit == Init => TypeOK
BY ConstructorAssumption, AgeFacts DEF Init, TypeOK, AdminIdle, PC, Recording, Stamp

LEMMA TypeStep == TypeOK /\ [Next]_vars => TypeOK'
<1> SUFFICES ASSUME TypeOK, [Next]_vars PROVE TypeOK'
  OBVIOUS
<1> USE DEF TypeOK, Goto, locals
<1>1. ASSUME NEW t \in Threads, ThreadStep(t) PROVE TypeOK'
  <2> USE <1>1 DEF PC, Recording
  <2>1. ASSUME NEW k \in Keys, Enter(t, k) PROVE TypeOK'
    BY <2>1 DEF Enter
  <2>2. CASE Guard(t)
    BY <2>2 DEF Guard
  <2>3. CASE Succeed(t)
    BY <2>3 DEF Succeed
  <2>4. CASE Fail(t)
    BY <2>4, ConstructorAssumption DEF Fail
  <2>5. CASE Unrecorded(t)
    BY <2>5 DEF Unrecorded
  <2>6. CASE Close(t)
    BY <2>6 DEF Close, Stamp
  <2>7. CASE NotHalfOpen(t)
    BY <2>7 DEF NotHalfOpen, Stamp
  <2>8. CASE Reopen(t)
    BY <2>8 DEF Reopen, Stamp
  <2>9. CASE CountRead(t)
    BY <2>9 DEF CountRead
  <2>10. CASE CountWrite(t)
    BY <2>10 DEF CountWrite, WriteThen
  <2>11. CASE ReadClock(t)
    BY <2>11, AgeFacts DEF ReadClock
  <2>12. CASE StoreStamp(t)
    BY <2>12, AgeFacts DEF StoreStamp, Stamp
  <2> QED
    BY <1>1, <2>1, <2>2, <2>3, <2>4, <2>5, <2>6, <2>7, <2>8, <2>9, <2>10, <2>11, <2>12
    DEF ThreadStep, Record
<1>2. CASE AdminStep
  <2>1. ASSUME NEW scope \in SUBSET Keys, ResetInPlace(scope) PROVE TypeOK'
    BY <2>1 DEF ResetInPlace, Without
  <2>2. ASSUME NEW scope \in SUBSET Keys, CopyFailures(scope) PROVE TypeOK'
    BY <2>2 DEF CopyFailures
  <2>3. CASE ClearOpen
    BY <2>3, AgeFacts DEF ClearOpen, Without, AdminIdle, Forgotten, Stamp
  <2>4. CASE RebindFailures
    <3>1. failures' \in [Keys -> Nat]
      BY <2>4 DEF RebindFailures, Without
    <3>2. AdminIdle.copy \in [Keys -> Int]
      BY DEF AdminIdle
    <3> QED
      BY <2>4, <3>1, <3>2 DEF RebindFailures
  <2>5. CASE CopyOpen
    <3>1. Stamp \subseteq Int
      BY ConstructorAssumption DEF Stamp, Age, Absent
    <3>2. openSince \in [Keys -> Int]
      BY <3>1
    <3> QED
      BY <2>5, <3>2 DEF CopyOpen
  <2>6. CASE RebindOpen
    BY <2>6, AgeFacts DEF RebindOpen, Without, AdminIdle, Forgotten, Stamp
  <2>7. CASE ResetRaises
    BY <2>7 DEF ResetRaises, AdminIdle
  <2> QED
    BY <1>2, <2>1, <2>2, <2>3, <2>4, <2>5, <2>6, <2>7, ConstructorAssumption DEF AdminStep
<1>3. CASE Tick
  <2>1. admin' \in [pc : {"idle", "clear", "rebindFailures", "copyOpen", "rebindOpen"},
                    scope : SUBSET Keys, copy : [Keys -> Int]]
    BY <1>3, AgeFacts DEF Tick, Stamp, Age, Absent
  <2>2. /\ admin'.pc = "rebindFailures" => admin'.copy \in [Keys -> Nat]
        /\ admin'.pc = "rebindOpen" => admin'.copy \in [Keys -> Stamp]
    BY <1>3, AgeFacts DEF Tick
  <2> QED
    BY <1>3, <2>1, <2>2, AgeFacts DEF Tick
<1>4. CASE UNCHANGED vars
  BY <1>4 DEF vars
<1> QED
  BY <1>1, <1>2, <1>3, <1>4 DEF Next

(***************************************************************************)
(* Every reachable state of the shared breaker is well typed: no race ever *)
(* stores a negative count, a stamp from the future or an unknown control  *)
(* point.                                                                  *)
(***************************************************************************)
THEOREM TypeCorrect == Spec => []TypeOK
<1> QED
  BY TypeInit, TypeStep, PTL DEF Spec

-----------------------------------------------------------------------------
LEMMA BackedInit == Init => IInv
BY TypeInit
DEF Init, IInv, CountsBacked, HeldCountsBacked, HeldStampsBacked, CopiesBacked,
    NeverOpensEarly, AdminIdle

LEMMA BackedStep == IInv /\ [Next]_vars => IInv'
<1> SUFFICES ASSUME IInv, [Next]_vars PROVE IInv'
  OBVIOUS
<1>0. TypeOK'
  BY TypeStep DEF IInv
<1> DEFINE Backed == /\ CountsBacked
                     /\ HeldCountsBacked
                     /\ HeldStampsBacked
                     /\ CopiesBacked
                     /\ NeverOpensEarly
<1> SUFFICES Backed'
  BY <1>0 DEF IInv
<1> USE ConstructorAssumption, AgeFacts
    DEF IInv, TypeOK, CountsBacked, HeldCountsBacked, HeldStampsBacked, CopiesBacked,
        NeverOpensEarly, Goto, locals
<1>1. ASSUME NEW t \in Threads, ThreadStep(t) PROVE Backed'
  <2>1. ASSUME NEW k \in Keys, Enter(t, k) PROVE Backed'
    BY <2>1 DEF Enter
  <2>2. CASE Guard(t)
    BY <2>2 DEF Guard
  <2>3. CASE Succeed(t)
    BY <2>3 DEF Succeed
  <2>4. CASE Fail(t)
    BY <2>4 DEF Fail
  <2>5. CASE Unrecorded(t)
    BY <2>5 DEF Unrecorded
  <2>6. CASE Close(t)
    <3> DEFINE k == key[t]
    <3>1. \A j \in Keys : evidence'[j] = evidence[j]
                           \/ /\ j = k
                              /\ evidence'[j] = 0
                              /\ failures[j] = 0
                              /\ admin.pc = "idle"
                              /\ Untouched(j, Threads \ {t})
      BY <2>6 DEF Close
    <3> QED
      BY <2>6, <3>1 DEF Close, Untouched, Recording
  <2>7. CASE NotHalfOpen(t)
    BY <2>7 DEF NotHalfOpen
  <2>8. CASE Reopen(t)
    BY <2>8 DEF Reopen
  <2>9. CASE CountRead(t)
    BY <2>9 DEF CountRead
  <2>10. CASE CountWrite(t)
    BY <2>10 DEF CountWrite, WriteThen
  <2>11. CASE ReadClock(t)
    BY <2>11 DEF ReadClock
  <2>12. CASE StoreStamp(t)
    BY <2>12 DEF StoreStamp
  <2> QED
    BY <1>1, <2>1, <2>2, <2>3, <2>4, <2>5, <2>6, <2>7, <2>8, <2>9, <2>10, <2>11, <2>12
    DEF ThreadStep, Record
<1>2. CASE AdminStep
  <2>1. ASSUME NEW scope \in SUBSET Keys, ResetInPlace(scope) PROVE Backed'
    BY <2>1 DEF ResetInPlace, Without
  <2>2. ASSUME NEW scope \in SUBSET Keys, CopyFailures(scope) PROVE Backed'
    BY <2>2 DEF CopyFailures
  <2>3. CASE ClearOpen
    BY <2>3 DEF ClearOpen, Without, AdminIdle, Forgotten, Untouched, Recording
  <2>4. CASE RebindFailures
    BY <2>4 DEF RebindFailures, Without
  <2>5. CASE CopyOpen
    BY <2>5 DEF CopyOpen
  <2>6. CASE RebindOpen
    BY <2>6 DEF RebindOpen, Without, AdminIdle, Forgotten, Untouched, Recording
  <2>7. CASE ResetRaises
    BY <2>7 DEF ResetRaises, AdminIdle
  <2> HIDE DEF Backed, IInv, TypeOK
  <2>8. CASE ResetInPlace(Keys)
    BY <2>1, <2>8
  <2>9. CASE \E k \in Keys : ResetInPlace({k})
    BY <2>1, <2>9
  <2>10. CASE \E scope \in ProviderKeys : CopyFailures(scope)
    BY <2>2, <2>10
  <2> QED
    BY <1>2, <2>3, <2>4, <2>5, <2>6, <2>7, <2>8, <2>9, <2>10 DEF AdminStep
<1>3. CASE Tick
  BY <1>3 DEF Tick
<1>4. CASE UNCHANGED vars
  BY <1>4 DEF vars
<1> QED
  BY <1>1, <1>2, <1>3, <1>4 DEF Next

(***************************************************************************)
(* Whatever the interleaving of requests, resets and the clock, a circuit  *)
(* is open only after failure_threshold failures were counted for its key  *)
(* since the key was last closed and untouched.                            *)
(***************************************************************************)
THEOREM OpensAtThreshold == Spec => []NeverOpensEarly
<1>1. IInv => NeverOpensEarly
  BY DEF IInv
<1> QED
  BY BackedInit, BackedStep, <1>1, PTL DEF Spec

-----------------------------------------------------------------------------
(***************************************************************************)
(* Used from one thread.  What a thread or reset() has read is still so    *)
(* when it acts on it, and what it has yet to write is decided.            *)
(***************************************************************************)
ReadStands ==
    \A t \in Threads :
        LET k == key[t] IN
        /\ pc[t] \in {"calling", "count", "write"} => openSince[k] = Absent
        /\ pc[t] = "probing" => Expired(openSince[k])
        /\ pc[t] = "failed" => /\ opened[t] = openSince[k]
                               /\ openSince[k] = Absent \/ Expired(openSince[k])
        /\ pc[t] = "write" => count[t] = failures[k] + 1
        /\ pc[t] = "stamp" => \/ Expired(openSince[k])
                              \/ openSince[k] = Absent /\ failures[k] >= FailureThreshold
        /\ pc[t] = "close" => failures[k] = 0

CopyStands ==
    /\ admin.pc = "rebindFailures" => admin.copy = failures
    /\ admin.pc = "rebindOpen" => admin.copy = openSince
    /\ admin.pc \in {"clear", "copyOpen", "rebindOpen"} =>
           \A k \in admin.scope : failures[k] = 0

Below ==
    \A k \in Keys : openSince[k] = Absent /\ Recorder(k, {"stamp", "store"}) = {}
                      => failures[k] < FailureThreshold

SInv == TypeOK /\ OneAtATime /\ ReadStands /\ CopyStands /\ Below

LEMMA SequentialInit == Init => SInv
BY TypeInit, ConstructorAssumption
DEF Init, SInv, OneAtATime, ReadStands, CopyStands, Below, AdminIdle, Busy

\* Only an idle client is reset.
LEMMA AdminAlone ==
  ASSUME TypeOK, OneAtATime, OneAtATime', AdminStep
  PROVE  \A t \in Threads : pc[t] = "idle" /\ pc'[t] = "idle"
<1>1. pc' = pc
  BY DEF AdminStep, ResetInPlace, CopyFailures, ClearOpen, RebindFailures,
     CopyOpen, RebindOpen, ResetRaises
<1>2. admin.pc # "idle" \/ admin'.pc # "idle"
  <2>1. ASSUME NEW scope, ResetInPlace(scope) PROVE admin'.pc # "idle"
    BY <2>1 DEF ResetInPlace, TypeOK
  <2>2. ASSUME NEW scope, CopyFailures(scope) PROVE admin'.pc # "idle"
    BY <2>2 DEF CopyFailures
  <2>3. CASE ClearOpen \/ RebindFailures \/ CopyOpen \/ RebindOpen \/ ResetRaises
    BY <2>3 DEF ClearOpen, RebindFailures, CopyOpen, RebindOpen, ResetRaises
  <2> QED
    BY <2>1, <2>2, <2>3 DEF AdminStep
<1> QED
  BY <1>1, <1>2 DEF OneAtATime, Busy

LEMMA SequentialStep == SInv /\ [SequentialNext]_vars => SInv'
<1> SUFFICES ASSUME SInv, [SequentialNext]_vars PROVE SInv'
  OBVIOUS
<1>0. TypeOK'
  BY TypeStep DEF SInv, SequentialNext
<1> DEFINE Stands == ReadStands /\ CopyStands /\ Below
<1>1. CASE UNCHANGED vars
  BY <1>1, <1>0 DEF vars, locals, SInv, OneAtATime, ReadStands, CopyStands, Below, Recorder, Busy
<1>2. SUFFICES ASSUME Next, OneAtATime' PROVE Stands'
  BY <1>0, <1>1 DEF SInv, SequentialNext
<1> USE ConstructorAssumption, AgeFacts DEF SInv, TypeOK, Goto, locals, Recorder
<1>3. ASSUME NEW t \in Threads, ThreadStep(t) PROVE Stands'
  <2>0. /\ \A u \in Threads : u # t => pc[u] = "idle" /\ pc'[u] = "idle"
        /\ admin.pc = "idle" /\ admin' = admin
    BY <1>2, <1>3 DEF ThreadStep, Record, Enter, Guard, Succeed, Fail, Unrecorded, Close,
       NotHalfOpen, Reopen, CountRead, CountWrite, WriteThen, ReadClock, StoreStamp,
       OneAtATime, Busy, InCall
  <2>1. CopyStands'
    BY <2>0 DEF CopyStands
  <2> USE <2>0 DEF ReadStands, Below
  <2> SUFFICES (ReadStands /\ Below)'
    BY <2>1
  <2>2. ASSUME NEW k \in Keys, Enter(t, k) PROVE (ReadStands /\ Below)'
    BY <2>2 DEF Enter
  <2>3. CASE Guard(t)
    BY <2>3 DEF Guard, Rejected
  <2>4. CASE Succeed(t)
    BY <2>4 DEF Succeed, InCall
  <2>5. CASE Fail(t)
    BY <2>5 DEF Fail, InCall
  <2>6. CASE Unrecorded(t)
    BY <2>6 DEF Unrecorded, InCall
  <2>7. CASE Close(t)
    BY <2>7 DEF Close
  <2>8. CASE NotHalfOpen(t)
    BY <2>8 DEF NotHalfOpen
  <2>9. CASE Reopen(t)
    BY <2>9 DEF Reopen
  <2>10. CASE CountRead(t)
    BY <2>10 DEF CountRead
  <2>11. CASE CountWrite(t)
    BY <2>11 DEF CountWrite, WriteThen
  <2>12. CASE ReadClock(t)
    BY <2>12 DEF ReadClock
  <2>13. CASE StoreStamp(t)
    BY <2>13 DEF StoreStamp
  <2> QED
    BY <1>3, <2>2, <2>3, <2>4, <2>5, <2>6, <2>7, <2>8, <2>9, <2>10, <2>11, <2>12, <2>13
    DEF ThreadStep, Record
<1>4. CASE AdminStep
  <2>0. \A t \in Threads : pc[t] = "idle" /\ pc'[t] = "idle"
    BY <1>2, <1>4, AdminAlone DEF SInv
  <2>1. ReadStands'
    BY <2>0 DEF ReadStands
  <2> USE <2>0 DEF CopyStands, Below
  <2> SUFFICES (CopyStands /\ Below)'
    BY <2>1
  <2>2. ASSUME NEW scope \in SUBSET Keys, ResetInPlace(scope) PROVE (CopyStands /\ Below)'
    BY <2>2 DEF ResetInPlace, Without
  <2>3. ASSUME NEW scope \in SUBSET Keys, CopyFailures(scope) PROVE (CopyStands /\ Below)'
    BY <2>3 DEF CopyFailures
  <2>4. CASE ClearOpen
    BY <2>4 DEF ClearOpen, Without, AdminIdle
  <2>5. CASE RebindFailures
    BY <2>5 DEF RebindFailures, Without
  <2>6. CASE CopyOpen
    BY <2>6 DEF CopyOpen
  <2>7. CASE RebindOpen
    BY <2>7 DEF RebindOpen, Without, AdminIdle
  <2>8. CASE ResetRaises
    BY <2>8 DEF ResetRaises, AdminIdle
  <2> HIDE DEF CopyStands, Below
  <2>9. CASE ResetInPlace(Keys)
    BY <2>2, <2>9
  <2>10. CASE \E k \in Keys : ResetInPlace({k})
    BY <2>2, <2>10
  <2>11. CASE \E scope \in ProviderKeys : CopyFailures(scope)
    BY <2>3, <2>11
  <2> QED
    BY <1>4, <2>4, <2>5, <2>6, <2>7, <2>8, <2>9, <2>10, <2>11 DEF AdminStep
<1>5. CASE Tick
  <2>1. \A a \in Stamp : Expired(a) => Expired(Older(a))
    BY DEF Expired, Older, Min2, Stamp, Age, Absent
  <2>2. ReadStands'
    BY <1>5, <2>1 DEF Tick, ReadStands
  <2>3. CopyStands'
    BY <1>5 DEF Tick, CopyStands
  <2>4. Below'
    BY <1>5 DEF Tick, Below
  <2> QED
    BY <2>2, <2>3, <2>4
<1> QED
  BY <1>2, <1>3, <1>4, <1>5 DEF Next

(***************************************************************************)
(* For a client used from one thread a circuit is closed only below the    *)
(* threshold: the failure that reaches it opens the circuit, and what      *)
(* closes a circuit drops its count.                                       *)
(***************************************************************************)
THEOREM BelowThreshold == SequentialSpec => []ClosedBelowThreshold
<1>1. SInv => ClosedBelowThreshold
  BY DEF SInv, Below, ClosedBelowThreshold, Recorder, Untouched, Recording
<1> QED
  BY SequentialInit, SequentialStep, <1>1, PTL DEF SequentialSpec

-----------------------------------------------------------------------------
(* CircuitOf by cases: what the circuit is under the one thread at work.   *)

Outcome == {"store", "close"}
AtWork == {"calling", "probing", "failed", "count", "write", "stamp"}

CircuitCases ==
    \A k \in Keys :
        /\ \A t \in Recorder(k, {"store"}) : CircuitOf(k) = Circuits!Open(stamp[t])
        /\ Recorder(k, {"close"}) # {} => CircuitOf(k) = Circuits!Closed(0)
        /\ Recorder(k, Outcome) = {} /\ openSince[k] # Absent =>
               CircuitOf(k) = Circuits!Open(openSince[k])
        /\ Recorder(k, Outcome) = {} /\ openSince[k] = Absent =>
               CircuitOf(k) = Circuits!Closed(IF Recorder(k, {"stamp"}) # {}
                                                THEN failures[k] - 1 ELSE failures[k])

LEMMA MappedCircuit == OneAtATime => CircuitCases
<1> SUFFICES ASSUME OneAtATime, NEW k \in Keys
             PROVE  /\ \A t \in Recorder(k, {"store"}) : CircuitOf(k) = Circuits!Open(stamp[t])
                    /\ Recorder(k, {"close"}) # {} => CircuitOf(k) = Circuits!Closed(0)
                    /\ Recorder(k, Outcome) = {} /\ openSince[k] # Absent =>
                          CircuitOf(k) = Circuits!Open(openSince[k])
                    /\ Recorder(k, Outcome) = {} /\ openSince[k] = Absent =>
                          CircuitOf(k) = Circuits!Closed(IF Recorder(k, {"stamp"}) # {}
                                                           THEN failures[k] - 1 ELSE failures[k])
  BY DEF CircuitCases
<1> USE DEF Circuits!Open, Circuits!Closed, Outcome, Absent
<1>1. ASSUME NEW t \in Recorder(k, {"store"}) PROVE CircuitOf(k) = Circuits!Open(stamp[t])
  <2>1. Recorder(k, {"store"}) = {t} /\ Recorder(k, {"close"}) = {}
    BY <1>1 DEF Recorder, OneAtATime, Busy
  <2>2. (CHOOSE u \in {t} : TRUE) = t
    OBVIOUS
  <2> QED
    BY <2>1, <2>2, Recorder(k, {"store", "close"}) # {} DEF CircuitOf, Recorder
<1>2. Recorder(k, {"close"}) # {} => CircuitOf(k) = Circuits!Closed(0)
  BY DEF Recorder, OneAtATime, Busy, CircuitOf
<1>3. Recorder(k, Outcome) = {} => Recorder(k, {"store"}) = {} /\ Recorder(k, {"close"}) = {}
  BY DEF Recorder
<1>4. Recorder(k, Outcome) = {} /\ openSince[k] # Absent =>
         CircuitOf(k) = Circuits!Open(openSince[k])
  BY <1>3 DEF CircuitOf
<1>5. Recorder(k, Outcome) = {} /\ openSince[k] = Absent =>
         CircuitOf(k) = Circuits!Closed(IF Recorder(k, {"stamp"}) # {}
                                          THEN failures[k] - 1 ELSE failures[k])
  BY <1>3 DEF CircuitOf
<1> QED
  BY <1>1, <1>2, <1>4, <1>5

LEMMA MappedNext == OneAtATime' => CircuitCases'
BY MappedCircuit, PTL

\* The variables of CircuitStates.
Mapped == <<[k \in Keys |-> CircuitOf(k)], AtProvider>>

LEMMA SimulationInit == Init => Circuits!CircuitInit
<1> SUFFICES ASSUME Init PROVE Circuits!CircuitInit
  OBVIOUS
<1>1. /\ OneAtATime /\ AtProvider = {}
      /\ \A k \in Keys, labels \in SUBSET Recording : Recorder(k, labels) = {}
  BY DEF Init, OneAtATime, Busy, AdminIdle, AtProvider, Recorder, Recording
<1>2. \A k \in Keys : CircuitOf(k) = Circuits!Closed(0)
  BY <1>1, MappedCircuit DEF CircuitCases, Init, Outcome, Recorder
<1> QED
  BY <1>1, <1>2 DEF Circuits!CircuitInit

LEMMA SimulationStep ==
  SInv /\ SInv' /\ [SequentialNext]_vars => [Circuits!CircuitNext]_Mapped
<1> SUFFICES ASSUME SInv, SInv', SequentialNext PROVE Circuits!CircuitNext \/ UNCHANGED Mapped
  <2>1. CASE UNCHANGED vars
    <3>1. \A k \in Keys : CircuitOf(k)' = CircuitOf(k)
      BY <2>1 DEF vars, locals, CircuitOf, Recorder
    <3>2. AtProvider' = AtProvider
      BY <2>1 DEF vars, AtProvider, Recorder
    <3> QED
      BY <3>1, <3>2 DEF Mapped
  <2> QED
    BY <2>1
<1> USE ConstructorAssumption, AgeFacts
<1>1. CircuitCases /\ CircuitCases'
  BY MappedCircuit, MappedNext DEF SInv
<1>2. ASSUME NEW t \in Threads, ThreadStep(t) PROVE Circuits!CircuitNext \/ UNCHANGED Mapped
  <2>0. PICK k \in Keys : key'[t] = k
    BY DEF SInv, TypeOK
  <2>1. /\ \A u \in Threads : u # t => pc[u] = "idle" /\ pc'[u] = "idle"
        /\ pc[t] = "idle" \/ key[t] = k
    BY <1>2, <2>0 DEF ThreadStep, Record, Enter, Guard, Succeed, Fail, Unrecorded, Close,
       NotHalfOpen, Reopen, CountRead, CountWrite, WriteThen, ReadClock, StoreStamp,
       OneAtATime, Busy, InCall, SInv, TypeOK, Goto
  <2>2. \A j \in Keys \ {k} : CircuitOf(j)' = CircuitOf(j)
    <3> SUFFICES ASSUME NEW j \in Keys \ {k} PROVE CircuitOf(j)' = CircuitOf(j)
      OBVIOUS
    <3>1. /\ Recorder(j, Outcome) = {} /\ Recorder(j, Outcome)' = {}
          /\ Recorder(j, {"stamp"}) = {} /\ Recorder(j, {"stamp"})' = {}
      BY <2>0, <2>1 DEF Recorder, Outcome
    <3>2. openSince'[j] = openSince[j] /\ failures'[j] = failures[j]
      BY <1>2, <2>0, <2>1 DEF ThreadStep, Record, Enter, Guard, Succeed, Fail, Unrecorded, Close,
         NotHalfOpen, Reopen, CountRead, CountWrite, WriteThen, ReadClock, StoreStamp,
         SInv, TypeOK, InCall
    <3> QED
      BY <1>1, <3>1, <3>2 DEF CircuitCases
  <2>3. /\ pc[t] = "store" => CircuitOf(k) = Circuits!Open(stamp[t])
        /\ pc[t] = "close" => CircuitOf(k) = Circuits!Closed(0)
        /\ pc[t] \notin Outcome /\ openSince[k] # Absent =>
              CircuitOf(k) = Circuits!Open(openSince[k])
        /\ pc[t] \notin Outcome /\ openSince[k] = Absent =>
              CircuitOf(k) = Circuits!Closed(IF pc[t] = "stamp" THEN failures[k] - 1
                                                               ELSE failures[k])
    BY <1>1, <2>0, <2>1 DEF CircuitCases, Recorder, Outcome
  <2>4. /\ pc'[t] = "store" => CircuitOf(k)' = Circuits!Open(stamp'[t])
        /\ pc'[t] = "close" => CircuitOf(k)' = Circuits!Closed(0)
        /\ pc'[t] \notin Outcome /\ openSince'[k] # Absent =>
              CircuitOf(k)' = Circuits!Open(openSince'[k])
        /\ pc'[t] \notin Outcome /\ openSince'[k] = Absent =>
              CircuitOf(k)' = Circuits!Closed(IF pc'[t] = "stamp" THEN failures'[k] - 1
                                                                ELSE failures'[k])
    BY <1>1, <2>0, <2>1 DEF CircuitCases, Recorder, Outcome
  <2>5. /\ AtProvider = IF pc[t] \in AtWork THEN {k} ELSE {}
        /\ AtProvider' = IF pc'[t] \in AtWork THEN {k} ELSE {}
    BY <2>0, <2>1 DEF AtProvider, Recorder, AtWork
  <2> DEFINE circuit == [j \in Keys |-> CircuitOf(j)]
  <2>6. circuit' = [circuit EXCEPT ![k] = CircuitOf(k)']
    BY <2>0, <2>2
  <2> HIDE DEF circuit
  <2>7. circuit[k] = CircuitOf(k) /\ (CircuitOf(k)' = CircuitOf(k) => circuit' = circuit)
    BY <2>0, <2>6 DEF circuit
  <2>8. Mapped = <<circuit, AtProvider>> /\ Mapped' = <<circuit', AtProvider'>>
    BY DEF Mapped, circuit
  <2> USE <2>0, <2>1, <2>3, <2>4, <2>5, <2>6, <2>7, <2>8 DEF Outcome, AtWork, SInv, TypeOK, Goto, locals
  <2>9. ASSUME NEW j \in Keys, Enter(t, j) PROVE Circuits!CircuitNext \/ UNCHANGED Mapped
    <3>1. j = k /\ openSince' = openSince /\ failures' = failures /\ pc[t] = "idle" /\ AtProvider = {}
      BY <2>9 DEF Enter
    <3>2. CASE openSince[k] = Absent
      <4>1. Circuits!Admit(k)
        BY <2>9, <3>1, <3>2 DEF Enter, Circuits!Admit, Circuits!IsClosed, Circuits!Closed, Absent, circuit
      <4> QED
        BY <4>1 DEF Circuits!CircuitNext
    <3>3. CASE openSince[k] # Absent
      BY <2>9, <3>1, <3>3 DEF Enter
    <3> QED
      BY <3>2, <3>3
  <2>10. CASE Guard(t)
    <3>1. CASE pc'[t] = "idle"
      BY <2>10, <3>1 DEF Guard
    <3>2. CASE pc'[t] # "idle"
      <4>1. Circuits!Admit(k)
        BY <2>10, <3>2 DEF Guard, Rejected, Expired, Circuits!Admit, Circuits!IsHalfOpen,
           Circuits!Open, circuit
      <4> QED
        BY <4>1 DEF Circuits!CircuitNext
    <3> QED
      BY <3>1, <3>2
  <2>11. CASE Succeed(t)
    <3>1. Circuits!CallSucceeds(k)
      BY <2>11 DEF Succeed, InCall, Circuits!CallSucceeds, circuit
    <3> QED
      BY <3>1 DEF Circuits!CircuitNext
  <2>12. CASE Fail(t)
    BY <2>12 DEF Fail, InCall
  <2>13. CASE Unrecorded(t)
    <3>1. Circuits!CallIsHalted(k)
      BY <2>13 DEF Unrecorded, InCall, Circuits!CallIsHalted, circuit
    <3> QED
      BY <3>1 DEF Circuits!CircuitNext
  <2>14. CASE Close(t)
    BY <2>14 DEF Close, ReadStands
  <2>15. CASE NotHalfOpen(t)
    BY <2>15 DEF NotHalfOpen
  <2>16. CASE Reopen(t)
    BY <2>16 DEF Reopen, ReadStands
  <2>17. CASE CountRead(t)
    BY <2>17 DEF CountRead
  <2>18. CASE CountWrite(t)
    <3>1. /\ pc[t] = "write" /\ key[t] = k /\ openSince[k] = Absent /\ openSince' = openSince
          /\ count[t] = failures[k] + 1 /\ failures'[k] = failures[k] + 1
          /\ pc'[t] = IF failures[k] + 1 >= FailureThreshold THEN "stamp" ELSE "idle"
      BY <2>18 DEF CountWrite, WriteThen, ReadStands
    <3>2. CASE failures[k] + 1 >= FailureThreshold
      BY <3>1, <3>2
    <3>3. CASE failures[k] + 1 < FailureThreshold
      <4>1. /\ circuit[k] = Circuits!Closed(failures[k])
            /\ CircuitOf(k)' = Circuits!Closed(failures[k] + 1)
        BY <3>1, <3>3
      <4>2. circuit[k].openFor = -1 /\ circuit[k].failures = failures[k]
        BY <4>1 DEF Circuits!Closed
      <4>3. circuit' = [circuit EXCEPT ![k] = Circuits!Closed(circuit[k].failures + 1)]
        BY <4>1, <4>2
      <4>4. circuit[k].openFor = -1 /\ circuit[k].failures + 1 < FailureThreshold
        BY <3>3, <4>2
      <4>5. AtProvider = {k} /\ AtProvider' = {}
        BY <3>1, <3>3
      <4>6. Circuits!CallFails(k)
        BY <4>3, <4>4, <4>5 DEF Circuits!CallFails, Circuits!IsClosed, circuit
      <4> QED
        BY <4>6 DEF Circuits!CircuitNext
    <3> QED
      BY <3>1, <3>2, <3>3
  <2>19. CASE ReadClock(t)
    <3>1. /\ pc[t] = "stamp" /\ key[t] = k /\ pc'[t] = "store" /\ stamp'[t] = 0
          /\ Expired(openSince[k]) \/ (openSince[k] = Absent /\ failures[k] >= FailureThreshold)
      BY <2>19 DEF ReadClock, ReadStands
    <3>2. CircuitOf(k)' = Circuits!Open(0)
      BY <3>1
    <3>3. ~(circuit[k].openFor = -1 /\ circuit[k].failures + 1 < FailureThreshold)
      <4>1. CASE openSince[k] = Absent
        <5>1. failures[k] \in Nat /\ failures[k] >= FailureThreshold
          BY <3>1, <4>1
        <5>2. circuit[k].failures = failures[k] - 1
          BY <3>1, <4>1 DEF Circuits!Closed
        <5> QED
          BY <5>1, <5>2
      <4>2. CASE openSince[k] # Absent
        BY <3>1, <4>2 DEF Circuits!Open, Absent
      <4> QED
        BY <4>1, <4>2
    <3>4. Circuits!CallFails(k)
      BY <3>1, <3>2, <3>3 DEF Circuits!CallFails, Circuits!IsClosed, circuit
    <3> QED
      BY <3>4 DEF Circuits!CircuitNext
  <2>20. CASE StoreStamp(t)
    BY <2>20 DEF StoreStamp
  <2> HIDE DEF SInv, TypeOK
  <2> QED
    BY <1>2, <2>9, <2>10, <2>11, <2>12, <2>13, <2>14, <2>15, <2>16, <2>17, <2>18, <2>19, <2>20
    DEF ThreadStep, Record
<1>3. CASE AdminStep
  <2>1. \A t \in Threads : pc[t] = "idle" /\ pc'[t] = "idle"
    BY <1>3, AdminAlone DEF SInv
  <2>2. AtProvider = {} /\ AtProvider' = {}
    BY <2>1 DEF AtProvider, Recorder
  <2>3. \A k \in Keys : /\ Recorder(k, Outcome) = {} /\ Recorder(k, Outcome)' = {}
                        /\ Recorder(k, {"stamp"}) = {} /\ Recorder(k, {"stamp"})' = {}
    BY <2>1 DEF Recorder, Outcome
  <2>4. \A k \in Keys :
          /\ CircuitOf(k) = IF openSince[k] = Absent THEN Circuits!Closed(failures[k])
                                                     ELSE Circuits!Open(openSince[k])
          /\ CircuitOf(k)' = IF openSince'[k] = Absent THEN Circuits!Closed(failures'[k])
                                                       ELSE Circuits!Open(openSince'[k])
    BY <1>1, <2>3 DEF CircuitCases
  <2>5. ASSUME NEW scope \in SUBSET Keys,
               \A k \in Keys : CircuitOf(k)' = IF k \in scope THEN Circuits!Closed(0)
                                                             ELSE CircuitOf(k)
        PROVE  Circuits!CircuitNext \/ UNCHANGED Mapped
    <3>1. Circuits!Reset(scope)
      BY <2>2, <2>5 DEF Circuits!Reset
    <3> QED
      BY <3>1 DEF Circuits!CircuitNext
  <2>6. ASSUME openSince' = openSince, failures' = failures
        PROVE  Circuits!CircuitNext \/ UNCHANGED Mapped
    BY <2>5, <2>4, <2>6, {} \in SUBSET Keys
  <2>7. ASSUME NEW scope \in SUBSET Keys, openSince' = openSince,
               \A k \in Keys : failures'[k] = IF k \in scope THEN 0 ELSE failures[k]
        PROVE  Circuits!CircuitNext \/ UNCHANGED Mapped
    <3> DEFINE closed == {k \in scope : openSince[k] = Absent}
    <3>1. \A k \in Keys : CircuitOf(k)' = IF k \in closed THEN Circuits!Closed(0)
                                                       ELSE CircuitOf(k)
      BY <2>4, <2>7
    <3> QED
      BY <2>5, <3>1, closed \in SUBSET Keys
  <2>8. ASSUME NEW scope \in SUBSET Keys, failures' = failures,
               \A k \in scope : failures[k] = 0,
               \A k \in Keys : openSince'[k] = IF k \in scope THEN Absent ELSE openSince[k]
        PROVE  Circuits!CircuitNext \/ UNCHANGED Mapped
    <3>1. \A k \in Keys : CircuitOf(k)' = IF k \in scope THEN Circuits!Closed(0)
                                                       ELSE CircuitOf(k)
      BY <2>4, <2>8
    <3> QED
      BY <2>5, <3>1
  <2> USE DEF SInv, TypeOK, CopyStands, Without
  <2>9. ASSUME NEW scope \in SUBSET Keys, ResetInPlace(scope)
        PROVE  Circuits!CircuitNext \/ UNCHANGED Mapped
    BY <2>7, <2>9 DEF ResetInPlace
  <2>10. CASE \E scope \in ProviderKeys : CopyFailures(scope)
    BY <2>6, <2>10 DEF CopyFailures
  <2>11. CASE ClearOpen
    BY <2>8, <2>11 DEF ClearOpen
  <2>12. CASE RebindFailures
    BY <2>7, <2>12 DEF RebindFailures
  <2>13. CASE CopyOpen
    BY <2>6, <2>13 DEF CopyOpen
  <2>14. CASE RebindOpen
    BY <2>8, <2>14 DEF RebindOpen
  <2>15. CASE ResetRaises
    BY <2>6, <2>15 DEF ResetRaises
  <2> HIDE DEF SInv, TypeOK, CopyStands
  <2>16. CASE ResetInPlace(Keys)
    BY <2>9, <2>16
  <2>17. CASE \E k \in Keys : ResetInPlace({k})
    BY <2>9, <2>17
  <2> QED
    BY <1>3, <2>10, <2>11, <2>12, <2>13, <2>14, <2>15, <2>16, <2>17 DEF AdminStep
<1>4. CASE Tick
  <2>1. AtProvider' = AtProvider
    BY <1>4 DEF Tick, AtProvider, Recorder
  <2>2. ASSUME NEW k \in Keys
        PROVE  \/ CircuitOf(k)' = CircuitOf(k)
               \/ \E age \in 0..ResetTimeout - 1 : /\ CircuitOf(k) = Circuits!Open(age)
                                                 /\ CircuitOf(k)' = Circuits!Open(age + 1)
    <3>1. \A labels : Recorder(k, labels)' = Recorder(k, labels)
      BY <1>4 DEF Tick, Recorder
    <3>2. ASSUME NEW age \in Age, CircuitOf(k) = Circuits!Open(age),
                 CircuitOf(k)' = Circuits!Open(Older(age))
          PROVE  \/ CircuitOf(k)' = CircuitOf(k)
                 \/ \E a \in 0..ResetTimeout - 1 : /\ CircuitOf(k) = Circuits!Open(a)
                                                 /\ CircuitOf(k)' = Circuits!Open(a + 1)
      <4>1. Older(age) = age \/ (age \in 0..ResetTimeout - 1 /\ Older(age) = age + 1)
        BY DEF Older, Min2, Age, Absent
      <4> QED
        BY <3>2, <4>1
    <3>3. ASSUME NEW t \in Recorder(k, {"store"})
          PROVE  /\ stamp[t] \in Age
                 /\ CircuitOf(k) = Circuits!Open(stamp[t])
                 /\ CircuitOf(k)' = Circuits!Open(Older(stamp[t]))
      BY <1>1, <1>4, <3>1, <3>3 DEF Tick, CircuitCases, Recorder, SInv, TypeOK
    <3>4. CASE Recorder(k, {"close"}) # {}
      BY <1>1, <3>1, <3>4 DEF CircuitCases
    <3>5. CASE Recorder(k, Outcome) = {} /\ openSince[k] # Absent
      <4>1. openSince[k] \in Age /\ openSince'[k] = Older(openSince[k])
        BY <1>4, <3>5 DEF Tick, SInv, TypeOK, Stamp
      <4>2. Older(openSince[k]) # Absent
        BY <4>1 DEF Stamp
      <4> QED
        BY <1>1, <3>1, <3>2, <3>5, <4>1, <4>2 DEF CircuitCases
    <3>6. CASE Recorder(k, Outcome) = {} /\ openSince[k] = Absent
      <4>1. openSince'[k] = Absent /\ failures' = failures
        BY <1>4, <3>6 DEF Tick, Older
      <4> QED
        BY <1>1, <3>1, <3>6, <4>1 DEF CircuitCases
    <3>7. \/ Recorder(k, Outcome) = {} \/ Recorder(k, {"close"}) # {}
          \/ \E t : t \in Recorder(k, {"store"})
      BY DEF Recorder, Outcome
    <3> QED
      BY <3>2, <3>3, <3>4, <3>5, <3>6, <3>7
  <2> DEFINE scope == {k \in Keys : CircuitOf(k)' # CircuitOf(k)}
             circuit == [k \in Keys |-> CircuitOf(k)]
  <2>3. \A k \in scope : /\ circuit[k].openFor \in 0..ResetTimeout - 1
                         /\ CircuitOf(k)' = Circuits!Open(circuit[k].openFor + 1)
    BY <2>2 DEF Circuits!Open
  <2>4. \A k \in Keys \ scope : CircuitOf(k)' = circuit[k]
    OBVIOUS
  <2>5. Circuits!TimePasses(scope)
    BY <2>1, <2>3, <2>4 DEF Circuits!TimePasses, Circuits!IsClosed, Circuits!IsHalfOpen
  <2> QED
    BY <2>5, scope \in SUBSET Keys DEF Circuits!CircuitNext
<1> QED
  BY <1>2, <1>3, <1>4 DEF SequentialNext, Next

(***************************************************************************)
(* Used from one thread, the two dictionaries of circuit_breaker.py        *)
(* implement the documented machine of one circuit per key, for any number *)
(* of keys, threshold and timeout: every step of a request, of a reset()   *)
(* and of the clock is a step of CircuitStates or changes no circuit.      *)
(***************************************************************************)
THEOREM ImplementsCircuits == SequentialSpec => Implements
<1> QED
  BY SequentialInit, SequentialStep, SimulationInit, SimulationStep, PTL
  DEF SequentialSpec, Implements, Circuits!CircuitSpec, Mapped
=============================================================================
