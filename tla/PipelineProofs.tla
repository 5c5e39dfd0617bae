--------------------------- MODULE PipelineProofs ---------------------------
(***************************************************************************)
(* What is proved of the pipeline for chains of any length and kind, any   *)
(* max_retries and any number of chunks.                                   *)
(***************************************************************************)
EXTENDS Pipeline, FiniteSetTheorems, SequenceTheorems, TLAPS

\* A chunk reaches the caller from a generator that has started, after the
\* chain has been left for good.
LeftChain ==
    /\ calls \in Nat
    /\ delivered \in Nat
    /\ delivered > 0 => phase \in {"streaming", "after", "on_error", "done"}
    /\ delivered > 0 /\ phase = "streaming" => value = "started"

LEMMA CountUpNat ==
    ASSUME NEW n \in Nat PROVE CountUp(n) \in Nat
BY PipelineAssumption DEF CountUp

\* Before the first chunk, pulling counts a call or none.
LEMMA PullFacts ==
    ASSUME LeftChain, NEW v, Pull(v)
    PROVE  /\ calls' \in Nat
           /\ value = "lazy" \/ (calls' = calls /\ v = value)
BY CountUpNat DEF Pull, Operates, LeftChain

LEMMA LeftChainInit == Init => LeftChain
BY DEF Init, LeftChain

LEMMA LeftChainStep == LeftChain /\ [Next]_vars => LeftChain'
<1> SUFFICES ASSUME LeftChain, [Next]_vars PROVE LeftChain'
  OBVIOUS
<1> USE DEF LeftChain
<1>1. CASE Application
  BY <1>1 DEF Application, Use, Begin, NoRequest
<1>2. CASE Engine
  \* The chain runs only before the first chunk, and keeps `delivered`.
  <2>1. CASE BeforeRequest \/ GateHaltsBefore \/ GateRaisesBefore \/ EnterChain
    BY <2>1 DEF BeforeRequest, GateHaltsBefore, GateRaisesBefore, EnterChain, ServeHalt,
                request
  <2>2. CASE CallNext \/ GateHalts \/ CacheHit \/ BreakerRejects \/ EnterRetry
    BY <2>2 DEF CallNext, GateHalts, CacheHit, BreakerRejects, EnterRetry, Execute,
                Descend, Leave
  <2>3. CASE CallProvider \/ MakeGenerator
    BY <2>3, CountUpNat DEF CallProvider, MakeGenerator, AtProvider, Leave, Operates
  <2>4. CASE PassUp
    BY <2>4 DEF PassUp, BackIn, Leave
  <2>5. CASE BreakerRecords \/ RetryDelivers \/ RetryGivesUp \/ RetryAgain
    BY <2>5, PullFacts DEF BreakerRecords, RetryDelivers, RetryGivesUp, RetryAgain,
                           BackIn, Leave
  <2>6. CASE Returns \/ ChainHalts \/ RunRaises \/ StreamRaises \/ StreamReady
    BY <2>6 DEF Returns, ChainHalts, RunRaises, StreamRaises, StreamReady, RunHooks,
                ServeHalt, BackInEngine, request
  <2>7. CASE AfterResponse \/ OnError \/ HooksDone
    BY <2>7 DEF AfterResponse, OnError, Hook, HooksDone, request
  <2> QED
    BY <1>2, <2>1, <2>2, <2>3, <2>4, <2>5, <2>6, <2>7 DEF Engine
<1>3. CASE Consumer
  <2>1. CASE Deliver
    BY <2>1, PullFacts DEF Deliver
  <2>2. CASE Exhausted \/ Breaks
    BY <2>2, PullFacts DEF Exhausted, Breaks, RunHooks
  <2>3. CASE Close \/ Drop
    BY <2>3 DEF Close, Drop, RunHooks, request
  <2> QED
    BY <1>3, <2>1, <2>2, <2>3 DEF Consumer
<1>4. CASE UNCHANGED vars
  BY <1>4 DEF vars, request
<1> QED
  BY <1>1, <1>2, <1>3, <1>4 DEF Next

\* After the first chunk the generator in the caller's hands has started, and
\* no step of the consumer, the hooks or the application adds a call.
LEMMA NoCallStep ==
    ASSUME LeftChain, [Next]_vars, delivered > 0
    PROVE  calls' <= calls
<1> USE DEF LeftChain
<1>1. CASE Application
  BY <1>1 DEF Application, Use, Begin, NoRequest
<1>2. CASE Engine
  <2>1. CASE GateHaltsBefore \/ GateRaisesBefore \/ BeforeRequest \/ EnterChain
    BY <2>1 DEF GateHaltsBefore, GateRaisesBefore, BeforeRequest, EnterChain
  <2>2. CASE \/ CallNext \/ GateHalts \/ CacheHit \/ BreakerRejects \/ EnterRetry
             \/ CallProvider \/ MakeGenerator
    BY <2>2 DEF CallNext, GateHalts, CacheHit, BreakerRejects, EnterRetry, Execute,
                CallProvider, MakeGenerator, AtProvider
  <2>3. CASE \/ PassUp \/ BreakerRecords \/ RetryDelivers \/ RetryGivesUp \/ RetryAgain
             \/ Returns \/ ChainHalts \/ RunRaises \/ StreamRaises \/ StreamReady
    BY <2>3 DEF PassUp, BreakerRecords, RetryDelivers, RetryGivesUp, RetryAgain, BackIn,
                Returns, ChainHalts, RunRaises, StreamRaises, StreamReady, BackInEngine
  <2>4. CASE AfterResponse \/ OnError \/ HooksDone
    BY <2>4 DEF AfterResponse, OnError, Hook, HooksDone, request
  <2> QED
    BY <1>2, <2>1, <2>2, <2>3, <2>4 DEF Engine
<1>3. CASE Consumer
  BY <1>3, PullFacts DEF Consumer, Deliver, Exhausted, Breaks, Close, Drop, request
<1>4. CASE UNCHANGED vars
  BY <1>4 DEF vars, request
<1> QED
  BY <1>1, <1>2, <1>3, <1>4 DEF Next

(***************************************************************************)
(* Once the caller has a chunk of a stream, no retry calls the provider    *)
(* again: retry.py:153-157 hands the started generator over, and           *)
(* _wrap_stream of engine.py re-raises what breaks it.                     *)
(***************************************************************************)
THEOREM StreamsOnce == Spec => NoCallAfterDelivery
<1>1. LeftChain /\ [Next]_vars => [delivered > 0 => calls' <= calls]_vars
  BY NoCallStep
<1> QED
  BY LeftChainInit, LeftChainStep, <1>1, PTL DEF Spec, NoCallAfterDelivery

-----------------------------------------------------------------------------
(* Hooks.                                                                  *)

\* What the walk is over, and what it counts in.
Shape ==
    /\ stack \in Seq(Kinds) /\ Len(stack) <= MaxLen
    /\ auto \in BOOLEAN
    /\ at \in Int
    /\ hooks \in [Positions -> [before : Nat, after : Nat, on_error : Nat]]
    /\ attempts \in [Positions -> Int]

\* The hooks of a phase have run from the last middleware down to the one behind
\* `at`, and those of the other phase not at all.
Clean == \A p \in Registered : hooks[p].after = 0 /\ hooks[p].on_error = 0

Reached(hook) == \A p \in Registered : hooks[p][hook] = (IF p > at THEN 1 ELSE 0)

HookOrder ==
    /\ phase \in {"before", "down", "up", "streaming"} => outcome = "none" /\ Clean
    /\ phase = "after" =>
         /\ outcome \in {"returned", "exhausted", "closed"}
         /\ at \in 0..Len(stack)
         /\ Reached("after") /\ \A p \in Registered : hooks[p].on_error = 0
    /\ phase = "on_error" =>
         /\ outcome = "raised"
         /\ at \in 0..Len(stack)
         /\ Reached("on_error") /\ \A p \in Registered : hooks[p].after = 0
    /\ phase \in {"before", "down", "up", "after", "on_error", "streaming", "done"}

LEMMA RegisteredPositions ==
    ASSUME Shape
    PROVE  /\ Registered = 1..Len(stack) /\ Len(stack) \in Nat
           /\ Registered \subseteq Positions
<1>1. Registered = 1..Len(stack) /\ Len(stack) \in Nat
  BY DEF Shape, Registered
<1>2. Len(stack) <= MaxLen /\ MaxLen \in Nat
  BY PipelineAssumption DEF Shape
<1> QED
  BY <1>1, <1>2 DEF Positions

LEMMA KindsOfLists == \A kinds \in Lists : kinds \in Seq(Kinds)
<1> SUFFICES ASSUME NEW kinds \in Lists PROVE kinds \in Seq(Kinds)
  OBVIOUS
<1>1. CASE \E k \in Kinds : kinds = <<k>>
  BY <1>1
<1>2. CASE \E k, l \in Kinds : kinds = <<k, l>>
  BY <1>2
<1> QED
  BY <1>1, <1>2 DEF Lists

HooksType == [Positions -> [before : Nat, after : Nat, on_error : Nat]]

LEMMA NoHooksType == [p \in Positions |-> NoHooks] \in HooksType
BY DEF HooksType, NoHooks

LEMMA RanType ==
    ASSUME Shape, NEW hook \in {"before", "after", "on_error"}, Ran(hook)
    PROVE  hooks' \in HooksType
<1>1. hooks \in HooksType
  BY DEF Shape, HooksType
<1>2. hooks' = [hooks EXCEPT ![at] = [hooks[at] EXCEPT ![hook] = hooks[at][hook] + 1]]
  BY DEF Ran
<1>3. ASSUME at \in Positions
      PROVE  [hooks[at] EXCEPT ![hook] = hooks[at][hook] + 1]
                \in [before : Nat, after : Nat, on_error : Nat]
  <2>1. hooks[at] \in [before : Nat, after : Nat, on_error : Nat]
    BY <1>1, <1>3 DEF HooksType
  <2>2. hook = "before" \/ hook = "after" \/ hook = "on_error"
    OBVIOUS
  <2> QED
    BY <2>1, <2>2
<1> QED
  BY <1>1, <1>2, <1>3 DEF HooksType

LEMMA ShapeInit == Init => Shape
<1> SUFFICES ASSUME Init PROVE Shape
  OBVIOUS
<1>1. hooks \in HooksType
  BY NoHooksType DEF Init
<1>2. stack \in Seq(Kinds) /\ Len(stack) <= MaxLen
  BY PipelineAssumption DEF Init
<1> QED
  BY <1>1, <1>2 DEF Init, Shape, HooksType

LEMMA ShapeStep == Shape /\ [Next]_vars => Shape'
<1> SUFFICES ASSUME Shape, [Next]_vars PROVE Shape'
  OBVIOUS
<1> USE DEF Shape
<1>1. CASE Application
  <2>1. ASSUME NEW kinds \in Lists, Use(kinds) PROVE Shape'
    <3>1. kinds \in Seq(Kinds)
      BY KindsOfLists
    <3>2. stack' \in Seq(Kinds) /\ Len(stack') <= MaxLen
      BY <2>1, <3>1 DEF Use
    <3>3. auto' \in BOOLEAN /\ at' \in Int
      BY <2>1 DEF Use
    <3>4. hooks' \in HooksType /\ attempts' \in [Positions -> Int]
      BY <2>1, NoHooksType DEF Use, NoRequest
    <3> QED
      BY <3>2, <3>3, <3>4 DEF HooksType
  <2>2. ASSUME NEW streaming \in BOOLEAN, Begin(streaming) PROVE Shape'
    BY <2>2 DEF Begin, NoRequest, NoHooks
  <2> QED
    BY <1>1, <2>1, <2>2 DEF Application
<1>2. CASE Engine
  <2>1. CASE BeforeRequest
    BY <2>1, RanType DEF BeforeRequest, HooksType
  <2>2. CASE GateHaltsBefore \/ GateRaisesBefore \/ EnterChain \/ ChainHalts
    BY <2>2 DEF GateHaltsBefore, GateRaisesBefore, EnterChain, ChainHalts, ServeHalt, request
  <2>3. CASE CallNext \/ GateHalts \/ CacheHit \/ BreakerRejects \/ EnterRetry
    BY <2>3 DEF CallNext, GateHalts, CacheHit, BreakerRejects, EnterRetry, Execute,
                Descend, Leave
  <2>4. CASE CallProvider \/ MakeGenerator \/ PassUp
    BY <2>4 DEF CallProvider, MakeGenerator, AtProvider, PassUp, Leave
  <2>5. CASE BreakerRecords \/ RetryDelivers \/ RetryGivesUp \/ RetryAgain
    <3>1. CASE BreakerRecords \/ RetryDelivers \/ RetryGivesUp
      BY <2>5, <3>1 DEF BreakerRecords, RetryDelivers, RetryGivesUp, Leave
    <3>2. CASE RetryAgain
      <4>1. /\ attempts' = [attempts EXCEPT ![at] = @ + 1] /\ at' = at + 1
            /\ UNCHANGED <<stack, auto, hooks>>
        BY <3>2 DEF RetryAgain
      <4>2. \A p \in Positions : attempts[p] + 1 \in Int
        OBVIOUS
      <4>3. attempts' \in [Positions -> Int]
        BY <4>1, <4>2
      <4> QED
        BY <4>1, <4>3
    <3> QED
      BY <2>5, <3>1, <3>2
  <2>6. CASE Returns \/ RunRaises \/ StreamRaises \/ StreamReady
    BY <2>6 DEF Returns, RunRaises, StreamRaises, StreamReady, RunHooks, request
  <2>7. CASE AfterResponse \/ OnError
    BY <2>7, RanType DEF AfterResponse, OnError, Hook, HooksType
  <2>8. CASE HooksDone
    BY <2>8 DEF HooksDone, request
  <2> QED
    BY <1>2, <2>1, <2>2, <2>3, <2>4, <2>5, <2>6, <2>7, <2>8 DEF Engine
<1>3. CASE Consumer
  BY <1>3 DEF Consumer, Deliver, Exhausted, Breaks, Close, Drop, RunHooks, request
<1>4. CASE UNCHANGED vars
  BY <1>4 DEF vars, request
<1> QED
  BY <1>1, <1>2, <1>3, <1>4 DEF Next

LEMMA HookOrderInit == Init => HookOrder
BY DEF Init, HookOrder

\* A hook has run for one more of the middleware.
LEMMA HookReached ==
    ASSUME Shape, HookOrder, NEW hook \in {"after", "on_error"}, Hook(hook)
    PROVE  HookOrder'
<1>1. /\ phase = hook /\ at >= 1 /\ at' = at - 1
      /\ UNCHANGED <<stack, phase, outcome>>
  BY DEF Hook
<1>2. at \in 1..Len(stack) /\ at \in Positions /\ Registered = 1..Len(stack)
  BY <1>1, RegisteredPositions DEF HookOrder
<1>3. hooks' = [hooks EXCEPT ![at][hook] = hooks[at][hook] + 1]
  BY DEF Hook, Ran
<1>4. \A p \in Registered : p # at => hooks'[p] = hooks[p]
  BY <1>3, RegisteredPositions DEF Shape
<1>5. /\ hooks'[at][hook] = hooks[at][hook] + 1
      /\ \A other \in {"after", "on_error"} \ {hook} : hooks'[at][other] = hooks[at][other]
  BY <1>2, <1>3 DEF Shape
<1>6. Reached(hook) /\ Registered' = Registered
  BY <1>1 DEF HookOrder, Registered
<1>7. Reached(hook)'
  BY <1>1, <1>2, <1>4, <1>5, <1>6 DEF Reached
<1>8. \A other \in {"after", "on_error"} \ {hook} : \A p \in Registered : hooks'[p][other] = 0
  BY <1>1, <1>4, <1>5 DEF HookOrder
<1> QED
  BY <1>1, <1>2, <1>6, <1>7, <1>8, RegisteredPositions DEF HookOrder

\* The terminal hooks of a clean request begin behind the last middleware.
LEMMA HooksBegin ==
    ASSUME Shape, Clean, UNCHANGED <<stack, hooks>>, at' = Len(stack),
           \/ phase' = "after" /\ outcome' \in {"returned", "exhausted", "closed"}
           \/ phase' = "on_error" /\ outcome' = "raised"
    PROVE  HookOrder'
<1>1. Registered' = Registered /\ Registered = 1..Len(stack) /\ Len(stack) \in Nat
  BY RegisteredPositions DEF Registered
<1>2. Reached("after")' /\ Reached("on_error")'
  BY <1>1 DEF Reached, Clean
<1> QED
  BY <1>1, <1>2 DEF HookOrder, Clean

LEMMA HookOrderStep == Shape /\ HookOrder /\ [Next]_vars => HookOrder'
<1> SUFFICES ASSUME Shape, HookOrder, [Next]_vars PROVE HookOrder'
  OBVIOUS
\* Most steps keep hooks and outcome, and stay clear of the terminal phases.
<1>1. ASSUME UNCHANGED <<stack, hooks, outcome>>, Clean, outcome = "none",
             phase' \in {"before", "down", "up", "streaming", "done"}
      PROVE  HookOrder'
  BY <1>1 DEF HookOrder, Clean, Registered
<1>2. ASSUME phase' = "done" PROVE HookOrder'
  BY <1>2 DEF HookOrder
<1>3. CASE Application
  <2>1. ASSUME NEW kinds \in Lists, Use(kinds) PROVE HookOrder'
    BY <2>1, <1>2 DEF Use
  <2>2. ASSUME NEW streaming \in BOOLEAN, Begin(streaming) PROVE HookOrder'
    <3>1. stack' = stack /\ phase' = "before" /\ outcome' = "none"
          /\ hooks' = [p \in Positions |-> NoHooks]
      BY <2>2 DEF Begin, NoRequest
    <3> QED
      BY <3>1, RegisteredPositions DEF HookOrder, Clean, NoHooks, Registered
  <2> QED
    BY <1>3, <2>1, <2>2 DEF Application
<1>4. CASE Engine
  <2>1. CASE BeforeRequest
    <3>1. phase = "before" /\ UNCHANGED <<stack, phase, outcome>>
          /\ hooks' = [hooks EXCEPT ![at]["before"] = hooks[at]["before"] + 1]
      BY <2>1 DEF BeforeRequest, Ran
    <3>2. \A p \in Positions : /\ hooks'[p].after = hooks[p].after
                               /\ hooks'[p].on_error = hooks[p].on_error
      BY <3>1 DEF Shape
    <3> QED
      BY <3>1, <3>2, RegisteredPositions DEF HookOrder, Clean, Registered
  <2>2. CASE GateHaltsBefore \/ ChainHalts
    <3>1. ServeHalt /\ phase \in {"before", "up"}
      BY <2>2 DEF GateHaltsBefore, ChainHalts, BackInEngine
    <3>2. outcome = "none" /\ Clean /\ UNCHANGED <<stack, hooks>>
      BY <3>1 DEF ServeHalt, HookOrder
    <3> QED
      BY <1>1, <1>2, <3>1, <3>2, HooksBegin DEF ServeHalt
  <2>3. CASE GateRaisesBefore \/ EnterChain
    BY <1>1, <1>2, <2>3 DEF GateRaisesBefore, EnterChain, HookOrder
  <2>4. CASE CallNext \/ GateHalts \/ CacheHit \/ BreakerRejects \/ EnterRetry
    BY <1>1, <2>4 DEF CallNext, GateHalts, CacheHit, BreakerRejects, EnterRetry, Execute,
                      Descend, Leave, HookOrder
  <2>5. CASE CallProvider \/ MakeGenerator \/ PassUp
    BY <1>1, <2>5 DEF CallProvider, MakeGenerator, AtProvider, PassUp, BackIn, Leave, HookOrder
  <2>6. CASE BreakerRecords \/ RetryDelivers \/ RetryGivesUp \/ RetryAgain
    BY <1>1, <2>6 DEF BreakerRecords, RetryDelivers, RetryGivesUp, RetryAgain, BackIn, Leave,
                      HookOrder
  <2>7. CASE Returns \/ RunRaises
    BY <2>7, HooksBegin DEF Returns, RunRaises, BackInEngine, RunHooks, HookOrder
  <2>8. CASE StreamRaises \/ StreamReady
    BY <1>1, <1>2, <2>8 DEF StreamRaises, StreamReady, BackInEngine, request, HookOrder
  <2>9. CASE AfterResponse \/ OnError
    BY <2>9, HookReached DEF AfterResponse, OnError
  <2>10. CASE HooksDone
    BY <1>2, <2>10 DEF HooksDone
  <2> QED
    BY <1>4, <2>1, <2>2, <2>3, <2>4, <2>5, <2>6, <2>7, <2>8, <2>9, <2>10 DEF Engine
<1>5. CASE Consumer
  <2>1. CASE Deliver \/ Drop
    BY <1>1, <1>2, <2>1 DEF Deliver, Drop, HookOrder
  <2>2. CASE Exhausted \/ Breaks \/ Close
    BY <2>2, HooksBegin DEF Exhausted, Breaks, Close, RunHooks, HookOrder
  <2> QED
    BY <1>5, <2>1, <2>2 DEF Consumer
<1>6. CASE UNCHANGED vars
  BY <1>6 DEF vars, request, HookOrder, Clean, Reached, Registered
<1> QED
  BY <1>3, <1>4, <1>5, <1>6 DEF Next

\* Only three ways lead out of a request that has met no terminal hook.
LEMMA HooksRunOnceStep ==
    Shape /\ HookOrder /\ HooksRunOnce /\ [Next]_vars => HooksRunOnce'
<1> SUFFICES ASSUME Shape, HookOrder, HooksRunOnce, [Next]_vars, phase' = "done"
             PROVE  HooksRunOnce'
  BY DEF HooksRunOnce
<1>1. ASSUME outcome' \notin {"returned", "raised", "exhausted", "closed"}
      PROVE  HooksRunOnce'
  BY <1>1 DEF HooksRunOnce
<1>2. CASE Application
  <2>1. ASSUME NEW kinds \in Lists, Use(kinds) PROVE HooksRunOnce'
    BY <1>1, <2>1 DEF Use, NoRequest
  <2>2. ASSUME NEW streaming \in BOOLEAN, Begin(streaming) PROVE HooksRunOnce'
    BY <2>2 DEF Begin
  <2> QED
    BY <1>2, <2>1, <2>2 DEF Application
<1>3. CASE Engine
  <2>1. CASE HooksDone
    <3>1. at = 0 /\ phase \in {"after", "on_error"} /\ UNCHANGED <<stack, hooks, outcome>>
      BY <2>1 DEF HooksDone, request
    <3>2. \A p \in Registered : p > at
      BY <3>1, RegisteredPositions
    <3> QED
      BY <3>1, <3>2 DEF HookOrder, Reached, HooksRunOnce, Registered
  <2>2. CASE GateHaltsBefore \/ ChainHalts
    BY <1>1, <2>2 DEF GateHaltsBefore, ChainHalts, ServeHalt
  <2>3. CASE GateRaisesBefore \/ StreamRaises
    BY <1>1, <2>3 DEF GateRaisesBefore, StreamRaises
  <2>4. CASE BeforeRequest \/ EnterChain \/ AfterResponse \/ OnError
    BY <2>4 DEF BeforeRequest, EnterChain, AfterResponse, OnError, Hook
  <2>5. CASE CallNext \/ GateHalts \/ CacheHit \/ BreakerRejects \/ EnterRetry
    BY <2>5 DEF CallNext, GateHalts, CacheHit, BreakerRejects, EnterRetry, Execute,
                Descend, Leave
  <2>6. CASE CallProvider \/ MakeGenerator \/ PassUp
    BY <2>6 DEF CallProvider, MakeGenerator, AtProvider, PassUp, Leave
  <2>7. CASE BreakerRecords \/ RetryDelivers \/ RetryGivesUp \/ RetryAgain
    BY <2>7 DEF BreakerRecords, RetryDelivers, RetryGivesUp, RetryAgain, Leave
  <2>8. CASE Returns \/ RunRaises \/ StreamReady
    BY <2>8 DEF Returns, RunRaises, StreamReady, RunHooks
  <2> QED
    BY <1>3, <2>1, <2>2, <2>3, <2>4, <2>5, <2>6, <2>7, <2>8 DEF Engine
<1>4. CASE Consumer
  BY <1>1, <1>4 DEF Consumer, Deliver, Exhausted, Breaks, Close, Drop, RunHooks
<1>5. CASE UNCHANGED vars
  BY <1>5 DEF vars, request, HooksRunOnce, Registered
<1> QED
  BY <1>2, <1>3, <1>4, <1>5 DEF Next

(***************************************************************************)
(* Every request that returns, raises, or ends or is closed as a stream    *)
(* has run exactly one of after_response and on_error of every middleware, *)
(* on_error if it raised (engine.py:147-261): also one whose               *)
(* before_request never ran, because an earlier one halted the request.    *)
(***************************************************************************)
THEOREM HooksOnce == Spec => []HooksRunOnce
<1>1. Init => HooksRunOnce
  BY DEF Init, HooksRunOnce
<1> QED
  BY <1>1, ShapeInit, ShapeStep, HookOrderInit, HookOrderStep, HooksRunOnceStep, PTL DEF Spec

-----------------------------------------------------------------------------
(* Calls.                                                                  *)

Pending == IF value = "lazy" THEN 1 ELSE 0

\* The walk stays on the chain.
Inside ==
    /\ phase = "down" => at \in 1..Len(Chain) + 1
    /\ phase = "up" => at \in 0..Len(Chain)

\* A retry loop below which the walk is has paid for all calls but the last.
Budget ==
    AtMostOne("retry") =>
        /\ phase = "before" => calls = 0
        /\ phase = "down" =>
             /\ \A p \in DOMAIN Chain : Chain[p] = "retry" /\ p < at =>
                  calls <= attempts[p] /\ attempts[p] <= MaxRetries
             /\ (\A p \in DOMAIN Chain : Chain[p] = "retry" => ~(p < at)) => calls = 0
        /\ phase = "up" =>
             /\ calls + Pending <= MaxRetries + 1
             /\ \A p \in DOMAIN Chain : Chain[p] = "retry" /\ p <= at =>
                  calls + Pending <= attempts[p] + 1 /\ attempts[p] <= MaxRetries
        /\ phase = "streaming" => calls + Pending <= MaxRetries + 1
        /\ calls <= MaxRetries + 1

\* use() of a retry middleware takes the shorthand away.
ShorthandYields == auto => \A p \in Registered : stack[p] # "retry"

LEMMA ChainPositions ==
    ASSUME Shape
    PROVE  DOMAIN Chain \subseteq Positions /\ Len(Chain) \in Nat /\ DOMAIN Chain = 1..Len(Chain)
<1>1. Len(stack) \in Nat /\ Len(stack) <= MaxLen /\ MaxLen \in Nat /\ stack \in Seq(Kinds)
  BY PipelineAssumption DEF Shape
<1>2. CASE auto
  <2>1. Chain = Append(stack, "retry")
    BY <1>2 DEF Chain
  <2>2. Len(Chain) = Len(stack) + 1 /\ DOMAIN Chain = 1..Len(Chain)
    BY <1>1, <2>1
  <2> QED
    BY <1>1, <2>2 DEF Positions
<1>3. CASE ~auto
  <2>1. Chain = stack
    BY <1>3 DEF Chain
  <2> QED
    BY <1>1, <2>1 DEF Positions
<1> QED
  BY <1>2, <1>3

\* Pulling turns the call a lazy generator stands for into one that was made.
LEMMA PullBudget ==
    ASSUME calls \in Nat, NEW v, Pull(v)
    PROVE  calls' \in Nat /\ calls' + (IF v = "lazy" THEN 1 ELSE 0) <= calls + Pending
BY PipelineAssumption DEF Pull, Operates, Pending, CountUp

\* Where the walk turns, and where it passes a middleware on its way up.
LEMMA LeaveBudget ==
    ASSUME Shape, calls \in Nat, Budget, AtMostOne("retry"), NEW v,
           Leave(v), calls' \in Nat, UNCHANGED attempts,
           \/ /\ phase = "down"
              /\ calls' + (IF v = "lazy" THEN 1 ELSE 0) <= calls + 1
           \/ /\ phase = "up"
              /\ calls' + (IF v = "lazy" THEN 1 ELSE 0) <= calls + Pending
    PROVE  Budget'
<1>1. /\ phase' = "up" /\ at' = at - 1 /\ value' = v
      /\ Chain' = Chain /\ attempts' = attempts
  BY DEF Leave, Chain
<1>2. MaxRetries \in Nat /\ at \in Int /\ attempts \in [Positions -> Int]
      /\ DOMAIN Chain \subseteq Int /\ DOMAIN Chain \subseteq Positions
  BY PipelineAssumption, ChainPositions DEF Shape, Positions
<1>3. PICK old \in 0..1 : old = IF value = "lazy" THEN 1 ELSE 0
  OBVIOUS
<1>4. PICK new \in 0..1 : new = IF v = "lazy" THEN 1 ELSE 0
  OBVIOUS
<1>5. PICK made \in Nat : made = calls'
  OBVIOUS
<1> SUFFICES /\ made + new <= MaxRetries + 1
             /\ \A p \in DOMAIN Chain : Chain[p] = "retry" /\ p <= at' =>
                  made + new <= attempts[p] + 1 /\ attempts[p] <= MaxRetries
  <2>1. made + new <= MaxRetries + 1 => made <= MaxRetries + 1
    BY <1>2
  <2> QED
    BY <1>5, <1>1, <1>2, <1>4, <2>1 DEF Budget, Pending
<1>6. CASE phase = "down"
  <2>1. made + new <= calls + 1
    BY <1>5, <1>4, <1>6
  <2>2. \A p \in DOMAIN Chain : Chain[p] = "retry" /\ p < at =>
          calls <= attempts[p] /\ attempts[p] <= MaxRetries
    BY <1>6 DEF Budget
  <2>3. calls <= MaxRetries
    BY <1>2, <1>6, <2>2 DEF Budget
  <2>4. ASSUME NEW p \in DOMAIN Chain, Chain[p] = "retry", p <= at'
        PROVE  made + new <= attempts[p] + 1 /\ attempts[p] <= MaxRetries
    <3>1. p < at /\ attempts[p] \in Int
      BY <1>1, <1>2, <2>4
    <3>2. calls <= attempts[p] /\ attempts[p] <= MaxRetries
      BY <2>2, <2>4, <3>1
    <3> QED
      BY <1>2, <2>1, <3>1, <3>2
  <2>5. made + new <= MaxRetries + 1
    BY <1>2, <2>1, <2>3
  <2> QED
    BY <2>4, <2>5
<1>7. CASE phase = "up"
  <2>1. made + new <= calls + old
    BY <1>5, <1>3, <1>4, <1>7 DEF Pending
  <2>2. calls + old <= MaxRetries + 1
    BY <1>3, <1>7 DEF Budget, Pending
  <2>3. ASSUME NEW p \in DOMAIN Chain, Chain[p] = "retry", p <= at'
        PROVE  made + new <= attempts[p] + 1 /\ attempts[p] <= MaxRetries
    <3>1. p <= at /\ attempts[p] \in Int
      BY <1>1, <1>2, <2>3
    <3>2. calls + old <= attempts[p] + 1 /\ attempts[p] <= MaxRetries
      BY <1>3, <1>7, <2>3, <3>1 DEF Budget, Pending
    <3> QED
      BY <1>2, <2>1, <3>1, <3>2
  <2>4. made + new <= MaxRetries + 1
    BY <1>2, <2>1, <2>2
  <2> QED
    BY <2>3, <2>4
<1> QED
  BY <1>6, <1>7

\* Elsewhere the budget is what is left of it.
LEMMA RestBudget ==
    ASSUME Shape, calls \in Nat, Budget, AtMostOne("retry"), calls' \in Nat,
           phase' \in {"streaming", "after", "on_error", "done"},
           \/ calls' + Pending' <= MaxRetries + 1
           \/ phase' # "streaming" /\ calls' <= MaxRetries + 1
    PROVE  Budget'
<1>1. PICK new \in 0..1 : new = IF value' = "lazy" THEN 1 ELSE 0
  OBVIOUS
<1>2. PICK made \in Nat : made = calls'
  OBVIOUS
<1>3. made <= MaxRetries + 1 /\ (phase' = "streaming" => made + new <= MaxRetries + 1)
  <2>1. \/ made + new <= MaxRetries + 1
        \/ phase' # "streaming" /\ made <= MaxRetries + 1
    BY <1>1, <1>2 DEF Pending
  <2> QED
    BY <2>1, PipelineAssumption
<1> QED
  BY <1>1, <1>2, <1>3 DEF Budget, Pending

LEMMA BudgetInit == Init => Budget
BY PipelineAssumption DEF Init, Budget

\* Down the chain: a retry loop's own position is added to what is above.
LEMMA DownBudget ==
    ASSUME Shape, Inside, calls \in Nat, Budget, AtMostOne("retry"),
           CallNext \/ EnterRetry
    PROVE  Budget'
<1>1. /\ phase = "down" /\ phase' = "down" /\ at' = at + 1 /\ calls' = calls
      /\ Chain' = Chain
  BY DEF CallNext, EnterRetry, Execute, Descend, Chain
<1>2. MaxRetries \in Nat /\ at \in Int /\ at >= 1 /\ DOMAIN Chain \subseteq Positions
      /\ DOMAIN Chain \subseteq Int
  BY <1>1, PipelineAssumption, ChainPositions DEF Shape, Inside, Positions
<1>3. CASE CallNext
  <2>1. attempts' = attempts /\ \A p \in DOMAIN Chain : Chain[p] = "retry" => p # at
    BY <1>3 DEF CallNext
  <2>2. \A p \in DOMAIN Chain : Chain[p] = "retry" => (p < at + 1 <=> p < at)
    BY <1>2, <2>1
  <2> QED
    BY <1>1, <1>2, <2>1, <2>2 DEF Budget
<1>4. CASE EnterRetry
  <2>1. attempts' = [attempts EXCEPT ![at] = 0] /\ Chain[at] = "retry" /\ at \in DOMAIN Chain
    BY <1>2, <1>4, ChainPositions DEF EnterRetry, Execute
  <2>2. \A p \in DOMAIN Chain : Chain[p] = "retry" => p = at
    BY <2>1 DEF AtMostOne
  <2>3. calls = 0
    BY <1>1, <1>2, <2>2 DEF Budget
  <2>4. attempts'[at] = 0
    BY <1>2, <2>1 DEF Shape
  <2> QED
    BY <1>1, <1>2, <2>1, <2>2, <2>3, <2>4 DEF Budget
<1> QED
  BY <1>3, <1>4

\* Another attempt pays for the call that failed.
LEMMA RetryBudget ==
    ASSUME Shape, Inside, calls \in Nat, Budget, AtMostOne("retry"), RetryAgain
    PROVE  Budget'
<1>1. /\ phase = "up" /\ at >= 1 /\ Chain[at] = "retry"
      /\ attempts' = [attempts EXCEPT ![at] = @ + 1]
      /\ phase' = "down" /\ at' = at + 1 /\ Chain' = Chain
      /\ attempts[at] < MaxRetries
  BY DEF RetryAgain, BackIn, MayRetry, Chain
<1>2. PICK v \in Raised : Pull(v)
  BY DEF RetryAgain
<1>3. MaxRetries \in Nat /\ at \in Int /\ DOMAIN Chain \subseteq Positions
      /\ DOMAIN Chain \subseteq Int
  BY PipelineAssumption, ChainPositions, SMTT(30) DEF Shape, Positions
<1>4. PICK old \in 0..1 : old = IF value = "lazy" THEN 1 ELSE 0
  OBVIOUS
<1>5. PICK made \in Nat : made = calls'
  BY <1>2, PullBudget
<1>6. made <= calls + old
  <2>1. v # "lazy"
    BY <1>2 DEF Raised, Errors
  <2>2. made + 0 <= calls + old
    BY <1>2, <1>4, <1>5, <2>1, PullBudget DEF Pending
  <2> QED
    BY <2>2
<1>7. at \in DOMAIN Chain
  BY <1>1, <1>3, ChainPositions DEF Inside
<1>8. attempts[at] \in Int /\ attempts'[at] = attempts[at] + 1
  BY <1>1, <1>3, <1>7 DEF Shape
<1>9. calls + old <= attempts[at] + 1
  BY <1>1, <1>3, <1>4, <1>7 DEF Budget, Pending
<1>10. made <= attempts'[at] /\ attempts'[at] <= MaxRetries /\ made <= MaxRetries + 1
  BY <1>1, <1>3, <1>6, <1>8, <1>9
<1>11. \A p \in DOMAIN Chain : Chain[p] = "retry" => p = at
  BY <1>1, <1>7 DEF AtMostOne
<1> QED
  BY <1>1, <1>3, <1>5, <1>7, <1>10, <1>11 DEF Budget

LEMMA InsideInit == Init => Inside
BY DEF Init, Inside

LEMMA InsideStep == Shape /\ Inside /\ [Next]_vars => Inside'
<1> SUFFICES ASSUME Shape, Inside, [Next]_vars PROVE Inside'
  OBVIOUS
<1>1. Len(Chain) \in Nat /\ at \in Int
  BY ChainPositions DEF Shape
<1>2. ASSUME phase' \notin {"down", "up"} PROVE Inside'
  BY <1>2 DEF Inside
<1>3. ASSUME UNCHANGED <<stack, auto>>,
             \/ phase = "down" /\ at <= Len(Chain) /\ phase' = "down" /\ at' = at + 1
             \/ phase \in {"down", "up"} /\ phase' = "up" /\ at' = at - 1
                  /\ (phase = "up" => at >= 1)
             \/ phase = "up" /\ at >= 1 /\ phase' = "down" /\ at' = at + 1
             \/ phase' = "down" /\ at' = 1
             \/ phase' = phase /\ at' = at
      PROVE  Inside'
  <2>1. Chain' = Chain
    BY <1>3 DEF Chain
  <2> QED
    BY <1>1, <1>3, <2>1 DEF Inside
<1>4. CASE Application
  BY <1>2, <1>4 DEF Application, Use, Begin
<1>5. CASE Engine
  <2>1. CASE BeforeRequest \/ GateHaltsBefore \/ GateRaisesBefore \/ ChainHalts
    BY <1>2, <2>1 DEF BeforeRequest, GateHaltsBefore, GateRaisesBefore, ChainHalts, ServeHalt
  <2>2. CASE EnterChain
    BY <1>3, <2>2 DEF EnterChain
  <2>3. CASE CallNext \/ EnterRetry
    BY <1>3, <2>3 DEF CallNext, EnterRetry, Execute, Descend
  <2>4. CASE GateHalts \/ CacheHit \/ BreakerRejects \/ CallProvider \/ MakeGenerator
    BY <1>3, <2>4 DEF GateHalts, CacheHit, BreakerRejects, CallProvider, MakeGenerator,
                      Execute, AtProvider, Leave
  <2>5. CASE PassUp \/ BreakerRecords \/ RetryDelivers \/ RetryGivesUp
    BY <1>3, <2>5 DEF PassUp, BreakerRecords, RetryDelivers, RetryGivesUp, BackIn, Leave
  <2>6. CASE RetryAgain
    BY <1>3, <2>6 DEF RetryAgain, BackIn
  <2>7. CASE Returns \/ RunRaises \/ StreamRaises \/ StreamReady
    BY <1>2, <2>7 DEF Returns, RunRaises, StreamRaises, StreamReady, RunHooks
  <2>8. CASE AfterResponse \/ OnError \/ HooksDone
    BY <1>2, <2>8 DEF AfterResponse, OnError, Hook, HooksDone
  <2> QED
    BY <1>5, <2>1, <2>2, <2>3, <2>4, <2>5, <2>6, <2>7, <2>8 DEF Engine
<1>6. CASE Consumer
  BY <1>2, <1>6 DEF Consumer, Deliver, Exhausted, Breaks, Close, Drop, RunHooks
<1>7. CASE UNCHANGED vars
  BY <1>3, <1>7 DEF vars, request, Inside
<1> QED
  BY <1>4, <1>5, <1>6, <1>7 DEF Next

\* Only the application changes what is registered.
LEMMA StackStays == [Next]_vars /\ ~Application => UNCHANGED <<stack, auto>>
BY DEF Next, vars, request, Engine, Consumer, BeforeRequest, GateHaltsBefore,
   GateRaisesBefore, EnterChain, CallNext, GateHalts, CacheHit, BreakerRejects, EnterRetry,
   CallProvider, MakeGenerator, PassUp, BreakerRecords, RetryDelivers, RetryGivesUp,
   RetryAgain, Returns, ChainHalts, RunRaises, StreamRaises, StreamReady, AfterResponse,
   OnError, HooksDone, Hook, Leave, Descend, RunHooks, ServeHalt, Deliver, Exhausted,
   Breaks, Close, Drop

LEMMA BudgetStep == Shape /\ Inside /\ LeftChain /\ Budget /\ [Next]_vars => Budget'
<1> SUFFICES ASSUME Shape, Inside, LeftChain, Budget, [Next]_vars PROVE Budget'
  OBVIOUS
<1>1. calls \in Nat /\ calls' \in Nat
  BY LeftChainStep DEF LeftChain
<1>2. CASE Application
  BY <1>2, PipelineAssumption DEF Application, Use, Begin, NoRequest, Budget
<1>3. CASE ~Application
  <2> SUFFICES ASSUME AtMostOne("retry")' PROVE Budget'
    BY DEF Budget
  <2>1. UNCHANGED <<stack, auto>>
    BY <1>3, StackStays
  <2>2. Chain' = Chain /\ AtMostOne("retry")
    BY <2>1 DEF Chain, AtMostOne
  <2>3. MaxRetries \in Nat /\ \A p \in DOMAIN Chain : ~(p < 1)
    BY PipelineAssumption, ChainPositions
  <2>4. Pending \in 0..1 /\ Pending' \in 0..1
    BY DEF Pending
  <2>5. calls <= MaxRetries + 1 /\ (phase \in {"before", "down"} => calls <= MaxRetries + 1)
    BY <2>2 DEF Budget
  <2>6. CASE BeforeRequest
    BY <2>2, <2>6 DEF BeforeRequest, Budget
  <2>7. CASE EnterChain
    <3>1. calls' = 0 /\ phase' = "down" /\ at' = 1
      BY <2>2, <2>7 DEF EnterChain, Budget
    <3> QED
      BY <2>2, <2>3, <3>1 DEF Budget
  <2>8. CASE GateHaltsBefore \/ ChainHalts
    <3>1. calls' = calls /\ phase' \in {"after", "streaming", "done"}
          /\ (phase' = "streaming" => value' \in {"started", "empty"})
      BY <2>8 DEF GateHaltsBefore, ChainHalts, ServeHalt
    <3>2. phase' = "streaming" => Pending' = 0
      BY <3>1 DEF Pending
    <3>3. calls' + 0 <= MaxRetries + 1
      BY <1>1, <2>5, <3>1
    <3> QED
      BY <1>1, <2>2, <3>1, <3>2, <3>3, RestBudget
  <2>9. CASE GateRaisesBefore \/ StreamRaises \/ HooksDone \/ AfterResponse \/ OnError
    <3>1. calls' = calls /\ phase' \in {"after", "on_error", "done"}
      BY <2>9 DEF GateRaisesBefore, StreamRaises, HooksDone, AfterResponse, OnError, Hook, request
    <3> QED
      BY <1>1, <2>2, <2>5, <3>1, RestBudget
  <2>10. CASE CallNext \/ EnterRetry
    BY <1>1, <2>2, <2>10, DownBudget
  <2>11. CASE GateHalts \/ CacheHit \/ BreakerRejects
    <3>1. PICK v \in {"halt", "response", "rejected"} : Leave(v)
      BY <2>11 DEF GateHalts, CacheHit, BreakerRejects
    <3>2. phase = "down" /\ calls' = calls /\ attempts' = attempts
      BY <2>11 DEF GateHalts, CacheHit, BreakerRejects, Execute
    <3>3. calls' + (IF v = "lazy" THEN 1 ELSE 0) <= calls + 1
      BY <1>1, <3>1, <3>2
    <3> QED
      BY <1>1, <2>2, <3>1, <3>2, <3>3, LeaveBudget
  <2>12. CASE CallProvider
    <3>1. PICK v \in {"response", "transient", "permanent"} :
              Operates(v, {"response", "transient", "permanent"}) /\ Leave(v)
      BY <2>12 DEF CallProvider
    <3>2. phase = "down" /\ attempts' = attempts /\ (calls' = CountUp(calls) \/ calls' = calls)
      BY <2>12, <3>1 DEF CallProvider, AtProvider, Operates
    <3>3. calls' + (IF v = "lazy" THEN 1 ELSE 0) <= calls + 1
      <4>1. calls' <= calls + 1 /\ v # "lazy" /\ calls' \in Int
        BY <1>1, <3>2, PipelineAssumption DEF CountUp
      <4> QED
        BY <4>1
    <3>4. Leave(v)
      BY <3>1
    <3> QED
      BY <1>1, <2>2, <3>2, <3>3, <3>4, LeaveBudget
  <2>13. CASE MakeGenerator
    <3>1. phase = "down" /\ calls' = calls /\ attempts' = attempts /\ Leave("lazy")
      BY <2>13 DEF MakeGenerator, AtProvider
    <3>2. calls' + (IF "lazy" = "lazy" THEN 1 ELSE 0) <= calls + 1
      BY <1>1, <3>1
    <3> QED
      BY <1>1, <2>2, <3>1, <3>2, LeaveBudget
  <2>14. CASE PassUp
    <3>1. phase = "up" /\ calls' = calls /\ attempts' = attempts /\ Leave(value)
      BY <2>14 DEF PassUp, BackIn
    <3>2. calls' + (IF value = "lazy" THEN 1 ELSE 0) <= calls + Pending
      BY <1>1, <3>1 DEF Pending
    <3> QED
      BY <1>1, <2>2, <3>1, <3>2, LeaveBudget
  <2>15. CASE BreakerRecords \/ RetryDelivers \/ RetryGivesUp
    <3>1. PICK v : Pull(v) /\ Leave(v)
      BY <2>15 DEF BreakerRecords, RetryDelivers, RetryGivesUp
    <3>2. phase = "up" /\ attempts' = attempts
      BY <2>15 DEF BreakerRecords, RetryDelivers, RetryGivesUp, BackIn
    <3>3. calls' + (IF v = "lazy" THEN 1 ELSE 0) <= calls + Pending
      BY <1>1, <3>1, PullBudget
    <3> QED
      BY <1>1, <2>2, <3>1, <3>2, <3>3, LeaveBudget
  <2>16. CASE RetryAgain
    BY <1>1, <2>2, <2>16, RetryBudget
  <2>17. CASE Returns \/ RunRaises
    <3>1. calls' = calls /\ phase' \in {"after", "on_error"}
      BY <2>17 DEF Returns, RunRaises, RunHooks
    <3> QED
      BY <1>1, <2>2, <2>5, <3>1, RestBudget
  <2>18. CASE StreamReady
    <3>1. phase = "up" /\ phase' = "streaming" /\ calls' = calls /\ value' = value
      BY <2>18 DEF StreamReady, BackInEngine, request
    <3>2. calls' + Pending' <= MaxRetries + 1
      BY <2>2, <3>1 DEF Budget, Pending
    <3> QED
      BY <1>1, <2>2, <3>1, <3>2, RestBudget
  <2>19. CASE Consumer
    <3>1. phase = "streaming" /\ phase' \in {"streaming", "after", "on_error", "done"}
      BY <2>19 DEF Consumer, Deliver, Exhausted, Breaks, Close, Drop, RunHooks
    <3>2. calls + Pending <= MaxRetries + 1
      BY <2>2, <3>1 DEF Budget
    <3>3. calls' = calls \/ \E v : Pull(v) /\ v # "lazy"
      BY <2>19 DEF Consumer, Deliver, Exhausted, Breaks, Close, Drop, request
    <3>4. phase' = "streaming" => value' = "started"
      BY <2>19, <3>1 DEF Consumer, Deliver, Exhausted, Breaks, Close, Drop, RunHooks
    <3>5. PICK made \in Nat : made = calls'
      BY <1>1
    <3>6. made <= MaxRetries + 1
      <4>1. CASE calls' = calls
        BY <2>5, <3>5, <4>1
      <4>2. CASE \E v : Pull(v) /\ v # "lazy"
        <5>1. made + 0 <= calls + Pending
          BY <1>1, <3>5, <4>2, PullBudget
        <5> QED
          BY <1>1, <2>3, <2>4, <3>2, <5>1
      <4> QED
        BY <3>3, <4>1, <4>2
    <3>7. phase' = "streaming" => Pending' = 0
      BY <3>4 DEF Pending
    <3>8. made + 0 <= MaxRetries + 1
      BY <3>6
    <3> QED
      BY <1>1, <2>2, <3>1, <3>5, <3>6, <3>7, <3>8, RestBudget
  <2>20. CASE UNCHANGED vars
    BY <2>20 DEF vars, request, Budget, AtMostOne, Chain, Pending
  <2> QED
    BY <1>3, <2>6, <2>7, <2>8, <2>9, <2>10, <2>11, <2>12, <2>13, <2>14, <2>15, <2>16, <2>17,
       <2>18, <2>19, <2>20 DEF Next, Engine
<1> QED
  BY <1>2, <1>3

LEMMA ShorthandInit == Init => ShorthandYields
BY DEF Init, ShorthandYields, Registered

LEMMA ShorthandStep == Shape /\ ShorthandYields /\ [Next]_vars => ShorthandYields'
<1> SUFFICES ASSUME Shape, ShorthandYields, [Next]_vars PROVE ShorthandYields'
  OBVIOUS
<1>1. ASSUME NEW kinds \in Lists, Use(kinds) PROVE ShorthandYields'
  <2> SUFFICES ASSUME auto', NEW p \in DOMAIN stack' PROVE stack'[p] # "retry"
    BY DEF ShorthandYields, Registered
  <2>1. auto /\ \A i \in DOMAIN kinds : kinds[i] # "retry"
    BY <1>1 DEF Use
  <2>2. stack' = stack \o kinds /\ stack \in Seq(Kinds) /\ kinds \in Seq(Kinds)
    BY <1>1, KindsOfLists DEF Use, Shape
  <2>3. /\ Len(stack) \in Nat /\ Len(kinds) \in Nat
        /\ DOMAIN stack = 1..Len(stack) /\ DOMAIN kinds = 1..Len(kinds)
    BY <2>2, LenProperties
  <2>4. DOMAIN stack' = 1..Len(stack) + Len(kinds)
    BY <2>2, <2>3
  <2>5. /\ \A i \in 1..Len(stack) : stack'[i] = stack[i]
        /\ \A i \in 1..Len(kinds) : stack'[Len(stack) + i] = kinds[i]
    BY <2>2, ConcatProperties
  <2>6. CASE p <= Len(stack)
    BY <2>1, <2>3, <2>4, <2>5, <2>6 DEF ShorthandYields, Registered
  <2>7. CASE p > Len(stack)
    <3>1. PICK i \in 1..Len(kinds) : p = Len(stack) + i
      <4>1. p - Len(stack) \in 1..Len(kinds) /\ p = Len(stack) + (p - Len(stack))
        BY <2>3, <2>4, <2>7
      <4> QED
        BY <4>1
    <3> QED
      BY <2>1, <2>3, <2>5, <3>1
  <2> QED
    BY <2>3, <2>4, <2>6, <2>7
<1>2. ASSUME UNCHANGED <<stack, auto>> PROVE ShorthandYields'
  BY <1>2 DEF ShorthandYields, Registered
<1>3. CASE Application
  BY <1>1, <1>2, <1>3 DEF Application, Begin
<1>4. CASE ~Application
  BY <1>2, <1>4, StackStays
<1> QED
  BY <1>3, <1>4

\* What AttemptBudget counts is at most one retry loop, the shorthand included.
LEMMA OneRetry ==
    ASSUME Shape, ShorthandYields, Cardinality({p \in Registered : stack[p] = "retry"}) <= 1
    PROVE  AtMostOne("retry")
<1> DEFINE loops == {p \in Registered : stack[p] = "retry"}
<1>1. IsFiniteSet(loops) /\ Registered = 1..Len(stack) /\ Len(stack) \in Nat
  <2>1. IsFiniteSet(1..Len(stack))
    BY RegisteredPositions, FS_Interval
  <2>2. loops \subseteq 1..Len(stack)
    BY RegisteredPositions
  <2> QED
    BY <2>1, <2>2, RegisteredPositions, FS_Subset
<1>2. \A p, q \in loops : p = q
  <2>1. Cardinality(loops) \in Nat
    BY <1>1, FS_CardinalityType
  <2>2. Cardinality(loops) = 0 \/ Cardinality(loops) = 1
    BY <2>1
  <2>3. CASE Cardinality(loops) = 0
    <3>1. loops = {}
      BY <1>1, <2>3, FS_EmptySet
    <3> QED
      BY <3>1
  <2>4. CASE Cardinality(loops) = 1
    <3>1. PICK x : loops = {x}
      BY <1>1, <2>4, FS_Singleton
    <3> QED
      BY <3>1
  <2> QED
    BY <2>2, <2>3, <2>4
<1>3. CASE ~auto
  BY <1>2, <1>3 DEF AtMostOne, Chain, Registered
<1>4. CASE auto
  <2>1. Chain = Append(stack, "retry") /\ stack \in Seq(Kinds)
    BY <1>4 DEF Chain, Shape
  <2>2. \A p \in DOMAIN Chain : p = Len(stack) + 1 \/ (p \in Registered /\ Chain[p] = stack[p])
    BY <2>1 DEF Registered
  <2>3. \A p \in DOMAIN Chain : Chain[p] = "retry" => p = Len(stack) + 1
    BY <1>4, <2>2 DEF ShorthandYields
  <2> QED
    BY <2>3 DEF AtMostOne
<1> QED
  BY <1>3, <1>4

(***************************************************************************)
(* An application with at most one retry middleware never has one request  *)
(* call the provider more than max_retries + 1 times: use() takes the      *)
(* shorthand away, and a retry loop pays for every further attempt of all  *)
(* that lies below it (retry.py:93-157, client.py:377-387).                *)
(***************************************************************************)
THEOREM CallsBudgeted == Spec => []AttemptBudget
<1>1. Shape /\ ShorthandYields /\ Budget => AttemptBudget
  BY OneRetry DEF AttemptBudget, Budget
<1> QED
  BY <1>1, ShapeInit, ShapeStep, InsideInit, InsideStep, LeftChainInit, LeftChainStep,
     BudgetInit, BudgetStep, ShorthandInit, ShorthandStep, PTL DEF Spec

-----------------------------------------------------------------------------
(* Reports.                                                                *)

\* What nothing but a call brings about.
Answers == {"response", "started", "empty", "transient"}

\* Unless a cache or a halt answered, every attempt but the running one has
\* called the provider once, and so has the running one when it has an answer.
Counted ==
    AtMostOne("retry") /\ ~ctx.hit /\ ~ctx.halted =>
        /\ phase = "before" => calls = 0 /\ ctx.attempt = 0
        /\ phase = "down" =>
             /\ calls = ctx.attempt
             /\ \A p \in DOMAIN Chain : Chain[p] = "retry" /\ p < at =>
                  attempts[p] = ctx.attempt
        /\ phase = "up" =>
             /\ \A p \in DOMAIN Chain : Chain[p] = "retry" /\ p <= at =>
                  attempts[p] = ctx.attempt
        /\ phase \in {"up", "streaming"} =>
             /\ value = "lazy" => calls = ctx.attempt
             /\ value \in Answers => calls = ctx.attempt + 1
        /\ phase = "after" => calls = ctx.attempt + 1

\* The one breaker, outside of the retries.
OneBreaker(b) ==
    /\ b \in DOMAIN Chain /\ Chain[b] = "breaker"
    /\ \A p \in DOMAIN Chain : /\ Chain[p] = "breaker" => p = b
                               /\ Chain[p] = "retry" => b < p

\* The request raised before its caller had anything, other than by a rejection.
RaisedEarly ==
    value # "rejected" /\ (outcome = "escaped" \/ (outcome = "raised" /\ ~stream))

\* The walk passes it once on its way up; what it recorded then is what the
\* request comes to.
Account(b) ==
    /\ phase \in {"before", "down"} => records = NoRecords
    /\ phase = "up" =>
         /\ b <= at => records = NoRecords /\ value # "rejected"
         /\ ~(b <= at) => (records.fail = 1 <=> value \in Errors /\ value # "rejected")
    /\ phase \in {"streaming", "after"} => records.fail = 0
    /\ phase \in {"on_error", "done"} => (records.fail = 1 <=> RaisedEarly)
    /\ records.ok + records.fail <= 1
    /\ records.ok = 1 => calls > 0 \/ ctx.hit

\* Where answers come from.
Answered ==
    phase = "up" => (value \in {"response", "started"} => calls > 0 \/ ctx.hit)

Accounted ==
    /\ \A b \in DOMAIN Chain : OneBreaker(b) => Account(b)
    /\ Answered
    /\ phase = "streaming" => stream
    /\ records \in [ok : Nat, fail : Nat]

\* The before_request hooks have run up to `at`.
Prepared ==
    phase = "before" => /\ at \in 1..Len(stack) + 1
                        /\ \A p \in Positions : p >= at => hooks[p].before = 0

-----------------------------------------------------------------------------
(* Types.                                                                  *)

LEMMA CountUpType == \A n \in 0..MaxCount : CountUp(n) \in 0..MaxCount
BY PipelineAssumption DEF CountUp

LEMMA PullType ==
    ASSUME TypeOK, NEW v, Pull(v)
    PROVE  /\ calls' \in 0..MaxCount
           /\ v \in Returned \cup Raised \cup {"none"}
BY CountUpType DEF Pull, Operates, TypeOK, Returned, Raised, Errors

\* Where a step leaves the walk.
LEMMA TypeOfAt ==
    ASSUME TypeOK, Shape, Inside, Prepared, HookOrder, [Next]_vars
    PROVE  at' \in 0..MaxLen + 2
<1>1. /\ Len(stack) \in Nat /\ Len(stack) <= MaxLen /\ MaxLen \in Nat
      /\ at \in 0..MaxLen + 2
      /\ Len(Chain) \in Nat /\ Len(Chain) <= MaxLen + 1
  <2>1. Len(Chain) \in Nat /\ DOMAIN Chain = 1..Len(Chain) /\ DOMAIN Chain \subseteq Positions
    BY ChainPositions
  <2>2. Len(Chain) = 0 \/ Len(Chain) \in Positions
    BY <2>1
  <2> QED
    BY <2>1, <2>2, PipelineAssumption, SMTT(30) DEF Shape, TypeOK, Positions
<1>2. CASE Application
  BY <1>1, <1>2 DEF Application, Use, Begin
<1>3. CASE Engine
  <2>1. CASE BeforeRequest \/ EnterChain \/ GateHaltsBefore \/ GateRaisesBefore \/ ChainHalts
    BY <1>1, <2>1 DEF BeforeRequest, EnterChain, GateHaltsBefore, GateRaisesBefore, ChainHalts,
                      ServeHalt, Prepared, request
  <2>2. CASE CallNext \/ EnterRetry
    BY <1>1, <2>2 DEF CallNext, EnterRetry, Execute, Descend, Inside
  <2>3. CASE GateHalts \/ CacheHit \/ BreakerRejects \/ CallProvider \/ MakeGenerator
    BY <1>1, <2>3 DEF GateHalts, CacheHit, BreakerRejects, CallProvider, MakeGenerator,
                      Execute, AtProvider, Leave, Inside
  <2>4. CASE PassUp \/ BreakerRecords \/ RetryDelivers \/ RetryGivesUp \/ RetryAgain
    <3>1. phase = "up" /\ at >= 1 /\ (at' = at - 1 \/ at' = at + 1)
      BY <2>4 DEF PassUp, BreakerRecords, RetryDelivers, RetryGivesUp, RetryAgain, BackIn, Leave
    <3> QED
      BY <1>1, <3>1 DEF Inside
  <2>5. CASE Returns \/ RunRaises \/ StreamRaises \/ StreamReady
    BY <1>1, <2>5 DEF Returns, RunRaises, StreamRaises, StreamReady, RunHooks, request
  <2>6. CASE AfterResponse \/ OnError \/ HooksDone
    BY <1>1, <2>6 DEF AfterResponse, OnError, HooksDone, Hook, request
  <2> QED
    BY <1>3, <2>1, <2>2, <2>3, <2>4, <2>5, <2>6 DEF Engine
<1>4. CASE Consumer
  BY <1>1, <1>4 DEF Consumer, Deliver, Exhausted, Breaks, Close, Drop, RunHooks, request
<1>5. CASE UNCHANGED vars
  BY <1>1, <1>5 DEF vars, request
<1> QED
  BY <1>2, <1>3, <1>4, <1>5 DEF Next

HookBits == [Positions -> [before : 0..1, after : 0..1, on_error : 0..1]]

\* A hook that has not run runs.
LEMMA RanBits ==
    ASSUME hooks \in HookBits, NEW hook \in {"before", "after", "on_error"}, Ran(hook),
           at \in Positions => hooks[at][hook] = 0
    PROVE  hooks' \in HookBits
<1>1. hooks' = [hooks EXCEPT ![at] = [hooks[at] EXCEPT ![hook] = hooks[at][hook] + 1]]
  BY DEF Ran
<1>2. ASSUME at \in Positions
      PROVE  [hooks[at] EXCEPT ![hook] = hooks[at][hook] + 1]
                \in [before : 0..1, after : 0..1, on_error : 0..1]
  <2>1. hooks[at] \in [before : 0..1, after : 0..1, on_error : 0..1]
    BY <1>2 DEF HookBits
  <2>2. hook = "before" \/ hook = "after" \/ hook = "on_error"
    OBVIOUS
  <2>3. hooks[at][hook] + 1 \in 0..1
    BY <1>2
  <2> QED
    BY <2>1, <2>2, <2>3
<1> QED
  BY <1>1, <1>2 DEF HookBits

LEMMA NoHooksBits == [p \in Positions |-> NoHooks] \in HookBits
BY DEF HookBits, NoHooks

LEMMA TypeOfHooks ==
    ASSUME hooks \in HookBits, Shape, Prepared, HookOrder, [Next]_vars
    PROVE  hooks' \in HookBits
<1>1. CASE Application
  BY <1>1, NoHooksBits DEF Application, Use, Begin, NoRequest
<1>2. CASE BeforeRequest
  <2>1. at \in Positions => hooks[at].before = 0
    BY <1>2 DEF BeforeRequest, Prepared, Shape
  <2> QED
    BY <1>2, <2>1, RanBits DEF BeforeRequest
<1>3. CASE AfterResponse \/ OnError
  <2>1. PICK hook \in {"after", "on_error"} : Hook(hook)
    BY <1>3 DEF AfterResponse, OnError
  <2>2. phase = hook /\ Ran(hook) /\ at >= 1
    BY <2>1 DEF Hook
  <2>3. at \in Registered /\ ~(at > at)
    BY <2>2, RegisteredPositions DEF HookOrder, Shape
  <2>4. hooks[at][hook] = 0
    BY <2>2, <2>3 DEF HookOrder, Reached
  <2> QED
    BY <2>2, <2>4, RanBits
<1>4. CASE Engine /\ ~BeforeRequest /\ ~AfterResponse /\ ~OnError
  BY <1>4 DEF Engine, GateHaltsBefore, GateRaisesBefore, EnterChain, CallNext, GateHalts, CacheHit,
     BreakerRejects, EnterRetry, CallProvider, MakeGenerator, PassUp, BreakerRecords,
     RetryDelivers, RetryGivesUp, RetryAgain, Returns, ChainHalts, RunRaises, StreamRaises,
     StreamReady, HooksDone, Leave, Descend, RunHooks, ServeHalt, request
<1>5. CASE Consumer
  BY <1>5 DEF Consumer, Deliver, Exhausted, Breaks, Close, Drop, RunHooks, request
<1>6. CASE UNCHANGED vars
  BY <1>6 DEF vars, request
<1> QED
  BY <1>1, <1>2, <1>3, <1>4, <1>5, <1>6 DEF Next, Engine

LEMMA PreparedInit == Init => Prepared
BY DEF Init, Prepared

LEMMA PreparedStep == Shape /\ Prepared /\ [Next]_vars => Prepared'
<1> SUFFICES ASSUME Shape, Prepared, [Next]_vars, phase' = "before" PROVE Prepared'
  BY DEF Prepared
<1>1. Len(stack) \in Nat
  BY RegisteredPositions
<1>2. CASE Application
  <2>1. PICK streaming \in BOOLEAN : Begin(streaming)
    BY <1>2 DEF Application, Use
  <2>2. at' = 1 /\ stack' = stack /\ hooks' = [p \in Positions |-> NoHooks]
    BY <2>1 DEF Begin, NoRequest
  <2> QED
    BY <1>1, <2>2 DEF Prepared, NoHooks
<1>3. CASE BeforeRequest
  <2>1. /\ phase = "before" /\ at <= Len(stack) /\ at' = at + 1 /\ stack' = stack
        /\ hooks' = [hooks EXCEPT ![at]["before"] = hooks[at]["before"] + 1]
    BY <1>3 DEF BeforeRequest, Ran
  <2>2. at \in 1..Len(stack) + 1 /\ \A p \in Positions : p >= at => hooks[p].before = 0
    BY <2>1 DEF Prepared
  <2>3. \A p \in Positions : p # at => hooks'[p] = hooks[p]
    BY <2>1 DEF Shape
  <2>4. \A p \in Positions : p >= at + 1 => p >= at /\ p # at
    BY <2>2 DEF Positions
  <2> QED
    BY <1>1, <2>1, <2>2, <2>3, <2>4 DEF Prepared
<1>4. CASE Engine /\ ~BeforeRequest
  BY <1>4 DEF Engine, GateHaltsBefore, GateRaisesBefore, EnterChain, CallNext, GateHalts, CacheHit,
     BreakerRejects, EnterRetry, CallProvider, MakeGenerator, PassUp, BreakerRecords,
     RetryDelivers, RetryGivesUp, RetryAgain, Returns, ChainHalts, RunRaises, StreamRaises,
     StreamReady, HooksDone, AfterResponse, OnError, Hook, Leave, Descend, Execute, RunHooks,
     ServeHalt
<1>5. CASE Consumer
  BY <1>5 DEF Consumer, Deliver, Exhausted, Breaks, Close, Drop, RunHooks
<1>6. CASE UNCHANGED vars
  BY <1>6 DEF vars, request, Prepared
<1> QED
  BY <1>2, <1>3, <1>4, <1>5, <1>6 DEF Next

CtxType == [attempt : 0..MaxRetries, error : Raised \cup {NoError},
            halted : BOOLEAN, hit : BOOLEAN]

\* The counters of the retry loops, which the context shows to the hooks.
LEMMA TypeOfAttempts ==
    ASSUME TypeOK, Shape, Inside, [Next]_vars
    PROVE  attempts' \in [Positions -> 0..MaxRetries] /\ ctx' \in CtxType
<1>1. /\ attempts \in [Positions -> 0..MaxRetries] /\ ctx \in CtxType
      /\ MaxRetries \in Nat /\ value \in Returned \cup Raised \cup {"none"}
  BY PipelineAssumption DEF TypeOK, CtxType
<1>a. 0 \in 0..MaxRetries
  BY <1>1
<1>b. NewContext \in CtxType /\ [p \in Positions |-> 0] \in [Positions -> 0..MaxRetries]
  BY <1>a DEF NewContext, CtxType
<1>2. \A error \in Raised \cup {NoError} : [ctx EXCEPT !.error = error] \in CtxType
  BY <1>1 DEF CtxType
<1>3. Errors \subseteq Raised /\ [ctx EXCEPT !.hit = TRUE] \in CtxType
  BY <1>1 DEF CtxType, Raised
<1>4. CASE Application
  BY <1>b, <1>4 DEF Application, Use, Begin, NoRequest
<1>5. CASE GateHaltsBefore \/ ChainHalts
  BY <1>1, <1>5 DEF GateHaltsBefore, ChainHalts, ServeHalt, Halted, CtxType
<1>6. CASE CacheHit \/ RunRaises \/ RetryGivesUp
  BY <1>1, <1>2, <1>3, <1>6 DEF CacheHit, RunRaises, RetryGivesUp, RunHooks
<1>7. CASE EnterRetry
  BY <1>1, <1>a, <1>7 DEF EnterRetry, CtxType
<1>8. CASE RetryAgain
  <2>1. /\ at \in Positions /\ attempts[at] < MaxRetries
        /\ attempts' = [attempts EXCEPT ![at] = @ + 1]
    <3>1. phase = "up" /\ at >= 1
      BY <1>8 DEF RetryAgain, BackIn
    <3> QED
      BY <1>8, <3>1, ChainPositions DEF RetryAgain, MayRetry, Inside
  <2>2. PICK error \in Raised : ctx' = [ctx EXCEPT !.error = error, !.attempt = attempts[at] + 1]
    BY <1>8 DEF RetryAgain
  <2>3. attempts[at] + 1 \in 0..MaxRetries
    BY <1>1, <2>1
  <2> QED
    BY <1>1, <2>1, <2>2, <2>3 DEF CtxType
<1>9. CASE Engine /\ ~(\/ GateHaltsBefore \/ ChainHalts \/ CacheHit \/ RunRaises
                       \/ RetryGivesUp \/ EnterRetry \/ RetryAgain)
  <2>1. UNCHANGED <<attempts, ctx>>
    BY <1>9 DEF Engine, BeforeRequest, GateRaisesBefore, EnterChain, CallNext, GateHalts,
       BreakerRejects, CallProvider, MakeGenerator, PassUp, BreakerRecords, RetryDelivers,
       Returns, StreamRaises, StreamReady, AfterResponse, OnError, Hook, HooksDone, RunHooks,
       request
  <2> QED
    BY <1>1, <2>1
<1>10. CASE Consumer
  <2>1. attempts' = attempts /\ (ctx' = ctx \/ \E v \in Raised : ctx' = [ctx EXCEPT !.error = v])
    BY <1>10 DEF Consumer, Deliver, Exhausted, Breaks, Close, Drop, RunHooks, request, Raised,
                 Errors
  <2> QED
    BY <1>1, <1>2, <2>1
<1>11. CASE UNCHANGED vars
  BY <1>1, <1>11 DEF vars, request
<1> QED
  BY <1>4, <1>5, <1>6, <1>7, <1>8, <1>9, <1>10, <1>11 DEF Next, Engine

\* What is in transit, and how the request ends.
LEMMA TypeOfValues ==
    ASSUME TypeOK, HookOrder, [Next]_vars
    PROVE  /\ phase' \in {"before", "down", "up", "after", "on_error", "streaming", "done"}
           /\ stream' \in BOOLEAN
           /\ value' \in Returned \cup Raised \cup {"none"}
           /\ outcome' \in {"none", "returned", "raised", "escaped", "raised_before",
                            "bad_halt", "exhausted", "closed", "dropped"}
<1> USE DEF TypeOK
<1>1. CASE Application
  BY <1>1 DEF Application, Use, Begin, NoRequest
<1>2. CASE BeforeRequest \/ EnterChain \/ GateRaisesBefore
  BY <1>2 DEF BeforeRequest, EnterChain, GateRaisesBefore, request
<1>3. CASE GateHaltsBefore \/ ChainHalts
  BY <1>3 DEF GateHaltsBefore, ChainHalts, ServeHalt, Returned
<1>4. CASE CallNext \/ EnterRetry
  BY <1>4 DEF CallNext, EnterRetry, Execute, Descend
<1>5. CASE GateHalts \/ CacheHit \/ BreakerRejects \/ CallProvider \/ MakeGenerator \/ PassUp
  BY <1>5 DEF GateHalts, CacheHit, BreakerRejects, CallProvider, MakeGenerator, PassUp, Leave,
              Returned, Raised, Errors
<1>6. CASE BreakerRecords \/ RetryDelivers \/ RetryGivesUp \/ RetryAgain
  BY <1>6 DEF BreakerRecords, RetryDelivers, RetryGivesUp, RetryAgain, Leave
<1>7. CASE Returns \/ RunRaises \/ StreamRaises \/ StreamReady
  BY <1>7 DEF Returns, RunRaises, StreamRaises, StreamReady, RunHooks, request
<1>8. CASE AfterResponse \/ OnError \/ HooksDone
  BY <1>8 DEF AfterResponse, OnError, HooksDone, Hook, request
<1>9. CASE Consumer
  BY <1>9 DEF Consumer, Deliver, Exhausted, Breaks, Close, Drop, RunHooks, request, Returned
<1>10. CASE UNCHANGED vars
  BY <1>10 DEF vars, request
<1> QED
  BY <1>1, <1>2, <1>3, <1>4, <1>5, <1>6, <1>7, <1>8, <1>9, <1>10 DEF Next, Engine

LEMMA TypeOfCounts ==
    ASSUME TypeOK, [Next]_vars
    PROVE  /\ calls' \in 0..MaxCount
           /\ delivered' \in 0..MaxChunks
           /\ records' \in [ok : 0..MaxCount, fail : 0..MaxCount]
<1>1. /\ calls \in 0..MaxCount /\ delivered \in 0..MaxChunks
      /\ records \in [ok : 0..MaxCount, fail : 0..MaxCount]
      /\ MaxCount \in Nat /\ MaxChunks \in Nat
  BY PipelineAssumption DEF TypeOK
<1>2. \A v : Recorded(v) \in [ok : 0..MaxCount, fail : 0..MaxCount]
  BY <1>1, CountUpType DEF Recorded
<1>3. CASE Application
  BY <1>1, <1>3 DEF Application, Use, Begin, NoRequest, NoRecords
<1>4. CASE BreakerRecords
  BY <1>1, <1>2, <1>4, PullType DEF BreakerRecords, Leave
<1>5. CASE CallProvider
  BY <1>1, <1>5, CountUpType DEF CallProvider, Operates, Leave
<1>6. CASE RetryDelivers \/ RetryGivesUp \/ RetryAgain
  BY <1>1, <1>6, PullType DEF RetryDelivers, RetryGivesUp, RetryAgain, Leave
<1>7. CASE Engine /\ ~(\/ BreakerRecords \/ CallProvider \/ RetryDelivers \/ RetryGivesUp
                       \/ RetryAgain)
  BY <1>1, <1>7 DEF Engine, BeforeRequest, GateHaltsBefore, GateRaisesBefore, EnterChain,
     CallNext, GateHalts, CacheHit, BreakerRejects, EnterRetry, MakeGenerator, PassUp, Returns,
     ChainHalts, RunRaises, StreamRaises, StreamReady, AfterResponse, OnError, Hook, HooksDone,
     Leave, Descend, RunHooks, ServeHalt, request
<1>8. CASE Consumer
  BY <1>1, <1>8, PullType DEF Consumer, Deliver, Exhausted, Breaks, Close, Drop, RunHooks, request
<1>9. CASE UNCHANGED vars
  BY <1>1, <1>9 DEF vars, request
<1> QED
  BY <1>3, <1>4, <1>5, <1>6, <1>7, <1>8, <1>9 DEF Next, Engine

LEMMA TypeShape == TypeOK => Shape
<1> SUFFICES ASSUME TypeOK PROVE Shape
  OBVIOUS
<1>1. hooks \in [Positions -> [before : Nat, after : Nat, on_error : Nat]]
  BY DEF TypeOK
<1>2. attempts \in [Positions -> Int]
  BY DEF TypeOK
<1> QED
  BY <1>1, <1>2 DEF TypeOK, Shape

LEMMA TypeInit == Init => TypeOK
<1> SUFFICES ASSUME Init PROVE TypeOK
  OBVIOUS
<1>1. MaxRetries \in Nat /\ MaxLen \in Nat /\ MaxCount \in Nat /\ MaxChunks \in Nat
  BY PipelineAssumption
<1>2. hooks \in HookBits /\ Shape
  BY NoHooksBits, ShapeInit DEF Init
<1>3. ctx \in CtxType /\ attempts \in [Positions -> 0..MaxRetries]
  <2>1. 0 \in 0..MaxRetries
    BY <1>1
  <2> QED
    BY <2>1 DEF Init, NewContext, CtxType
<1>4. /\ 0 \in 0..MaxCount /\ 0 \in 0..MaxChunks /\ 0 \in 0..MaxLen + 2
      /\ records \in [ok : 0..MaxCount, fail : 0..MaxCount]
  BY <1>1 DEF Init, NoRecords
<1> QED
  BY <1>2, <1>3, <1>4 DEF Init, TypeOK, HookBits, Shape, CtxType

LEMMA TypeStep ==
    Shape /\ Inside /\ HookOrder /\ Prepared /\ TypeOK /\ [Next]_vars => TypeOK'
<1> SUFFICES ASSUME Shape, Inside, HookOrder, Prepared, TypeOK, [Next]_vars PROVE TypeOK'
  OBVIOUS
<1>1. hooks' \in HookBits
  BY TypeOfHooks DEF TypeOK, HookBits
<1>2. stack' \in Seq(Kinds) /\ Len(stack') <= MaxLen /\ auto' \in BOOLEAN
  BY ShapeStep DEF Shape
<1> QED
  BY <1>1, <1>2, TypeOfAt, TypeOfAttempts, TypeOfValues, TypeOfCounts
     DEF TypeOK, HookBits, CtxType

LEMMA Walks ==
    Spec => [](Shape /\ Inside /\ LeftChain /\ Budget /\ HookOrder /\ Prepared /\ TypeOK)
BY ShapeInit, ShapeStep, InsideInit, InsideStep, LeftChainInit, LeftChainStep, BudgetInit,
   BudgetStep, HookOrderInit, HookOrderStep, PreparedInit, PreparedStep, TypeInit, TypeStep,
   PTL DEF Spec

(***************************************************************************)
(* Every variable stays in its set: a hook of a middleware runs at most    *)
(* once in a request, and no retry loop counts beyond max_retries          *)
(* (engine.py:147-261, retry.py:93-157).                                   *)
(***************************************************************************)
THEOREM TypeCorrect == Spec => []TypeOK
BY Walks, PTL

-----------------------------------------------------------------------------
(* What the hooks report.                                                  *)

\* While a call is to come, the counter of calls has not reached its bound.
LEMMA CallsRoom ==
    ASSUME TypeOK, Budget, AtMostOne("retry"),
           phase = "down" \/ (phase \in {"up", "streaming"} /\ value = "lazy")
    PROVE  CountUp(calls) = calls + 1
<1>1. MaxRetries \in Nat /\ MaxCount \in Nat /\ MaxRetries < MaxCount /\ calls \in Nat
  BY PipelineAssumption DEF TypeOK
<1>2. calls <= MaxRetries
  <2>1. CASE phase = "down"
    <3>1. ASSUME NEW p \in DOMAIN Chain, Chain[p] = "retry", p < at
          PROVE  calls <= MaxRetries
      <4>1. calls <= attempts[p] /\ attempts[p] <= MaxRetries
        BY <2>1, <3>1 DEF Budget
      <4>2. p \in Positions
        BY TypeShape, ChainPositions
      <4>3. attempts[p] \in Int
        BY <4>2 DEF TypeOK
      <4> QED
        BY <1>1, <4>1, <4>3
    <3> QED
      BY <1>1, <2>1, <3>1 DEF Budget
  <2>2. CASE phase \in {"up", "streaming"} /\ value = "lazy"
    <3>1. calls + 1 <= MaxRetries + 1
      BY <2>2 DEF Budget, Pending
    <3> QED
      BY <1>1, <3>1
  <2> QED
    BY <2>1, <2>2
<1> QED
  BY <1>1, <1>2 DEF CountUp

\* Nobody but a cache or a halt has answered the request.
Plain == AtMostOne("retry") /\ ~ctx.hit /\ ~ctx.halted

\* A generator that is pulled for the first time makes the call it stands for.
LEMMA PullCounted ==
    ASSUME TypeOK, Budget, Counted, Plain, phase \in {"up", "streaming"}, NEW v,
           Pull(v) \/ (v = value /\ calls' = calls)
    PROVE  /\ v = "lazy" => calls' = ctx.attempt
           /\ v \in Answers => calls' = ctx.attempt + 1
<1>1. CASE Pull(v) /\ value = "lazy"
  <2>1. v # "lazy" /\ (v \in Answers => calls' = calls + 1)
    BY <1>1, CallsRoom DEF Pull, Operates, Plain, Answers
  <2>2. calls = ctx.attempt
    BY <1>1 DEF Counted, Plain
  <2> QED
    BY <2>1, <2>2
<1>2. CASE v = value /\ calls' = calls
  BY <1>2 DEF Counted, Plain
<1> QED
  BY <1>1, <1>2 DEF Pull

\* The walk turns, or climbs past one more frame.
LEMMA LeaveCounted ==
    ASSUME Shape, TypeOK, Budget, Counted, Plain, NEW v, Leave(v), UNCHANGED attempts,
           ctx'.attempt = ctx.attempt,
           \/ /\ phase = "down"
              /\ v = "lazy" => calls' = calls
              /\ v \in Answers => calls' = calls + 1
           \/ phase = "up" /\ (Pull(v) \/ (v = value /\ calls' = calls))
    PROVE  Counted'
<1>1. /\ phase' = "up" /\ at' = at - 1 /\ value' = v /\ Chain' = Chain
      /\ at \in Int /\ DOMAIN Chain \subseteq Int
  BY ChainPositions DEF Leave, Chain, Shape, Positions
<1>2. /\ v = "lazy" => calls' = ctx.attempt
      /\ v \in Answers => calls' = ctx.attempt + 1
  <2>1. CASE phase = "down"
    BY <2>1 DEF Counted, Plain
  <2>2. CASE phase = "up"
    BY <2>2, PullCounted
  <2> QED
    BY <2>1, <2>2
<1>3. ASSUME NEW p \in DOMAIN Chain, Chain[p] = "retry", p <= at'
      PROVE  attempts[p] = ctx.attempt
  <2>1. p < at /\ p <= at
    BY <1>1, <1>3
  <2> QED
    BY <1>3, <2>1 DEF Counted, Plain
<1> QED
  BY <1>1, <1>2, <1>3 DEF Counted

\* Down the chain a retry loop starts to count with the context.
LEMMA DownCounted ==
    ASSUME Shape, TypeOK, Inside, Budget, Counted, Plain, CallNext \/ EnterRetry
    PROVE  Counted'
<1>1. /\ phase = "down" /\ phase' = "down" /\ at' = at + 1 /\ calls' = calls
      /\ Chain' = Chain /\ at \in DOMAIN Chain
      /\ at \in Int /\ DOMAIN Chain \subseteq Int /\ DOMAIN Chain \subseteq Positions
  BY ChainPositions DEF CallNext, EnterRetry, Execute, Descend, Chain, Shape, Inside, Positions
<1>2. /\ calls = ctx.attempt
      /\ \A p \in DOMAIN Chain : Chain[p] = "retry" /\ p < at => attempts[p] = ctx.attempt
  BY <1>1 DEF Counted, Plain
<1>3. CASE CallNext
  <2>1. attempts' = attempts /\ ctx' = ctx /\ Chain[at] # "retry"
    BY <1>3 DEF CallNext
  <2>2. \A p \in DOMAIN Chain : Chain[p] = "retry" /\ p < at + 1 => p < at
    BY <1>1, <2>1
  <2> QED
    BY <1>1, <1>2, <2>1, <2>2 DEF Counted
<1>4. CASE EnterRetry
  <2>1. /\ attempts' = [attempts EXCEPT ![at] = 0] /\ Chain[at] = "retry"
        /\ ctx' = [ctx EXCEPT !.attempt = 0]
    BY <1>4 DEF EnterRetry, Execute
  <2>2. \A p \in DOMAIN Chain : Chain[p] = "retry" => p = at
    BY <1>1, <2>1 DEF AtMostOne, Plain
  <2>3. calls = 0
    BY <1>1, <2>2 DEF Budget, Plain
  <2>4. attempts'[at] = 0 /\ ctx'.attempt = 0
    BY <1>1, <2>1 DEF TypeOK
  <2> QED
    BY <1>1, <2>2, <2>3, <2>4 DEF Counted
<1> QED
  BY <1>3, <1>4

\* The next attempt is counted where the last one has been made.
LEMMA RetryCounted ==
    ASSUME Shape, TypeOK, Inside, Budget, Counted, Plain, RetryAgain
    PROVE  Counted'
<1>1. /\ phase = "up" /\ at >= 1 /\ Chain[at] = "retry"
      /\ attempts' = [attempts EXCEPT ![at] = @ + 1]
      /\ phase' = "down" /\ at' = at + 1 /\ Chain' = Chain
      /\ at \in DOMAIN Chain /\ DOMAIN Chain \subseteq Positions
  BY ChainPositions DEF RetryAgain, BackIn, Chain, Inside
<1>2. PICK v \in Raised : /\ Pull(v) /\ v = "transient"
                          /\ ctx' = [ctx EXCEPT !.error = v, !.attempt = attempts[at] + 1]
  BY DEF RetryAgain, MayRetry
<1>3. calls' = ctx.attempt + 1
  BY <1>1, <1>2, PullCounted DEF Answers
<1>4. attempts[at] = ctx.attempt
  <2>1. at <= at
    BY DEF Shape
  <2> QED
    BY <1>1, <2>1 DEF Counted, Plain
<1>5. attempts'[at] = ctx.attempt + 1 /\ ctx'.attempt = ctx.attempt + 1
  BY <1>1, <1>2, <1>4 DEF TypeOK
<1>6. \A p \in DOMAIN Chain : Chain[p] = "retry" => p = at
  BY <1>1 DEF AtMostOne, Plain
<1> QED
  BY <1>1, <1>3, <1>5, <1>6 DEF Counted

LEMMA CountedInit == Init => Counted
BY DEF Init, Counted

LEMMA CountedStep ==
    /\ Shape /\ Inside /\ LeftChain /\ Budget /\ TypeOK /\ Counted /\ [Next]_vars
    => Counted'
<1> SUFFICES ASSUME Shape, Inside, LeftChain, Budget, TypeOK, Counted, [Next]_vars, Plain'
             PROVE  Counted'
  BY DEF Counted, Plain
<1> USE DEF Plain
<1>1. ASSUME phase' \in {"on_error", "done"} PROVE Counted'
  BY <1>1 DEF Counted
<1>2. CASE Application
  BY <1>2 DEF Application, Use, Begin, NoRequest, NewContext, Counted
<1>3. CASE ~Application
  <2>1. UNCHANGED <<stack, auto>> /\ Chain' = Chain /\ AtMostOne("retry")
    BY <1>3, StackStays DEF Chain, AtMostOne
  <2>2. CASE BeforeRequest
    BY <2>1, <2>2 DEF BeforeRequest, Counted
  <2>3. CASE EnterChain
    <3>1. /\ phase = "before" /\ calls' = calls /\ ctx' = ctx /\ phase' = "down" /\ at' = 1
          /\ ~(\E p \in DOMAIN Chain : p < 1)
      BY <2>3, ChainPositions DEF EnterChain
    <3> QED
      BY <2>1, <3>1 DEF Counted
  <2>4. CASE GateHaltsBefore \/ ChainHalts
    <3>1. ctx' = [ctx EXCEPT !.halted = TRUE, !.error = NoError]
      BY <2>4 DEF GateHaltsBefore, ChainHalts, ServeHalt, Halted
    <3> QED
      BY <3>1 DEF TypeOK
  <2>5. CASE CacheHit
    <3>1. ctx' = [ctx EXCEPT !.hit = TRUE]
      BY <2>5 DEF CacheHit
    <3> QED
      BY <3>1 DEF TypeOK
  <2>6. CASE GateRaisesBefore \/ RunRaises \/ StreamRaises \/ OnError \/ HooksDone
    BY <1>1, <2>6 DEF GateRaisesBefore, RunRaises, StreamRaises, OnError, Hook, HooksDone, RunHooks
  <2>7. CASE CallNext \/ EnterRetry
    <3>1. ctx' = ctx \/ ctx' = [ctx EXCEPT !.attempt = 0]
      BY <2>7 DEF CallNext, EnterRetry
    <3>2. ~ctx.hit /\ ~ctx.halted
      BY <3>1 DEF TypeOK
    <3> QED
      BY <2>1, <2>7, <3>2, DownCounted
  <2>8. CASE GateHalts \/ BreakerRejects
    <3>1. PICK v \in {"halt", "rejected"} : Leave(v)
      BY <2>8 DEF GateHalts, BreakerRejects
    <3>2. phase = "down" /\ UNCHANGED <<calls, attempts, ctx>> /\ v # "lazy" /\ v \notin Answers
      BY <2>8 DEF GateHalts, BreakerRejects, Execute, Answers
    <3> QED
      BY <2>1, <3>1, <3>2, LeaveCounted
  <2>9. CASE CallProvider
    <3>1. PICK v \in {"response", "transient", "permanent"} :
              Operates(v, {"response", "transient", "permanent"}) /\ Leave(v)
      BY <2>9 DEF CallProvider
    <3>2. phase = "down" /\ UNCHANGED <<attempts, ctx>> /\ v # "lazy"
      BY <2>9, <3>1 DEF CallProvider, AtProvider
    <3>3. v \in Answers => calls' = calls + 1
      BY <2>1, <3>1, <3>2, CallsRoom DEF Operates, Answers
    <3> QED
      BY <2>1, <3>1, <3>2, <3>3, LeaveCounted
  <2>10. CASE MakeGenerator
    <3>1. phase = "down" /\ UNCHANGED <<calls, attempts, ctx>> /\ Leave("lazy")
      BY <2>10 DEF MakeGenerator, AtProvider
    <3> QED
      BY <2>1, <3>1, LeaveCounted DEF Answers
  <2>11. CASE PassUp
    <3>1. phase = "up" /\ UNCHANGED <<calls, attempts, ctx>> /\ Leave(value)
      BY <2>11 DEF PassUp, BackIn
    <3> QED
      BY <2>1, <3>1, LeaveCounted
  <2>12. CASE BreakerRecords \/ RetryDelivers \/ RetryGivesUp
    <3>1. PICK v : Pull(v) /\ Leave(v) /\ (ctx' = ctx \/ ctx' = [ctx EXCEPT !.error = v])
      BY <2>12 DEF BreakerRecords, RetryDelivers, RetryGivesUp
    <3>2. phase = "up" /\ attempts' = attempts
      BY <2>12 DEF BreakerRecords, RetryDelivers, RetryGivesUp, BackIn
    <3>3. ~ctx.hit /\ ~ctx.halted /\ ctx'.attempt = ctx.attempt
      BY <3>1 DEF TypeOK
    <3> QED
      BY <2>1, <3>1, <3>2, <3>3, LeaveCounted
  <2>13. CASE RetryAgain
    <3>1. PICK v : ctx' = [ctx EXCEPT !.error = v, !.attempt = attempts[at] + 1]
      BY <2>13 DEF RetryAgain
    <3>2. ~ctx.hit /\ ~ctx.halted
      BY <3>1 DEF TypeOK
    <3> QED
      BY <2>1, <2>13, <3>2, RetryCounted
  <2>14. CASE Returns
    <3>1. /\ phase = "up" /\ value = "response" /\ phase' = "after"
          /\ UNCHANGED <<calls, ctx>>
      BY <2>14 DEF Returns, RunHooks, BackInEngine
    <3> QED
      BY <2>1, <3>1 DEF Counted, Answers
  <2>15. CASE StreamReady
    <3>1. phase = "up" /\ phase' = "streaming" /\ UNCHANGED <<calls, ctx, value>>
      BY <2>15 DEF StreamReady, BackInEngine, request
    <3> QED
      BY <2>1, <3>1 DEF Counted
  <2>16. CASE AfterResponse
    <3>1. phase = "after" /\ phase' = "after" /\ UNCHANGED <<calls, ctx>>
      BY <2>16 DEF AfterResponse, Hook
    <3> QED
      BY <2>1, <3>1 DEF Counted
  <2>17. CASE Deliver
    <3>1. /\ phase = "streaming" /\ phase' = "streaming" /\ UNCHANGED ctx
          /\ Pull("started") /\ value' = "started"
      BY <2>17 DEF Deliver
    <3>2. calls' = ctx.attempt + 1
      BY <2>1, <3>1, PullCounted DEF Answers
    <3> QED
      BY <3>1, <3>2 DEF Counted
  <2>18. CASE Exhausted \/ Close
    <3>1. /\ phase = "streaming" /\ phase' = "after" /\ UNCHANGED ctx
          /\ Pull("empty") \/ (value = "started" /\ calls' = calls)
      BY <2>18 DEF Exhausted, Close, RunHooks, LeftChain
    <3>2. calls' = ctx.attempt + 1
      BY <2>1, <3>1, PullCounted DEF Answers
    <3> QED
      BY <3>1, <3>2 DEF Counted
  <2>19. CASE Breaks \/ Drop
    BY <1>1, <2>19 DEF Breaks, Drop, RunHooks
  <2>20. CASE UNCHANGED vars
    BY <2>20 DEF vars, request, Counted, AtMostOne, Chain
  <2> QED
    BY <1>3, <2>2, <2>3, <2>4, <2>5, <2>6, <2>7, <2>8, <2>9, <2>10, <2>11, <2>12, <2>13, <2>14,
       <2>15, <2>16, <2>17, <2>18, <2>19, <2>20 DEF Next, Engine, Consumer
<1> QED
  BY <1>2, <1>3

(***************************************************************************)
(* What the after_response hooks report as retries is one less than the    *)
(* provider calls of the request, unless a cache or a halt answered: the   *)
(* retry loop writes the attempt into the context before it calls again,   *)
(* and nothing in between writes it (retry.py:93-157, metrics.py).         *)
(***************************************************************************)
THEOREM RetriesCounted == Spec => []RetriesReported
<1>1. Counted => RetriesReported
  BY DEF Counted, RetriesReported
<1> QED
  BY <1>1, CountedInit, CountedStep, Walks, PTL DEF Spec

-----------------------------------------------------------------------------
(* What a breaker accounts for.                                            *)

\* The answers in transit come from somewhere.
LEMMA PullAnswers ==
    ASSUME TypeOK, Accounted, phase \in {"up", "streaming"}, NEW v,
           Pull(v) \/ (v = value /\ calls' = calls)
    PROVE  /\ calls' \in Nat /\ (calls > 0 => calls' > 0)
           /\ phase = "up" => (v \in {"response", "started"} => calls' > 0 \/ ctx.hit)
           /\ v = value \/ v \in {"started", "empty", "transient", "permanent"}
<1>1. calls \in Nat /\ MaxCount \in Nat \ {0}
  BY PipelineAssumption DEF TypeOK
<1>2. CountUp(calls) \in Nat /\ CountUp(calls) > 0
  BY <1>1 DEF CountUp
<1>3. CASE Pull(v) /\ value = "lazy"
  BY <1>1, <1>2, <1>3 DEF Pull, Operates
<1>4. CASE v = value /\ calls' = calls
  BY <1>1, <1>4 DEF Accounted, Answered
<1> QED
  BY <1>3, <1>4 DEF Pull

LEMMA AnsweredStep ==
    ASSUME TypeOK, Accounted, [Next]_vars
    PROVE  Answered'
<1> SUFFICES ASSUME phase' = "up" PROVE Answered'
  BY DEF Answered
<1>1. CASE Application
  BY <1>1 DEF Application, Use, Begin, Accounted, NoRequest
<1>2. CASE GateHalts \/ BreakerRejects \/ MakeGenerator
  BY <1>2 DEF GateHalts, BreakerRejects, MakeGenerator, Leave, Answered
<1>3. CASE CacheHit
  BY <1>3 DEF CacheHit, Leave, Answered, TypeOK
<1>4. CASE CallProvider
  <2>1. CountUp(calls) > 0
    BY PipelineAssumption DEF CountUp, TypeOK
  <2> QED
    BY <1>4, <2>1 DEF CallProvider, Operates, Leave, Answered
<1>5. CASE PassUp
  <2>1. phase = "up" /\ value' = value /\ calls' = calls /\ ctx' = ctx
    BY <1>5 DEF PassUp, BackIn, Leave
  <2> QED
    BY <2>1 DEF Answered, Accounted
<1>6. CASE BreakerRecords \/ RetryDelivers \/ RetryGivesUp
  <2>1. PICK v : Pull(v) /\ Leave(v) /\ (ctx' = ctx \/ ctx' = [ctx EXCEPT !.error = v])
    BY <1>6 DEF BreakerRecords, RetryDelivers, RetryGivesUp
  <2>2. phase = "up" /\ value' = v
    BY <1>6, <2>1 DEF BreakerRecords, RetryDelivers, RetryGivesUp, BackIn, Leave
  <2>3. ctx'.hit = ctx.hit
    BY <2>1 DEF TypeOK
  <2> QED
    BY <2>1, <2>2, <2>3, PullAnswers DEF Answered
<1>7. CASE Engine /\ ~(\/ GateHalts \/ BreakerRejects \/ MakeGenerator \/ CacheHit
                       \/ CallProvider \/ PassUp \/ BreakerRecords \/ RetryDelivers
                       \/ RetryGivesUp)
  BY <1>7 DEF Engine, BeforeRequest, GateHaltsBefore, GateRaisesBefore, EnterChain, CallNext,
     EnterRetry, RetryAgain, Returns, ChainHalts, RunRaises, StreamRaises, StreamReady,
     AfterResponse, OnError, Hook, HooksDone, Execute, Descend, RunHooks, ServeHalt
<1>8. CASE Consumer
  BY <1>8 DEF Consumer, Deliver, Exhausted, Breaks, Close, Drop, RunHooks
<1>9. CASE UNCHANGED vars
  BY <1>9 DEF vars, request, Answered, Accounted
<1> QED
  BY <1>1, <1>2, <1>3, <1>4, <1>5, <1>6, <1>7, <1>8, <1>9 DEF Next

LEMMA EmptyAccount ==
    ASSUME records' = NoRecords, NEW b, phase' # "on_error",
           phase' = "up" => IF b <= at' THEN value' # "rejected"
                            ELSE value' \notin Errors \/ value' = "rejected",
           phase' = "done" => outcome' \notin {"raised", "escaped"}
    PROVE  Account(b)'
BY DEF Account, NoRecords, RaisedEarly

\* What the walk has put on record stays; the end of the request agrees with it.
LEMMA KeepAccount ==
    ASSUME NEW b, Account(b), UNCHANGED records, calls' = calls \/ calls' > 0,
           ctx'.hit = ctx.hit, phase' \in {"streaming", "after", "on_error", "done"},
           phase' \in {"streaming", "after"} => records.fail = 0,
           phase' \in {"on_error", "done"} => (records.fail = 1 <=> RaisedEarly')
    PROVE  Account(b)'
BY DEF Account

\* The breaker's own frame: what leaves it is what it records, if anything.
LEMMA BreakerAccount ==
    ASSUME TypeOK, Shape, Inside, Accounted, NEW b \in DOMAIN Chain, OneBreaker(b), Account(b),
           BreakerRecords
    PROVE  Account(b)'
<1>1. at \in DOMAIN Chain /\ Chain[at] = "breaker" /\ phase = "up"
      /\ UNCHANGED <<ctx>> /\ at \in Int
  BY ChainPositions DEF BreakerRecords, BackIn, Inside, Shape
<1>2. at = b /\ records = NoRecords /\ value # "rejected"
  BY <1>1 DEF OneBreaker, Account
<1>3. PICK v \in Returned \cup Raised : Pull(v) /\ Leave(v) /\ records' = Recorded(v)
  BY DEF BreakerRecords
<1>4. phase' = "up" /\ at' = at - 1 /\ value' = v /\ ~(b <= at')
  BY <1>1, <1>2, <1>3 DEF Leave
<1>5. v # "rejected"
  BY <1>2, <1>3, <1>1, PullAnswers
<1>6. CountUp(0) = 1 /\ ~(0 = 1)
  BY PipelineAssumption DEF CountUp
<1>7. CASE v \in {"response", "started"}
  <2>1. records' = [ok |-> 1, fail |-> 0]
    <3>1. records' = [records EXCEPT !.ok = CountUp(records.ok)]
      BY <1>3, <1>7 DEF Recorded, Errors
    <3> QED
      BY <1>2, <1>6, <3>1 DEF NoRecords
  <2>2. calls' > 0 \/ ctx.hit
    BY <1>1, <1>3, <1>7, PullAnswers
  <2>3. v \notin Errors
    BY <1>7 DEF Errors
  <2> QED
    BY <1>1, <1>4, <2>1, <2>2, <2>3 DEF Account
<1>8. CASE v \in Errors
  <2>1. records' = [ok |-> 0, fail |-> 1]
    BY <1>2, <1>3, <1>6, <1>8 DEF Recorded, NoRecords, Errors
  <2> QED
    BY <1>4, <1>5, <1>8, <2>1 DEF Account
<1>9. CASE v \notin {"response", "started"} /\ v \notin Errors
  BY <1>2, <1>3, <1>4, <1>9, EmptyAccount DEF Recorded
<1> QED
  BY <1>7, <1>8, <1>9

\* Above the breaker nobody retries, and the frames hand on what they get.
LEMMA PassAccount ==
    ASSUME TypeOK, Shape, NEW b \in DOMAIN Chain, OneBreaker(b), Account(b), PassUp
    PROVE  Account(b)'
<1>1. /\ phase = "up" /\ phase' = "up" /\ at' = at - 1 /\ at \in Int /\ b \in Int
      /\ UNCHANGED <<value, calls, ctx, records>>
  BY ChainPositions DEF PassUp, BackIn, Leave, Shape, Positions
<1>2. at # b
  BY DEF PassUp, BackIn, OneBreaker
<1>3. b <= at' <=> b <= at
  BY <1>1, <1>2
<1> QED
  BY <1>1, <1>3 DEF Account

LEMMA AccountInit == Init => Accounted
BY DEF Init, Accounted, Account, Answered, RaisedEarly, NoRecords

LEMMA AccountStep ==
    ASSUME TypeOK, Shape, Inside, LeftChain, HookOrder, Accounted, [Next]_vars, ~Application,
           NEW b \in DOMAIN Chain, OneBreaker(b)
    PROVE  Account(b)'
<1>1. Account(b)
  BY DEF Accounted, Account
<1>2. /\ at \in Int /\ b \in Int /\ b >= 1 /\ b <= Len(Chain)
      /\ Chain[b] = "breaker" /\ DOMAIN Chain \subseteq Int /\ Len(Chain) \in Nat
  BY ChainPositions DEF Shape, OneBreaker
<1>a. /\ records \in [ok : Nat, fail : Nat]
      /\ records.ok + records.fail <= 1 /\ (records.fail # 1 => records.fail = 0)
  BY <1>1, PipelineAssumption DEF Account, TypeOK
<1>3. CASE BeforeRequest \/ EnterChain \/ CallNext \/ EnterRetry
  <2>1. phase \in {"before", "down"} /\ phase' \in {"before", "down"} /\ records' = records
    BY <1>3 DEF BeforeRequest, EnterChain, CallNext, EnterRetry, Execute, Descend
  <2> QED
    BY <1>1, <2>1, EmptyAccount DEF Account
<1>4. CASE GateHaltsBefore \/ ChainHalts
  <2>1. ServeHalt /\ phase' \in {"after", "streaming", "done"} /\ UNCHANGED <<records, calls>>
    BY <1>4 DEF GateHaltsBefore, ChainHalts, ServeHalt
  <2>2. records.fail # 1
    BY <1>1, <1>2, <1>4 DEF GateHaltsBefore, ChainHalts, BackInEngine, Account, NoRecords, Errors
  <2>3. records.fail = 0
    BY <1>1, <2>2, <1>a
  <2>4. ctx'.hit = ctx.hit
    BY <2>1 DEF ServeHalt, Halted, TypeOK
  <2>5. phase' = "done" => outcome' = "bad_halt"
    BY <2>1 DEF ServeHalt
  <2>6. phase' # "on_error" /\ (phase' = "done" => ~RaisedEarly')
    BY <2>1, <2>5 DEF RaisedEarly
  <2> QED
    BY <1>1, <2>1, <2>3, <2>4, <2>6, KeepAccount
<1>5. CASE GateRaisesBefore
  <2>1. phase = "before" /\ phase' = "done" /\ records' = records /\ outcome' = "raised_before"
    BY <1>5 DEF GateRaisesBefore, request
  <2> QED
    BY <1>1, <2>1, EmptyAccount DEF Account
<1>6. CASE GateHalts \/ CacheHit
  <2>1. /\ phase = "down" /\ phase' = "up" /\ records' = records
        /\ value' \notin Errors /\ value' # "rejected"
    BY <1>6 DEF GateHalts, CacheHit, Execute, Leave, Errors
  <2> QED
    BY <1>1, <2>1, EmptyAccount DEF Account
<1>16. CASE CallProvider \/ MakeGenerator
  <2>1. /\ phase = "down" /\ phase' = "up" /\ records' = records /\ value' # "rejected"
        /\ at' = Len(Chain)
    BY <1>2, <1>16, ChainPositions DEF CallProvider, MakeGenerator, AtProvider, Leave
  <2> QED
    BY <1>1, <1>2, <2>1, EmptyAccount DEF Account
<1>7. CASE BreakerRejects
  <2>1. /\ phase = "down" /\ phase' = "up" /\ records' = records /\ at' = at - 1
        /\ at \in DOMAIN Chain /\ Chain[at] = "breaker" /\ value' \in {"rejected", "halt"}
    BY <1>7, ChainPositions DEF BreakerRejects, Execute, Leave, Inside
  <2>2. ~(b <= at') /\ (value' \notin Errors \/ value' = "rejected")
    BY <1>2, <2>1 DEF OneBreaker, Errors
  <2> QED
    BY <1>1, <2>1, <2>2, EmptyAccount DEF Account
<1>8. CASE PassUp
  BY <1>1, <1>8, PassAccount
<1>9. CASE BreakerRecords
  BY <1>1, <1>9, BreakerAccount
<1>10. CASE RetryDelivers \/ RetryGivesUp \/ RetryAgain
  \* Every retry loop lies inside of the breaker.
  <2>1. /\ phase = "up" /\ at \in DOMAIN Chain /\ Chain[at] = "retry" /\ records' = records
        /\ phase' \in {"up", "down"} /\ at' \in {at - 1, at + 1}
    <3>1. BackIn({"retry"})
      BY <1>10 DEF RetryDelivers, RetryGivesUp, RetryAgain
    <3>2. phase = "up" /\ at \in DOMAIN Chain /\ Chain[at] = "retry"
      BY <3>1, ChainPositions DEF BackIn, Inside
    <3>3. records' = records /\ phase' \in {"up", "down"} /\ at' \in {at - 1, at + 1}
      BY <1>10 DEF RetryDelivers, RetryGivesUp, RetryAgain, Leave
    <3> QED
      BY <3>2, <3>3
  <2>2. b < at /\ b <= at /\ b <= at'
    BY <1>2, <2>1 DEF OneBreaker
  <2>3. records = NoRecords /\ value # "rejected"
    BY <1>1, <2>1, <2>2 DEF Account
  <2>4. PICK v : Pull(v) /\ (phase' = "up" => value' = v)
    BY <1>10 DEF RetryDelivers, RetryGivesUp, RetryAgain, Leave
  <2>5. v # "rejected"
    BY <2>1, <2>3, <2>4, PullAnswers
  <2> QED
    BY <2>1, <2>2, <2>3, <2>4, <2>5, EmptyAccount
<1>11. CASE Returns \/ StreamReady
  <2>1. /\ phase = "up" /\ at = 0 /\ phase' \in {"after", "streaming"} /\ value \in Returned
        /\ UNCHANGED <<records, calls, ctx>>
    BY <1>11 DEF Returns, StreamReady, BackInEngine, RunHooks, request, Returned
  <2>2. value \notin Errors
    BY <2>1 DEF Returned, Errors
  <2>3. records.fail = 0
    BY <1>1, <1>2, <1>a, <2>1, <2>2 DEF Account
  <2> QED
    BY <1>1, <2>1, <2>3, KeepAccount
<1>12. CASE RunRaises \/ StreamRaises
  <2>1. /\ phase = "up" /\ at = 0 /\ value \in Errors /\ phase' \in {"on_error", "done"}
        /\ UNCHANGED <<records, calls, value, stream>>
        /\ ctx' = ctx \/ ctx' = [ctx EXCEPT !.error = value]
        /\ outcome' = "escaped" \/ (outcome' = "raised" /\ ~stream)
    BY <1>12 DEF RunRaises, StreamRaises, RunHooks, BackInEngine, request
  <2>2. ctx'.hit = ctx.hit
    BY <2>1 DEF TypeOK
  <2>3. records.fail = 1 <=> value # "rejected"
    BY <1>1, <1>2, <2>1 DEF Account
  <2>4. RaisedEarly' <=> value # "rejected"
    BY <2>1 DEF RaisedEarly
  <2> QED
    BY <1>1, <2>1, <2>2, <2>3, <2>4, KeepAccount
<1>13. CASE AfterResponse \/ OnError \/ HooksDone
  <2>1. /\ phase \in {"after", "on_error"} /\ (phase' = phase \/ phase' = "done")
        /\ UNCHANGED <<records, calls, ctx, outcome, value, stream>>
    BY <1>13 DEF AfterResponse, OnError, Hook, HooksDone, request
  <2>2. RaisedEarly' <=> RaisedEarly
    BY <2>1 DEF RaisedEarly
  <2>3. CASE phase = "on_error"
    BY <1>1, <2>1, <2>2, <2>3, KeepAccount DEF Account
  <2>4. CASE phase = "after"
    <3>1. records.fail = 0 /\ ~RaisedEarly
      BY <1>1, <2>4 DEF Account, HookOrder, RaisedEarly
    <3> QED
      BY <1>1, <2>1, <2>2, <2>4, <3>1, KeepAccount
  <2> QED
    BY <2>1, <2>3, <2>4
<1>14. CASE Consumer
  <2>1. phase = "streaming" /\ UNCHANGED <<records, stream>> /\ stream /\ records.fail = 0
    BY <1>1, <1>14 DEF Consumer, Deliver, Exhausted, Breaks, Close, Drop, RunHooks, request,
                       Accounted, Account
  <2>2. (\E v : Pull(v)) \/ calls' = calls
    BY <1>14 DEF Consumer, Deliver, Exhausted, Breaks, Close, Drop, request
  <2>3. calls' = calls \/ calls' > 0
    BY <2>2, PipelineAssumption DEF Pull, Operates, CountUp, TypeOK
  <2>4. ctx' = ctx \/ \E v : ctx' = [ctx EXCEPT !.error = v]
    BY <1>14 DEF Consumer, Deliver, Exhausted, Breaks, Close, Drop, request
  <2>5. ctx'.hit = ctx.hit
    BY <2>4 DEF TypeOK
  <2>6. \/ phase' \in {"streaming", "after"}
        \/ phase' \in {"on_error", "done"} /\ outcome' \in {"raised", "dropped"}
    BY <1>14 DEF Consumer, Deliver, Exhausted, Breaks, Close, Drop, RunHooks
  <2>7. phase' \in {"on_error", "done"} => ~RaisedEarly'
    BY <2>1, <2>6 DEF RaisedEarly
  <2> QED
    BY <1>1, <2>1, <2>3, <2>5, <2>6, <2>7, KeepAccount
<1>15. CASE UNCHANGED vars
  BY <1>1, <1>15 DEF vars, request, Account, RaisedEarly
<1> QED
  BY <1>3, <1>4, <1>5, <1>6, <1>7, <1>8, <1>9, <1>10, <1>11, <1>12, <1>13, <1>14, <1>15, <1>16
     DEF Next, Engine

\* Only a streamed request is handed over before it is over.
LEMMA StreamedStep ==
    ASSUME Accounted, [Next]_vars, phase' = "streaming" PROVE stream'
<1>1. CASE Application
  BY <1>1 DEF Application, Use, Begin
<1>2. CASE Engine
  BY <1>2 DEF Engine, BeforeRequest, GateHaltsBefore, GateRaisesBefore, EnterChain,
     CallNext, GateHalts, CacheHit, BreakerRejects, EnterRetry, CallProvider, MakeGenerator,
     PassUp, BreakerRecords, RetryDelivers, RetryGivesUp, RetryAgain, Returns, ChainHalts,
     RunRaises, StreamRaises, StreamReady, AfterResponse, OnError, Hook, HooksDone, Leave,
     Descend, Execute, AtProvider, RunHooks, ServeHalt, request
<1>3. CASE Consumer
  BY <1>3 DEF Consumer, Deliver, Exhausted, Breaks, Close, Drop, RunHooks, Accounted
<1>4. CASE UNCHANGED vars
  BY <1>4 DEF vars, request, Accounted
<1> QED
  BY <1>1, <1>2, <1>3, <1>4 DEF Next

LEMMA AccountedStep ==
    /\ Shape /\ Inside /\ LeftChain /\ HookOrder /\ TypeOK /\ Accounted /\ [Next]_vars
    => Accounted'
<1> SUFFICES ASSUME Shape, Inside, LeftChain, HookOrder, TypeOK, Accounted, [Next]_vars
             PROVE  Accounted'
  OBVIOUS
<1>1. Answered'
  BY AnsweredStep
<1>2. records' \in [ok : Nat, fail : Nat]
  BY TypeOfCounts, PipelineAssumption
<1>3. ASSUME NEW b \in (DOMAIN Chain)', OneBreaker(b)'
      PROVE  Account(b)'
  <2>1. CASE Application
    <3>1. records' = NoRecords /\ phase' \in {"before", "done"} /\ outcome' = "none"
      BY <2>1 DEF Application, Use, Begin, NoRequest
    <3> QED
      BY <3>1, EmptyAccount
  <2>2. CASE ~Application
    <3>1. Chain' = Chain
      BY <2>2, StackStays DEF Chain
    <3>2. b \in DOMAIN Chain /\ OneBreaker(b)
      BY <1>3, <3>1 DEF OneBreaker
    <3> QED
      BY <2>2, <3>2, AccountStep
  <2> QED
    BY <2>1, <2>2
<1> QED
  BY <1>1, <1>2, <1>3, StreamedStep DEF Accounted

(***************************************************************************)
(* A breaker outside of the retries accounts for a request at most once,   *)
(* however often it was tried: a failure is a request that raised before   *)
(* its caller had anything, for whatever reason but the breaker's own, a   *)
(* success one that was answered (circuit_breaker.py:135-255, registered   *)
(* before retry.py:93-157).                                                *)
(***************************************************************************)
THEOREM BreakerCounts == Spec => []BreakerSeesRequests
<1>1. Shape /\ Accounted => BreakerSeesRequests
  <2> SUFFICES ASSUME Shape, Accounted,
                      Cardinality({p \in DOMAIN Chain : Chain[p] = "breaker"}) = 1,
                      \A p \in DOMAIN Chain : Chain[p] = "retry" =>
                        \A b \in {q \in DOMAIN Chain : Chain[q] = "breaker"} : b < p
               PROVE  /\ records.ok + records.fail <= 1
                      /\ phase = "done" => (records.fail = 1 <=> RaisedEarly)
                      /\ records.ok = 1 => calls > 0 \/ ctx.hit
    BY DEF BreakerSeesRequests, RaisedEarly
  <2> DEFINE breakers == {p \in DOMAIN Chain : Chain[p] = "breaker"}
  <2>1. IsFiniteSet(breakers)
    <3>1. IsFiniteSet(1..Len(Chain)) /\ DOMAIN Chain = 1..Len(Chain)
      BY ChainPositions, FS_Interval
    <3>2. breakers \subseteq 1..Len(Chain)
      BY <3>1
    <3> QED
      BY <3>1, <3>2, FS_Subset
  <2>2. PICK b : breakers = {b}
    BY <2>1, FS_Singleton
  <2>3. b \in DOMAIN Chain /\ OneBreaker(b)
    BY <2>2 DEF OneBreaker
  <2> QED
    BY <2>3 DEF Accounted, Account
<1> QED
  BY <1>1, AccountInit, AccountedStep, Walks, PTL DEF Spec
=============================================================================
