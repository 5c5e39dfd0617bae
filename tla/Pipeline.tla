------------------------------ MODULE Pipeline ------------------------------
(***************************************************************************)
(* The interceptor pipeline of a client: MiddlewareEngine.run and          *)
(* run_stream (middleware/engine.py), use() and the max_retries shorthand  *)
(* (client.py), and the execute() of retry, breaker and cache middleware,  *)
(* around the call to the provider.  One request runs at a time, and use() *)
(* is called between requests.                                             *)
(*                                                                         *)
(* The recursion of _chain_call is a walk down the chain and up again: `at`*)
(* is the middleware whose execute() runs next, or that call_next() has    *)
(* just returned to or raised into, and `value` is what is in transit.     *)
(* Whether the breaker rejects, the cache hits, the provider fails and the *)
(* consumer of a stream goes on is left open.                              *)
(***************************************************************************)
EXTENDS Integers, Sequences, FiniteSets

CONSTANTS
    Kinds,          \* the kinds of middleware applications register
    MaxLen,         \* bound: registered middleware
    MaxRetries,     \* max_retries of every retry loop
    MaxChunks,      \* bound: chunks of a stream
    MaxCount        \* bound: counters of calls and records stop here

ASSUME PipelineAssumption ==
    /\ MaxLen \in Nat
    /\ MaxRetries \in Nat
    /\ MaxChunks \in Nat \ {0}
    /\ MaxCount \in Nat /\ MaxRetries < MaxCount
    /\ Kinds \subseteq {"observer", "gate", "cache", "breaker", "retry"}

VARIABLES
    stack,      \* engine._middleware
    auto,       \* client._auto_retry is set
    phase,      \* what the request does next
    stream,     \* request.stream
    at,         \* position in the stack or the chain
    value,      \* the response, generator or exception in transit
    attempts,   \* the retry loops' local counters, by position
    ctx,        \* MiddlewareContext
    outcome,    \* how the request ended
    hooks,      \* per middleware, how often each hook ran in this request
    calls,      \* provider calls this request started (a lazy one has not)
    delivered,  \* chunks the consumer has got
    records     \* outcomes the breakers recorded in this request

request == <<stream, at, value, attempts, ctx, hooks, calls, delivered, records>>
vars == <<stack, auto, phase, outcome, request>>

\* A call returns one of these ...
Returned == {"response", "lazy", "started", "empty"}
\* ... or raises one of these: MiddlewareHalt, an error worth retrying, one that
\* is not (HTTP 4xx, a parsing error), UAICircuitOpenError.
Errors == {"transient", "permanent", "rejected"}
Raised == Errors \cup {"halt"}

NoError == "none"
NewContext == [attempt |-> 0, error |-> NoError, halted |-> FALSE, hit |-> FALSE]

Positions == 1..MaxLen + 1
NoHooks == [before |-> 0, after |-> 0, on_error |-> 0]
NoRecords == [ok |-> 0, fail |-> 0]
CountUp(n) == IF n < MaxCount THEN n + 1 ELSE n

\* What _chain_call composes: the registered middleware around the shorthand's
\* retry loop (_with_auto_retry), around the provider.
Chain == IF auto THEN Append(stack, "retry") ELSE stack

TypeOK ==
    /\ stack \in Seq(Kinds) /\ Len(stack) <= MaxLen
    /\ auto \in BOOLEAN
    /\ phase \in {"before", "down", "up", "after", "on_error", "streaming", "done"}
    /\ stream \in BOOLEAN
    /\ at \in 0..MaxLen + 2
    /\ value \in Returned \cup Raised \cup {"none"}
    /\ attempts \in [Positions -> 0..MaxRetries]
    /\ ctx \in [attempt : 0..MaxRetries, error : Raised \cup {NoError},
                halted : BOOLEAN, hit : BOOLEAN]
    /\ outcome \in {"none", "returned", "raised", "escaped", "raised_before",
                    "bad_halt", "exhausted", "closed", "dropped"}
    /\ hooks \in [Positions -> [before : 0..1, after : 0..1, on_error : 0..1]]
    /\ calls \in 0..MaxCount
    /\ delivered \in 0..MaxChunks
    /\ records \in [ok : 0..MaxCount, fail : 0..MaxCount]

Init ==
    /\ stack = <<>>
    /\ auto \in BOOLEAN
    /\ phase = "done"
    /\ stream = FALSE
    /\ at = 0
    /\ value = "none"
    /\ attempts = [p \in Positions |-> 0]
    /\ ctx = NewContext
    /\ outcome = "none"
    /\ hooks = [p \in Positions |-> NoHooks]
    /\ calls = 0
    /\ delivered = 0
    /\ records = NoRecords

-----------------------------------------------------------------------------
(* Registration and the before_request hooks.                              *)

\* What was counted of the last request is forgotten.
NoRequest ==
    /\ value' = "none"
    /\ attempts' = [p \in Positions |-> 0]
    /\ ctx' = NewContext
    /\ outcome' = "none"
    /\ hooks' = [p \in Positions |-> NoHooks]
    /\ calls' = 0
    /\ delivered' = 0
    /\ records' = NoRecords

Use_KeepsShorthand(kinds) ==
    /\ phase = "done"
    /\ Len(stack) + Len(kinds) <= MaxLen
    /\ stack' = stack \o kinds
    /\ NoRequest
    /\ UNCHANGED <<auto, phase, stream, at>>

\* client.use() of one middleware or a list: a retry middleware replaces the
\* shorthand.
Use(kinds) ==
    /\ phase = "done"
    /\ Len(stack) + Len(kinds) <= MaxLen
    /\ stack' = stack \o kinds
    /\ auto' = (auto /\ "retry" \notin {kinds[i] : i \in DOMAIN kinds})
    /\ NoRequest
    /\ UNCHANGED <<phase, stream, at>>

\* chat(): a new context; the hooks run in registration order.
Begin(streaming) ==
    /\ phase = "done"
    /\ phase' = "before"
    /\ stream' = streaming
    /\ at' = 1
    /\ NoRequest
    /\ UNCHANGED <<stack, auto>>

Ran(hook) == hooks' = [hooks EXCEPT ![at][hook] = @ + 1]

BeforeRequest ==
    /\ phase = "before"
    /\ at <= Len(stack)
    /\ Ran("before")
    /\ at' = at + 1
    /\ UNCHANGED <<stack, auto, phase, outcome, stream, value, attempts, ctx, calls,
                   delivered, records>>

EnterChain ==
    /\ phase = "before"
    /\ at = Len(stack) + 1
    /\ phase' = "down"
    /\ at' = 1
    /\ UNCHANGED <<stack, auto, outcome, stream, value, attempts, ctx, hooks, calls,
                   delivered, records>>

Halted == [ctx EXCEPT !.halted = TRUE, !.error = NoError]

\* run() serves the halted response; run_stream() iterates over it, which fails
\* if the response is not iterable.
ServeHalt ==
    /\ ctx' = Halted
    /\ \/ /\ ~stream
          /\ value' = "response"
          /\ phase' = "after"
          /\ at' = Len(stack)
          /\ outcome' = "returned"
       \/ /\ stream
          /\ value' \in {"started", "empty"}
          /\ phase' = "streaming"
          /\ at' = 0
          /\ UNCHANGED outcome
       \/ /\ stream
          /\ value' = "none"
          /\ phase' = "done"
          /\ at' = 0
          /\ outcome' = "bad_halt"
    /\ UNCHANGED <<stack, auto, stream, attempts, hooks, calls, delivered, records>>

\* A gate halts the flow, or raises something else: no hook sees the latter.
GateHaltsBefore ==
    /\ phase = "before"
    /\ at <= Len(stack)
    /\ stack[at] = "gate"
    /\ ServeHalt

GateRaisesBefore ==
    /\ phase = "before"
    /\ at <= Len(stack)
    /\ stack[at] = "gate"
    /\ phase' = "done"
    /\ outcome' = "raised_before"
    /\ UNCHANGED <<stack, auto, request>>

-----------------------------------------------------------------------------
(* Down the chain.                                                         *)

Descend ==
    /\ at' = at + 1
    /\ UNCHANGED <<stack, auto, phase, outcome, stream, value, hooks, calls, delivered>>

\* The frame at `at` is left with v: what it returns or raises.
Leave(v) ==
    /\ phase' = "up"
    /\ at' = at - 1
    /\ value' = v
    /\ UNCHANGED <<stack, auto, outcome, stream, hooks, delivered>>

Execute(kind) == phase = "down" /\ at <= Len(Chain) /\ Chain[at] = kind

\* BaseMiddleware.execute; a breaker that lets the request through; a cache
\* that misses, or leaves a stream alone.
CallNext ==
    /\ phase = "down"
    /\ at <= Len(Chain)
    /\ Chain[at] # "retry"
    /\ Descend
    /\ UNCHANGED <<attempts, ctx, records>>

GateHalts ==
    /\ Execute("gate")
    /\ Leave("halt")
    /\ UNCHANGED <<attempts, ctx, calls, records>>

CacheHit ==
    /\ Execute("cache")
    /\ ~stream
    /\ Leave("response")
    /\ ctx' = [ctx EXCEPT !.hit = TRUE]
    /\ UNCHANGED <<attempts, calls, records>>

\* An open circuit: UAICircuitOpenError, or MiddlewareHalt with the fallback.
BreakerRejects ==
    /\ Execute("breaker")
    /\ \E v \in {"rejected", "halt"} : Leave(v)
    /\ UNCHANGED <<attempts, ctx, calls, records>>

EnterRetry ==
    /\ Execute("retry")
    /\ attempts' = [attempts EXCEPT ![at] = 0]
    /\ ctx' = [ctx EXCEPT !.attempt = 0]
    /\ Descend
    /\ UNCHANGED records

\* How the operation ends: its HTTP call has one of the outcomes, or it raises
\* before there is one (a model that is unknown or cannot do this, no key, a
\* body that cannot be written), which no retry middleware retries.
Operates(v, outcomes) ==
    \/ v \in outcomes /\ calls' = CountUp(calls)
    \/ v = "permanent" /\ UNCHANGED calls

\* _execute_chat; a streaming call only makes a generator that has not started.
AtProvider == phase = "down" /\ at = Len(Chain) + 1

CallProvider ==
    /\ AtProvider
    /\ ~stream
    /\ \E v \in {"response", "transient", "permanent"} :
         Operates(v, {"response", "transient", "permanent"}) /\ Leave(v)
    /\ UNCHANGED <<attempts, ctx, records>>

MakeGenerator ==
    /\ AtProvider
    /\ stream
    /\ Leave("lazy")
    /\ UNCHANGED <<attempts, ctx, calls, records>>

-----------------------------------------------------------------------------
(* Up the chain.                                                           *)

\* What next() makes of the generator in transit: a lazy one begins with
\* _execute_streaming_chat only now.  A response, an exception or a started
\* generator stays as it is.
Pull(v) ==
    IF value = "lazy"
    THEN Operates(v, {"started", "empty", "transient", "permanent"})
    ELSE /\ v = value
         /\ UNCHANGED calls

BackIn(kinds) == phase = "up" /\ at >= 1 /\ Chain[at] \in kinds

\* BaseMiddleware, the cache (which stores the response), and a gate.
PassUp ==
    /\ BackIn({"observer", "gate", "cache"})
    /\ Leave(value)
    /\ UNCHANGED <<attempts, ctx, calls, records>>

Recorded_CountsHalts(v) ==
    IF v \in {"response", "started"} THEN [records EXCEPT !.ok = CountUp(@)]
    ELSE IF v = "empty" THEN records ELSE [records EXCEPT !.fail = CountUp(@)]

\* A deliberate halt and an empty stream are not accounted for.
Recorded(v) ==
    CASE v \in {"response", "started"} -> [records EXCEPT !.ok = CountUp(@)]
      [] v \in Errors -> [records EXCEPT !.fail = CountUp(@)]
      [] OTHER -> records

BreakerRecords ==
    /\ BackIn({"breaker"})
    /\ \E v \in Returned \cup Raised :
         /\ Pull(v)
         /\ Leave(v)
         /\ records' = Recorded(v)
    /\ UNCHANGED <<attempts, ctx>>

RetryDelivers ==
    /\ BackIn({"retry"})
    /\ \E v \in Returned : Pull(v) /\ Leave(v)
    /\ UNCHANGED <<attempts, ctx, records>>

MayRetry_OffByOne(v) == v = "transient" /\ attempts[at] <= MaxRetries
MayRetry(v) == v = "transient" /\ attempts[at] < MaxRetries

RetryGivesUp ==
    /\ BackIn({"retry"})
    /\ \E v \in Raised :
         /\ Pull(v)
         /\ ~MayRetry(v)
         /\ Leave(v)
         /\ ctx' = [ctx EXCEPT !.error = v]
    /\ UNCHANGED <<attempts, records>>

RetryAgain_StampsOnce ==
    /\ BackIn({"retry"})
    /\ \E v \in Raised :
         /\ Pull(v)
         /\ MayRetry(v)
         /\ ctx' = [ctx EXCEPT !.error = v]
    /\ attempts' = [attempts EXCEPT ![at] = @ + 1]
    /\ phase' = "down"
    /\ at' = at + 1
    /\ value' = "none"
    /\ UNCHANGED <<stack, auto, outcome, stream, hooks, delivered, records>>

RetryAgain_NeverCounts ==
    /\ BackIn({"retry"})
    /\ \E v \in Raised :
         /\ Pull(v)
         /\ MayRetry(v)
         /\ ctx' = [ctx EXCEPT !.error = v, !.attempt = attempts[at] + 1]
    /\ phase' = "down"
    /\ at' = at + 1
    /\ value' = "none"
    /\ UNCHANGED <<stack, auto, outcome, stream, hooks, delivered, records,
                   attempts>>

\* After the backoff, call_next() runs everything below once more.
RetryAgain ==
    /\ BackIn({"retry"})
    /\ \E v \in Raised :
         /\ Pull(v)
         /\ MayRetry(v)
         /\ ctx' = [ctx EXCEPT !.error = v, !.attempt = attempts[at] + 1]
    /\ attempts' = [attempts EXCEPT ![at] = @ + 1]
    /\ phase' = "down"
    /\ at' = at + 1
    /\ value' = "none"
    /\ UNCHANGED <<stack, auto, outcome, stream, hooks, delivered, records>>

-----------------------------------------------------------------------------
(* The engine, once the chain returned to it or raised.                    *)

BackInEngine == phase = "up" /\ at = 0

RunHooks(hook) ==
    /\ phase' = hook
    /\ at' = Len(stack)
    /\ UNCHANGED <<stack, auto, stream, value, attempts, hooks, records>>

Returns ==
    /\ BackInEngine
    /\ value = "response"
    /\ outcome' = "returned"
    /\ RunHooks("after")
    /\ UNCHANGED <<ctx, calls, delivered>>

ChainHalts ==
    /\ BackInEngine
    /\ value = "halt"
    /\ ServeHalt

RunRaises ==
    /\ BackInEngine
    /\ ~stream
    /\ value \in Errors
    /\ ctx' = [ctx EXCEPT !.error = value]
    /\ outcome' = "raised"
    /\ RunHooks("on_error")
    /\ UNCHANGED <<calls, delivered>>

\* run_stream() catches MiddlewareHalt only.
StreamRaises ==
    /\ BackInEngine
    /\ stream
    /\ value \in Errors
    /\ phase' = "done"
    /\ outcome' = "escaped"
    /\ UNCHANGED <<stack, auto, request>>

\* The caller gets a generator, and nothing of _wrap_stream has run.
StreamReady ==
    /\ BackInEngine
    /\ stream
    /\ value \in Returned
    /\ phase' = "streaming"
    /\ UNCHANGED <<stack, auto, outcome, request>>

Hook(hook) ==
    /\ phase = hook
    /\ at >= 1
    /\ Ran(hook)
    /\ at' = at - 1
    /\ UNCHANGED <<stack, auto, phase, outcome, stream, value, attempts, ctx, calls,
                   delivered, records>>

AfterResponse == Hook("after")
OnError == Hook("on_error")

HooksDone_NoFailedFlag ==
    /\ phase \in {"after", "on_error"}
    /\ at = 0
    /\ IF stream /\ phase = "on_error"
       THEN phase' = "after" /\ at' = Len(stack)
       ELSE phase' = "done" /\ UNCHANGED at
    /\ UNCHANGED <<stack, auto, outcome, stream, value, attempts, ctx, hooks, calls,
                   delivered, records>>

HooksDone ==
    /\ phase \in {"after", "on_error"}
    /\ at = 0
    /\ phase' = "done"
    /\ UNCHANGED <<stack, auto, outcome, request>>

-----------------------------------------------------------------------------
(* The caller consumes the stream: _wrap_stream.                           *)

Deliver ==
    /\ phase = "streaming"
    /\ delivered < MaxChunks
    /\ Pull("started")
    /\ value' = "started"
    /\ delivered' = delivered + 1
    /\ UNCHANGED <<stack, auto, phase, outcome, stream, at, attempts, ctx, hooks, records>>

\* A started generator has a first chunk to deliver before it can end.
Exhausted ==
    /\ phase = "streaming"
    /\ \/ Pull("empty")
       \/ value = "started" /\ delivered > 0 /\ UNCHANGED calls
    /\ outcome' = "exhausted"
    /\ RunHooks("after")
    /\ UNCHANGED <<ctx, delivered>>

Breaks_Restarts ==
    /\ phase = "streaming"
    /\ value = "started"
    /\ delivered > 0
    /\ value' = "lazy"
    /\ UNCHANGED <<stack, auto, phase, outcome, stream, at, attempts, ctx, hooks, calls,
                   delivered, records>>

\* The next chunk is not to be had.  The iterable of a halt may raise at once;
\* what a middleware pulled the first chunk of delivers that one before.
Breaks ==
    /\ phase = "streaming"
    /\ \E v \in {"transient", "permanent"} :
         /\ \/ Pull(v)
            \/ value = "started" /\ (delivered > 0 \/ ctx.halted) /\ UNCHANGED calls
         /\ ctx' = [ctx EXCEPT !.error = v]
    /\ outcome' = "raised"
    /\ RunHooks("on_error")
    /\ UNCHANGED delivered

\* The caller stops iterating: the suspended generator runs its `finally`.
Close ==
    /\ phase = "streaming"
    /\ delivered > 0
    /\ outcome' = "closed"
    /\ RunHooks("after")
    /\ UNCHANGED <<ctx, calls, delivered>>

\* The caller never asks for a chunk: a generator that did not start has no
\* `finally` to run.
Drop ==
    /\ phase = "streaming"
    /\ delivered = 0
    /\ phase' = "done"
    /\ outcome' = "dropped"
    /\ UNCHANGED <<stack, auto, request>>

-----------------------------------------------------------------------------
Lists == {<<k>> : k \in Kinds} \cup {<<k, l>> : k, l \in Kinds}

Engine ==
    \/ BeforeRequest \/ GateHaltsBefore \/ GateRaisesBefore \/ EnterChain
    \/ CallNext \/ GateHalts \/ CacheHit \/ BreakerRejects \/ EnterRetry
    \/ CallProvider \/ MakeGenerator
    \/ PassUp \/ BreakerRecords \/ RetryDelivers \/ RetryGivesUp \/ RetryAgain
    \/ Returns \/ ChainHalts \/ RunRaises \/ StreamRaises \/ StreamReady
    \/ AfterResponse \/ OnError \/ HooksDone

Consumer == Deliver \/ Exhausted \/ Breaks \/ Close \/ Drop

Application ==
    \/ \E kinds \in Lists : Use(kinds)
    \/ \E streaming \in BOOLEAN : Begin(streaming)

Next == Engine \/ Consumer \/ Application

Spec == Init /\ [][Next]_vars

\* The thread of a request runs; the caller of a stream need not go on.
FairSpec == Spec /\ WF_vars(Engine)

-----------------------------------------------------------------------------
(* Properties.                                                             *)

Registered == DOMAIN stack
AtMostOne(kind) == \A p, q \in DOMAIN Chain : Chain[p] = kind /\ Chain[q] = kind => p = q

\* A finished request reached every registered middleware through exactly one of
\* its two terminal hooks, on_error if it raised and after_response otherwise,
\* wherever in the chain it was halted, rejected, retried or closed.
HooksRunOnce ==
    phase = "done" /\ outcome \in {"returned", "raised", "exhausted", "closed"} =>
        \A p \in Registered :
            /\ hooks[p].on_error = (IF outcome = "raised" THEN 1 ELSE 0)
            /\ hooks[p].after = 1 - hooks[p].on_error

\* However middleware are composed and errors fall, an application that
\* registered at most one retry middleware, singly or in a list, never has one
\* request start more than max_retries + 1 provider calls: the shorthand gives
\* way to it, and a stream is not called again for its second chunk.
AttemptBudget ==
    Cardinality({p \in Registered : stack[p] = "retry"}) <= 1
        => calls <= MaxRetries + 1

\* What the after_response hooks report as retries (uai_retries_total) is how
\* often the provider was called again, unless another middleware answered.
RetriesReported ==
    phase = "after" /\ AtMostOne("retry") /\ ~ctx.hit /\ ~ctx.halted
        => calls = ctx.attempt + 1

\* Once the caller has a chunk, no retry calls the provider again: no caller
\* sees the beginning of an answer twice.
NoCallAfterDelivery == [][delivered > 0 => calls' <= calls]_vars

\* A breaker registered outside of the retries accounts for a request at most
\* once: a failure exactly if the request raised before the caller had anything
\* of it, be it the provider or the way to it, but for the breaker's own
\* rejection; a success only if a provider or a cache answered.
BreakerSeesRequests ==
    LET breakers == {p \in DOMAIN Chain : Chain[p] = "breaker"}
        outermost == \A p \in DOMAIN Chain : Chain[p] = "retry" =>
                        \A b \in breakers : b < p
    IN  Cardinality(breakers) = 1 /\ outermost =>
            /\ records.ok + records.fail <= 1
            /\ phase = "done" =>
                 (records.fail = 1 <=> /\ value # "rejected"
                                       /\ (outcome = "escaped" \/ (outcome = "raised" /\ ~stream)))
            /\ records.ok = 1 => calls > 0 \/ ctx.hit

\* Every request ends, or hands its stream to the caller: nested retry loops,
\* rejections and halts never keep it in the chain.
Finishes == phase = "before" ~> phase \in {"streaming", "done"}

\* docs/middleware.md:18: "on_error hooks run (in reverse order) when the chain
\* raises."  run_stream() lets an error before the first chunk escape.
ErrorsReachHooks ==
    phase = "done" /\ outcome \in {"raised", "escaped"} =>
        \A p \in Registered : hooks[p].on_error = 1
=============================================================================
