# TLA+ models of uai-sdk

`uai-sdk` is a synchronous Python client, `UniversalAI`, for several AI
providers: requests run through a pipeline of middleware (retry, cache, circuit
breaker, metrics, tracing, logging), a registry of providers and models that
files and the environment override, and one adapter per provider. This
directory holds TLA+ models of its core logic, TLC configurations and TLAPS
proofs. Paths below are relative to `src/uai/`.

## 1. Inventory

| Part | State | Operations | What is hard, and what makes it correct |
| --- | --- | --- | --- |
| Circuit breaker, `middleware/circuit_breaker.py` | `_failures`, `_open_since`, per (provider, model) | `execute`, `state`, `reset` (all, one provider, one pair) | No locks, and the call lies between the guard and the recording: late outcomes, lost counts, several probes. A circuit opens after `failure_threshold` failures and no earlier, rejects until `reset_timeout`, and recovers. |
| Engine, `middleware/engine.py`, `base.py` | `_middleware`, one `MiddlewareContext` per request | `use`, `run`, `run_stream`, `_wrap_stream` | Halts, errors and abandoned generators at every position. Each middleware sees each request end exactly once. |
| Retry, `middleware/retry.py` | loop locals, `context.attempt`, `context.error` | `_execute`, `_execute_stream` | Lazy generators, nesting with other loops. A bounded number of calls, none after the first chunk. |
| Cache, `middleware/cache.py` | `_cache`: key to (expires_at, response) | `execute`, `_get`, `_set`, `_evict_oldest`, `clear` | Check-then-act between threads, iteration over a changing dictionary. Bounded size, no early loss. |
| Metrics and tracing, `middleware/metrics.py`, `tracing.py` | `_counters`, `_histograms` with shared bucket lists, `_spans`, the spans of a context | hooks, `increment`, `observe`, `clear`, `start`, `finish` | Unlocked read-modify-write, a `clear()` between two halves of an update, requests that end without a hook. Nothing is counted that did not happen, averages are whole, metrics and spans agree. |
| Client, `client.py` | `_auto_retry`, `_adapters`, `_all_configs`, defaults | `use`, `chat`, `embed`, `rerank`, `_resolve`, `_get_adapter` | Precedence of configuration sources; resolution happens twice, before and after the middleware. A key or a model of one provider never reaches another. |
| Streaming loop, `client.py` `_execute_streaming_chat` | generator locals: `first_chunk`, `seen_ids`, `content_parts`, `finish_reason`, `finalized` | connect, one line, resume | Lines in any order, a callback beside the caller, errors and callers that stop. One final chunk, the whole content validated before it. |
| Registry, loader, environment, `registry/*.py` | `PROVIDER_REGISTRY`, `_config_cache` | `register_provider`, `resolve_model`, `load_config`, `apply_to_registry`, `apply_env_overrides` | A process-wide cache that ignores its argument; layers that override each other. |
| Enforcer, `enforcer.py` | none | `assert_supported` | A middleware may change the request after it was checked. |
| Structured output, `structured.py` | none | `extract_json_object`, `parse_structured_output` | Fences, nesting and quotes. The object a model wrote is found, whatever its strings contain. |
| HTTP exchanges, `client.py`, `middleware/retry.py` | attempts and waits of a call | request, `_handle_http_error`, `_should_retry`, delay | Statuses, timeouts and lost connections, each to be retried or not. Transient failures are outlasted, permanent ones are final. |
| Adapters, `adapters/*.py` | DeepSeek: `self.reasoning` | `format_request`, `parse_response`, `handle_streaming`, `translate_error`, embed and rerank | Eight variants of one protocol beside the client's own parser; streams that share an adapter. What is admitted can be sent, and all readers agree. |
| Mock server, `testing/mock_server.py` | `request_count`, `_failures` | `do_POST`, `fail_with`, `start`, `stop` | Handler threads without locks, abandoned requests whose handlers run on. Each injected failure is sent once. |
| Benchmark, CLI, models, exceptions | per run only | - | Data, arguments and statistics. |

The client calls the engine with the operation as a callable; the engine
composes the `execute` methods of the registered middleware around it, the
`max_retries` shorthand innermost. Middleware share one context object per
request, and their own dictionaries between all requests and threads of the
client: the tests under `tests/performance` drive one client from a pool of 12
or 16 threads, and that is the concurrency modelled here.

The hazards found while reading are in `PROJECT.json`, each at its line with the
properties that cover it.

## 2. Modules

| Module | Models |
| --- | --- |
| `CircuitStates` | What the breaker promises: per key a closed, open or half-open circuit, one call at a time. |
| `CircuitBreaker` | `circuit_breaker.py` as it is: two dictionaries, threads, clock reads, `reset()`. |
| `Pipeline` | Engine, retry loops, shorthand and the `execute` of breaker and cache, for one request at a time. |
| `Cache` | `cache.py`: threads on one dictionary. |
| `Stream` | `_execute_streaming_chat`: the loop over the lines of one answer. |
| `ProviderConfigs` | `schema.py` and the pure part of `loader.py` and `env.py`: resolution, validation, layers. |
| `Client` | `client.py` over registry, loader and environment: construction, checks and sending of requests. |
| `Telemetry` | `metrics.py` and `tracing.py`: the hooks of concurrent requests on one registry and one recorder. |
| `Exchange` | The HTTP exchanges of retrying callers, and the mock server's handler threads. |
| `JsonExtract` | `structured.py`: `extract_json_object` over sequences of characters. |
| `AdapterFormats` | `adapters/*.py`, the pure part: formatting, parsing, one line of a stream, per adapter. |
| `Adapters` | One adapter at work on a call or a stream, beside the client's parser and another stream. |
| `MC...` | Values and symmetry for TLC. |
| `CircuitBreakerProofs`, `PipelineProofs`, `CacheProofs`, `StreamProofs`, `ClientProofs`, `TelemetryProofs`, `ExchangeProofs`, `AdaptersProofs` | Theorems about the module they are named after. |

Operators named `X_Y` (such as `CountWrite_Early`) are faulty variants of `X`
and belong to no specification: each shows that a property notices that fault.

### CircuitBreaker

`failures` and `openSince` are the two dictionaries, with 0 and `Absent` for a
missing key (the code never stores a count of 0). A timestamp is only ever
compared as `monotonic() - stamp >= reset_timeout`, so it is kept as an age that
stops at `ResetTimeout`; `Tick` is the clock. Every dictionary operation and
clock read of `_record_failure` and `_record_success` is an action of its own,
because a thread can be preempted between any two: `Fail` (read the stamp),
`NotHalfOpen` or `Reopen`, `CountRead`, `CountWrite`, `ReadClock`, `StoreStamp`;
`Succeed` (drop the count), `Close`. `Enter` and `Guard` are the two reads in
`execute`. `reset()` is one more thread: in place for everything or one pair,
and by copying and rebinding each dictionary for a provider (`CopyFailures` ...
`RebindOpen`, `ResetRaises` when the size changes under the comprehension; it is
the size the iteration compares, as CPython does). `evidence` is a history
variable: failures counted for a key since it was last closed, uncounted, and
recorded by nobody.

`SequentialSpec` restricts the same actions to one request or reset at a time;
under it the module implements `CircuitStates` by the mapping `CircuitOf`, where
an outcome takes effect at the step that decides it.

### Pipeline

The recursion of `_chain_call` becomes a walk: `at` goes down `Chain` (the
registered middleware, then the shorthand's retry loop) to the provider and up
again, `value` being what is returned or raised. A streaming call returns a
`lazy` generator; breaker and retry pull its first chunk (`Pull`), which is when
the provider is called, and turn it into a `started` or `empty` one. The engine
takes over at position 0: hooks in reverse, or the generator for the caller
(`Deliver`, `Exhausted`, `Breaks`, `Close`, `Drop`). Whether a breaker rejects,
a cache hits, a provider fails and a caller goes on are free choices, so the
result holds for every behaviour of those. The operation may also raise before
its HTTP request (an unknown model, a missing key, a body that cannot be
written), which is no call (`Operates`) but an error like any other to the
middleware. `ServeHalt` covers `run_stream`'s `iter(halted)`, which fails for a
response that cannot be iterated.

Left out: hooks that raise in `after_response` or `on_error`, `use()` during a
request, and what is retried after which delay (see `Exchange`).

### Cache

An entry is what is left of its ttl. `_get` is the read (`Get`), the comparison
with the clock (`Hit`, `FindExpired`) and the pop (`DropExpired`); `_set` is the
size check, `_evict_oldest` (`BeginScan`, `EndScan` or `ScanRaises`, `Evict`) and
the store. Where `min()` reads entries while others replace them, the victim is
the oldest of the dictionary as it was or as it is. `latest` and `overlapped`
are history variables. The hash of a request is a key; deep copies are not
modelled.

### Stream

An answer is a sequence of lines, each an event: one to skip, a malformed one,
`[DONE]`, or a delta with role, content, id, tool calls and `finish_reason` in
any combination. `pc` says where the generator is: before its first pull,
reading, between callback and yield, suspended at one of its three `yield`
statements, or ended. Each chunk goes to the callback first and then to the
caller (`Delta`, `CallbackReturns`), while `[DONE]` and the closing chunk are
yielded only. `content_parts` is the number of content deltas in it; validation
of what they add up to is a free choice. `out` and `called` are the chunks the
caller and the callback have got; `arguments` counts the tool-call parts sent so
far, since a part without an id needs an earlier one. Left out: usage, and the
text of deltas.

### Client and ProviderConfigs

A provider's configuration is a record of the fields that differ in kind: a URL,
a number, a flag, the defaults, models with their capabilities, aliases. `Valid`
is the schema's model validator, `DeepMerge` a file's layer over a registered
provider, `ApplyEnv` the environment's, all or nothing. Process state is
`registry`, `cache` (`_config_cache`), the files, `UAI_CONFIG_PATH`, the
override variables and the API keys in the environment; `Construct` is
`UniversalAI(...)` as a whole, which leaves the cache loaded even when a later
check raises. A request has two steps, since everything is resolved twice:
`Begin` is `chat` or `embed` up to the pipeline, `Send` or `Raise` what
`_execute_chat`, `_execute_streaming_chat` and `_embed_request` do behind it.
Between them a middleware may redirect a chat (`Swap`) and the process may
change. `sent` is what has just gone out, and where. Reranking resolves as
embedding does and shares its model. Left out: strings that differ in whitespace
only; bodies and responses are in `Adapters`, failures in `Exchange`.

`Over` is `{**base, **layer}`; it stands where TLC's `@@` would, which the prover
cannot expand.

### Telemetry

A hook is a list of updates to the registry (`todo`), each of them a read and a
write for a counter (`IncrementRead`, `IncrementWrite`), and for a histogram the
get with its default (`ObserveGet`), a read and a write of one bucket
(`BucketRead`, `BucketWrite`) and the store of the tuple (`ObserveStore`). A
histogram refers to its list of buckets, so that two observations can hold the
same list: `lists` is the heap. `clear()` drops the counters and then the
histograms. Tracing is beside it: `recorder` counts spans by status, `span` and
`otel_span` are what a context holds; a tracer may raise, a request may be halted
before tracing saw it (`HaltEarly`; it then fails only if it is a stream
and raises while iterated, `MayFail`) or be lost to every hook (`Lose`, an eager
stream error or a stream that is never iterated). `ideal` is the registry had
every hook been one step, `raced` the series of which two updates overlapped.
Left out: `render()` and the getters, which only read; attributes of spans;
`SpanRecorder.clear()`.

### Exchange

A caller is the retry loop around one call: `Connect`, the answer or `GiveUp` (a
timeout or a reset), `Raise`, or `Sleep` and `Retry`. `HttpError` is
`_handle_http_error`, `ShouldRetry` the condition of `_should_retry`, `Delay` the
backoff with cap, jitter and `Retry-After`, in halves of a tick. The server's
`do_POST` runs per exchange, by statement: the increment of `request_count` is a
read and a write, the test of `_failures`, the read of its head and the update of
head or queue are steps of their own, so that two handlers can send the same
failure, or one dies of an empty list (`Dies`). A caller that gave up leaves its
handler running. `fail_with`, `stop` and `start` come at any time. `collided` is
what two handlers were updating at once. Bodies are left out.

### JsonExtract, AdapterFormats and Adapters

A text is a sequence of braces, brackets, quotes, backslashes, colons, newlines,
fences and other characters; `json.loads` is a small grammar over them (commas
left out), and the scan for a balanced object a recursive function with the
depth, the string flag and the escape flag of the code. In `AdapterFormats` each adapter is
an operator that says what is its own in requests, capabilities, answers, finish
reasons, usage and errors. `Adapters` makes a call of them: `Ask` is the check of
capabilities by client and enforcer, `Format` the body, `Answered`, `Refused`,
`Embedded` and `Ranked` the reading of what comes back. A stream is a `reader`
and the lines it is given; `told` is what the provider said, `other` the
reasoning of a second stream over the same adapter. For a chat the client calls
of an adapter only `format_request`, paths and capabilities, and parses the
answer itself: the model runs both parsers, and `ParsersAgree` compares them,
with the name of the model and the reasoning tokens apart, which only the
adapters read from the answer. A `tool_choice` is a member of `ToolCallMode` or a
plain string (`PlainToolChoice`), which has no `.value` for the adapter to read.
Left out: identifiers, token counts, raw payloads, events after a finish reason.

## 3. Runs

| Run | Shows | Bounds and why they suffice |
| --- | --- | --- |
| `breaker_threads` | `NeverOpensEarly`: races lose failures but never invent one. `Recovers`: after an outage every open circuit closes. | Two threads and `reset()`, one key, threshold 2, timeout 2 ticks, four provider failures: enough to open, fail a probe and have a late failure in flight. Keys share nothing but `reset`, which the sequential run takes over two. |
| `breaker_sequential` | `Implements`: the code is the documented state machine. `ClosedBelowThreshold`. | One thread, two keys of two providers, five failures. |
| `pipeline` | `HooksRunOnce`, `AttemptBudget`, `RetriesReported`, `NoCallAfterDelivery`, `Finishes`. `BreakerSeesRequests`: outside of the retries a breaker counts requests and not attempts, whatever they failed of. | Chains up to three with the shorthand beneath, so that any kind stands outside, between and inside two others; two retries; two chunks, a first one and a later one. `MaxCount` = 5 exceeds the calls one loop may make (3), beyond which counters of nested loops stop. |
| `pipeline_eager_error` | Violated: a stream that fails before its first chunk runs no `on_error` hook. | chains up to two |
| `cache_threads` | `SizeBound`, `KeepsNewest`: until two requests overlap, the size holds and nothing is lost early, with `clear()` at any time. | Two threads, three keys, two entries: eviction has a choice and a newcomer. |
| `stream` | `FinalChunkIsLast`, `ValidatedWhole`, `ShownOnce`, `CallbackFirst`. | Four lines, two ids: content, content with another id, a finish, and `[DONE]` or the end, in any order. |
| `client` | `SchemaHolds`, `Layers`, `StaysHome`, `DeclaredIds`, `ForeignModelRejected`, `ChecksSurvive`. | Two built-in providers that share no model and a third from a file under a capitalised name; four files, five settings of variables. `MaxChanges` = 2: an override needs one change, an override over a file two. |
| `telemetry` | `CountsHonestly`: races only lose, and what does not overlap is exact. `NoTornAverage`. `ViewsAgree`: every ended span was counted under its status, and beyond the spans only requests that tracing did not see. | Two threads, two requests, one operation, a histogram of two buckets that both take the observation, one `clear()` (`ClearBy` = 1: when one request was sent at most): two hooks that overlap on every pair of reads and writes, the second holding the first one's list. More requests repeat the same pairs. |
| `exchange` | `BooksBalance`: injected failures are sent exactly once unless two handlers collide. `OutlastsFailures`, `PermanentIsLast`. | Two callers, one retry, chat, stream and rerank; one injection of two 429s or one 401, one lost exchange, one stop: a caller can lose one attempt to a failure, another to the other caller's, and leave a handler behind. |
| `stream_http_error` | Violated: a 429 for a stream is not retried. | one caller, one injection |
| `adapters` | `AdmittedIsSendable`: what is admitted is sent, but for two kinds of requests that section 5 names. `ParsersAgree`, `FindsObject`, `StreamDelivered`, `ReasoningUnmixed`. | Eight adapters and the base class. Requests with and without blocks, images, a schema, tools and either kind of `tool_choice`; answers with and without a model's name and reasoning tokens, that deviate in one field or two; ten objects and arrays, nested, broken, with braces, escapes and a fence in strings, between eight prefixes and seven suffixes; streams of five lines, enough for two contents, a finish, `[DONE]` and a line of nothing in any legal order; two deltas of the other stream. |
| `text_blocks` | Violated: text blocks cannot be sent by DeepSeek, GLM and Kimi. | as `adapters`, without streams |

With overlapping requests the cache exceeds `max_size`, and not by the number of
threads at most: two threads can choose the same oldest entry, so that one
eviction makes room for two stores, and since each later store evicts at most
one entry the excess stays and can grow with the next such race.

Fairness. In the breaker, a started `_record_*` or `reset()` runs on and the
clock advances (weak fairness: threads are scheduled and nothing blocks). Of the
environment `Recovers` assumes that the outage ends (`MaxFaults` bounds the
failures), that every circuit keeps being requested, and that calls are not cut
short for ever by halts or empty streams (strong fairness of `Enter` and
`Succeed`); without requests no circuit could close. In the pipeline only the
thread of the request is fair, not the caller of a stream nor the application.
The modules `Client`, `Cache`, `Stream`, `Telemetry`, `Exchange` and `Adapters`
state no fairness and have no liveness properties. Deadlock is checked in all
runs.

## 4. Proofs

Every theorem holds for all values of the constants, from the named assumptions
of the module. Every safety property of the passing runs of section 3 is proved. A property
is rarely inductive; what follows is the argument.

`CircuitBreakerProofs`, for any threads, keys, threshold, timeout and number of
failures, from `ConstructorAssumption` (the checks of `__init__`):

* `TypeCorrect`: `Spec => []TypeOK`.
* `OpensAtThreshold`: `Spec => []NeverOpensEarly`. A thread about to store a
  stamp, or a `reset()` about to rebind an old copy, may open a circuit. The
  invariant `IInv` adds that everything held is backed: stored counts, counts
  held between read and write, stamps held before their store, and copies of
  either dictionary never exceed the history.
* `BelowThreshold`: `SequentialSpec => []ClosedBelowThreshold`.
* `ImplementsCircuits`: `SequentialSpec => Implements`. The invariant `SInv` says
  that with one thread what was read still stands when it is acted upon
  (`ReadStands`, `CopyStands`) and that a closed circuit is below the threshold
  unless its opening is under way (`Below`). `MappedCircuit` states the mapping
  by cases, and every step is then one of `CircuitStates` or changes no circuit:
  in `reset()` each of the two dictionaries is an abstract reset of its own.

`PipelineProofs`, for chains of any length and kind, from `PipelineAssumption`
(the counters reach beyond `max_retries`):

* `StreamsOnce`: `Spec => NoCallAfterDelivery`, by `LeftChain`: once a chunk was
  delivered the request has left the chain, and the generator in the caller's
  hands has started.
* `HooksOnce`: `Spec => []HooksRunOnce`, by `HookOrder`: where the walk stands
  determines which hooks have run at which position. A request that is over has
  run one terminal hook of every middleware, also of one whose `before_request`
  an early halt skipped.
* `CallsBudgeted`: `Spec => []AttemptBudget`. Each retry loop pays for the calls
  below it (`Budget`), and the shorthand is gone when a retry middleware is
  registered (`ShorthandYields`).
* `TypeCorrect`: `Spec => []TypeOK`: the walk never leaves the chain (`Inside`),
  no hook runs before it is reached (`Prepared`).
* `RetriesCounted`: `Spec => []RetriesReported`, by `Counted`: going down, the
  provider was called once per attempt that failed; going up with an answer, once
  more, and the one loop and the context agree on the attempt.
* `BreakerCounts`: `Spec => []BreakerSeesRequests`, by `Accounted`: the walk
  passes the outermost breaker once, on its way up, and what it recorded then is
  what the request comes to: a failure if and only if it raised before the caller
  had anything, other than by the breaker's rejection.

`CacheProofs`, from `CacheAssumption`:

* `TypeCorrect`: `Spec => []TypeOK`.
* `SizeKept`: `Spec => []SizeBound`. As long as nothing overlapped, one thread is
  at work, its scan sees the dictionary as it is, its victim is in it, and a store
  has room.
* `NewestKept`: `Spec => []KeepsNewest`, by `KeepInv`. What is cached is what was
  stored last (`Faithful`). The one thread finds its entry as it read it
  (`Reading`) and nothing under its key from then on (`Missing`); while it evicts,
  the cache is full and the victim the oldest, or `clear()` has emptied it
  (`Evicting`). Hence the others and the response about to be stored make
  `max_size` as young as the victim (`VictimOutlived`), which `Kept` counts by
  `Coming` already before the store.

`StreamProofs`, for answers of any length:

* `StreamTypes`: `Spec => []TypeOK`;
* `FinalOnce`: `Spec => []FinalChunkIsLast`. The invariant adds to the types that
  a final chunk leaves the generator where it can yield nothing more
  (`FinalEndsIt`).
* `WholeContent`: `Spec => []ValidatedWhole`, by `Joined`: the parts accumulated
  are those shown and the one in the callback's hands, and `finalized` stands for
  a final chunk.
* `FirstAndIdsOnce`: `Spec => []ShownOnce`, by `Firsts`: `first_chunk` says that
  no content was shown, and `seen_ids` holds every id that was.
* `CallbackAhead`: `Spec => []CallbackFirst`, by `InStep`.

`ClientProofs`, for any provider tables, files, variables and arguments, from
`ClientAssumption`, which says what the tables of the code are like (a name is
known in lower case, an adapter belongs to a built-in provider, a built-in
configuration passes the schema and lists the models its aliases stand for) and
what files, variables and an application may bring (a file lists its aliases'
models, variables set scalar settings):

* `CredentialsStayHome`: `Spec => []StaysHome`. A configuration goes by the
  lower-cased name of its key, whatever layers it was made of (`NamesFollow`), so
  that a key chosen by a configuration's name goes to that provider's.
* `ChecksStand`: `Spec => []ChecksSurvive`. A client has a configuration of its own
  for every provider with an adapter (`ClientShape`), so that what a request
  resolved to stands until it is sent, although the registry may change
  (`ResolvedStays`).
* `SchemaKept`: `Spec => []SchemaHolds`, by `ConfigsChecked`: all that anybody
  holds is `Checked`, and the file cache is the file it was loaded from over the
  registry of then.
* `LayersOrdered`: `Spec => []Layers`. The same invariant, and what merging and
  overriding do to one field (`LayersOf`).
* `ForeignRejected`: `Spec => []ForeignModelRejected`, from the steps of the
  constructor.
* `IdsDeclared`: `Spec => []DeclaredIds`: in a `Checked` configuration what an id
  resolves to is no alias, and unless unknown models are allowed it is listed
  (`ResolvedIds`).

`TelemetryProofs`, for any threads, requests, operations, durations and buckets
(whose bounds need not ascend), from `TelemetryAssumption`:

* `AveragesWhole`: `Spec => []NoTornAverage`. The sum and the count a thread holds
  between get and store are within the bounds too (`HeldBetween`), and the two are
  stored as one.
* `TelemetryTypes`: `Spec => []TypeOK`. An open span has a thread, so that the
  recorder never counts below 0 (`Traced`).
* `ViewsTellOneStory`: `Spec => []ViewsAgree`. Spans are counted with the requests
  that own them: every ended span was counted, or its request has yet to reach
  the metrics, and only a request without a span is counted beyond them
  (`StoryInv` over `Failures`, `Successes` and `Unspanned`; `SpansInv` has the
  order of the hooks).
* `HonestCounts`: `Spec => []CountsHonestly`, by double entry. Each series has a
  book: what is stored, or held by a thread in the midst of its update, and what
  the threads have yet to do is never more than the ideal registry shows, and
  equal to it as long as no two updates overlapped (`CountersInv`, `SumsInv`,
  `BucketsInv`). For buckets the book is kept per list a thread or the registry
  refers to (`Live`), since a race can leave two; `FreshInv` says that a list is
  made once, by its request, and untouched before. A `clear()` that meets
  a hook at work leaves no book to keep, since a value read before it may be
  stored after it; that is where the property stops (`torn`).

`ExchangeProofs`, for any callers, retries, delays and injections, from
`ExchangeAssumption` (that a power of 2 is a natural number no prover knows;
`PowerOfTwo` proves it, by counting the subsets of a finite set):

* `ExchangeTypes`: `Spec => []TypeOK`, with the bound on what a caller has slept.
* `PermanentEnds`: `Spec => []PermanentIsLast`. A caller that goes on does so from
  a transient error (`RetriedIsTransient`), which is what its last exchange was
  answered with (`AnswersAtLast`), and later exchanges have not begun
  (`NotYetBegun`). It is about runs in which no exchange was given up: a caller
  that timed out does not know what it was answered.
* `BooksKept`: `Spec => []BooksBalance`. A count read is not too high
  (`CountKept`); a handler alone at the queue knows its head and finds it there,
  and what remains is what was asked for less what was sent (`QueueKept`).
* `FailuresOutlasted`: `Spec => []OutlastsFailures`, by `RetriesMet`: each attempt
  that was retried was answered with a failure of the server's, and no more were
  answered so than sent. The failures are those sent to all callers together, with
  no exchange given up, no stop, and no two handlers at the queue at once.

`AdaptersProofs`, for all requests and answers of these forms and streams of any
length, from `AdaptersAssumption` (of the constants: requests, answers and
events have their forms):

* `ReasoningKept`: `Spec => []ReasoningUnmixed`. A generator holds all that its
  provider told it, and whoever wrote `self.reasoning` last wrote all it had.
* `SendableBodies`: `Spec => []AdmittedIsSendable`, by `AnswerInv` and
  `FormattedBody`: formatting keeps what a message says, and turns block objects
  into what JSON can encode wherever the adapter admits images. By `RequestRaises`
  and `OutboundBlocks` it fails over a plain `tool_choice` or text blocks only.
* `ParsersAlike`: `Spec => []ParsersAgree`, by cases of the adapters
  (`AnyParser`), each of which reads what all read (`ReadAlike`).
* `StreamsAlike`: `Spec => []StreamDelivered`, by `Following`: content out is
  content told, and the last event decides whether a final chunk is due.
* `AdapterTypes`: `Spec => []TypeOK`.
* `ObjectsFound`: `Spec => []FindsObject`, for texts of any length, nesting and
  surroundings (`WrittenInv`: what is read as a structured answer is a text a
  model writes). In three steps. `json.loads` and the loop of the scan are run
  over the same characters: as long as the stack of the one holds the first
  bracket, the other's depth is the number of brackets of that kind on it, and
  both agree on strings and escapes (`Follows`), so that the loop ends where JSON
  does and nowhere before, whatever follows (`ScanOfBlock`). Text before a block
  without its opener does not hide it (`BlockFound`). And taking fences out leaves
  a JSON object as it is, since inside of one a fence is in a string, where no
  line begins or ends (`NoFence`, `CleanedAround`).

The last theorem is about recursive functions over a text. `Induction` states
induction by a set, from the least element that a well-founded order has, and
`RunExists` with it that such a function exists for any first value and any
step; from these `ReadByChar`, `ScannedByChar` and `Kept` say what each function
of `JsonExtract` makes of one more character, which is all the other lemmas use.

Only model-checked: `Recovers` and `Finishes`, since liveness is out of the
prover's reach. Of `ImplementsCircuits`, fairness is no part.

## 5. Disagreements with the documentation

With a run, and a finding in `PROJECT.json`: `on_error` skipped for early stream
errors (`pipeline_eager_error`); an error status of a stream that raises an error
which is none of the SDK's and is not retried (`stream_http_error`); messages of
text blocks that three adapters cannot send (`text_blocks`).

Met while modelling, without a run of their own:

* Threads that find a circuit half open all probe it (`circuit_breaker.py:206`),
  although line 20 speaks of a single trial call.
* A `stream_callback` runs only while the caller iterates (`engine.py:238`;
  `docs/streaming.md:23`).
* Parts of a streamed tool call that carry no id are dropped (`client.py:1080`;
  `models.py:569` and `docs/tools.md:65` promise them): the model drops them too,
  and its history `arguments` counts what was sent.
* `DISABLE_CHAT` leaves chat on for a provider whose default model it would
  disable: the result is invalid and all overrides are dropped (`env.py:269`;
  `docs/configuration.md:303`).
* A later client's `config_path` is ignored once a file is loaded
  (`loader.py:290`; `client.py:132`).
* A success of a call that began before the circuit opened closes it at once
  (`circuit_breaker.py:253`), although an open circuit is said to reject until
  `reset_timeout` (line 13).
* Overlapping requests exceed the cache's "maximum number of cached entries"
  (`cache.py:31` and 77).
* `[DONE]` and the closing chunk bypass the callback and carry no
  `finish_reason` (`client.py:1035`, 1132); an answer that just ends with neither
  gives no final chunk after content without a schema.
* A read timeout while streaming surfaces as `UAINetworkError` (`client.py:1133`).
* A per-call model of another provider is forwarded, though
  `docs/configuration.md:58` says it is rejected outright.
* A provider that only a file defines has no adapter: every request to it raises
  (`client.py:440`).
* A file key with capitals stays the key in the client's configurations, where
  lower-cased names do not find it; an inferred provider keeps the capitals.
* `apply_to_registry` says that the client calls it (`loader.py:320`); it does not.
* A wait may be shorter than `Retry-After`, by the jitter and by `max_delay`
  (`retry.py`; `docs/middleware.md:97`), and a 5xx other than 500, 502, 503 and 504
  is not retried (`docs/middleware.md:77`).
* `uai_retries_total` counts only for requests that succeed in the end
  (`docs/telemetry.md:24`); the recorder of "finished operation spans"
  (`tracing.py:86`) holds spans that never finish, with the status "ok".
* The mock server calls itself thread-safe (`mock_server.py:28`,
  `docs/performance.md:74`): handlers that collide lose counts, send a failure
  twice, or die of an empty list.
* A brace in the prose before an object defeats `extract_json_object`, though
  leading prose is tolerated (`docs/structured_output.md:21`); prose before an
  array of objects yields its first object.
* `chat(tool_choice="auto")` (`docs/chat.md:53`) raises `AttributeError` in the
  adapter when tools are given (`deepseek.py:88`), since `chat()` assigns the
  string unvalidated (`client.py:622`).
* A missing API key or a body that cannot be written is recorded as a failure by
  the breaker (`circuit_breaker.py:162`), which so opens a circuit for a provider
  that was never called, although it is to detect
  "sustained failures for a provider/model pair" (line 4).
* `use()` of a tuple, which the engine accepts (`engine.py:93`), leaves the
  `max_retries` shorthand in place beside a `RetryMiddleware` in it: the client
  looks into lists only (`client.py:377`).
* A stream that a middleware before the tracing halts with an iterable that raises
  is an error in the metrics without any span (`engine.py:253`, `tracing.py:297`).
* `docs/vision.md:11` lists MiniMax-M3 as a vision model; the registry does not.
* The base class's streaming loop raises `UAINetworkError` for a finish reason it
  does not know, loses usage that comes after the finish, and its `[DONE]` chunk
  has no finish reason.
* The client drops `reasoning_tokens` (`client.py:1190`; `models.py:132` promises
  them and DeepSeek's adapter reads them) and gives the resolved id for the
  response's model (`client.py:1205`), where an adapter gives the answer's.
* The client's parser and the adapters' differ on answers that deviate from the
  schema: an unknown finish reason (STOP or OTHER), a null message or usage
  (`AttributeError` or none), other names for token counts. A 5xx is a
  `UAIError` from DeepSeek's `translate_error` and a `UAINetworkError` from others.
* A middleware's redirected chat is checked again for `chat` or `streaming` only,
  not for vision or tools (`client.py:872`).

## 6. Not modelled, and what is left

Not modelled: the logging middleware (it writes lines and keeps no state), the
benchmark runner and the CLI (a pool around client calls, statistics, argument
parsing), the data models and exceptions (declarations). Left out of modelled
parts, besides what section 2 names: several clients that share one cache (its
key holds no default provider, a hazard on the list), two threads that create
the same adapter (the later one replaces an equal one), `retry_on_parsing_error`,
registration without override, the values of timeouts.

Worth doing next: `Recovers` under fewer assumptions on the environment, and the
abstract promise of the cache as a specification of its own.
