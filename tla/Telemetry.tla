------------------------------ MODULE Telemetry ------------------------------
(***************************************************************************)
(* One MetricsMiddleware and one TracingMiddleware (middleware/metrics.py, *)
(* middleware/tracing.py), with the MetricsRegistry and the SpanRecorder   *)
(* behind them, shared by the threads that send requests and by an         *)
(* application that clears the registry.                                   *)
(*                                                                         *)
(* `x += v` on an element of a dictionary or a list is a read and a write: *)
(* no lock guards the registry.  A histogram is a tuple of a sum, a count  *)
(* and a reference to a list of buckets, so that two observations may hold *)
(* the same list; `lists` is the heap of those lists, by the request whose *)
(* observation made them.  Provider and model are fixed; a series is       *)
(* labelled by the operation where the code labels it so.                  *)
(***************************************************************************)
EXTENDS Integers, Sequences, FiniteSets

CONSTANTS
    Threads,        \* threads that send requests
    Operations,     \* context.operation
    Durations,      \* what a clock may measure, in ticks
    Bounds,         \* the bounds of the buckets
    Answers,        \* contexts and responses that after_response may see
    MaxRequests,    \* bound: requests sent
    ClearBy         \* bound: clear() is called once, with at most so many sent

ASSUME TelemetryAssumption ==
    /\ Durations \subseteq Nat \ {0}
    /\ Bounds \in Seq(Nat)
    /\ Answers \subseteq [cache_hit : BOOLEAN, attempt : Nat, input : Nat, output : Nat]
    /\ MaxRequests \in Nat
    /\ ClearBy \in Nat

VARIABLES
    counters,   \* _counters; 0 where it has no key
    histograms, \* _histograms; or NoHistogram
    lists,      \* the bucket lists that tuples refer to
    recorder,   \* SpanRecorder._spans: how many there are of each status
    span,       \* context.span, by its status; "none" where there is none
    otel_span,  \* context.otel_span, by its status; "none" where there is none
    sent,       \* requests sent so far
    unseen,     \* history: requests that got no span
    pc,         \* what each thread does next
    request,    \* the thread's request: its number
    operation,  \* context.operation of the thread
    todo,       \* updates of the registry the thread's hook has yet to make
    step,       \* where the thread is in the first of them
    read,       \* what the thread read of a counter, or of a bucket
    total, count, buckets,  \* locals of observe()
    at,         \* observe(): the next bucket
    clear,      \* clear(): not called, half done (the counters are gone), or done
    ideal,      \* history: the registry, had every hook been one step
    raced,      \* history: series of which two updates overlapped
    torn        \* history: a clear() met a hook at work

registry == <<counters, histograms, lists>>
tracing == <<recorder, span, otel_span>>
locals == <<read, total, count, buckets, at>>
history == <<unseen, ideal, raced, torn>>
vars == <<registry, tracing, sent, pc, request, operation, todo, step, locals, clear, history>>

\* A list of buckets is named by the request that made it, 0 if made earlier.
Lists == 0..MaxRequests
Statuses == {"success", "error"}

Counters ==
    ({"uai_requests_total"} \X Operations \X Statuses)
    \cup ({"uai_provider_requests_total"} \X Statuses)
    \cup ({"uai_errors_total", "uai_cache_hits_total", "uai_retries_total",
           "uai_tokens_input_total", "uai_tokens_output_total"} \X Operations)

\* Only chats are streamed.
TimeToFirstToken == <<"uai_ttft_seconds", "chat">>

Histograms == {TimeToFirstToken} \cup ({"uai_request_duration_seconds"} \X Operations)

Series == Counters \cup Histograms

Buckets == DOMAIN Bounds
NoHistogram == [sum |-> 0, count |-> 0, list |-> 0]
NoCounters == [s \in Counters |-> 0]
NoHistograms == [s \in Histograms |-> NoHistogram]
NewList == [i \in Buckets |-> 0]

TypeOK ==
    /\ counters \in [Counters -> Nat]
    /\ histograms \in [Histograms -> [sum : Nat, count : Nat, list : Lists]]
    /\ lists \in [Histograms -> [Lists -> [Buckets -> Nat]]]
    /\ recorder \in [open : Nat, ok : Nat, error : Nat]
    /\ span \in [Threads -> {"none", "open", "ok", "error"}]
    /\ otel_span \in [Threads -> {"none", "open", "ok", "error"}]
    /\ sent \in 0..MaxRequests
    /\ unseen \in 0..sent
    /\ pc \in [Threads -> {"idle", "running", "chunk", "streaming", "finished", "exported", "hook"}]
    /\ request \in [Threads -> 0..MaxRequests]
    /\ operation \in [Threads -> Operations]
    /\ todo \in [Threads -> Seq([series : Series, value : Nat])]
    /\ step \in [Threads -> {"begin", "write", "bucket", "bucket write"}]
    /\ read \in [Threads -> Nat]
    /\ total \in [Threads -> Nat]
    /\ count \in [Threads -> Nat]
    /\ buckets \in [Threads -> Lists]
    /\ at \in [Threads -> 1..(Len(Bounds) + 1)]
    /\ clear \in {"not called", "half done", "done"}
    /\ raced \subseteq Series
    /\ torn \in BOOLEAN

NoMetrics ==
    [counters |-> NoCounters,
     histograms |-> [s \in Histograms |-> [sum |-> 0, count |-> 0, buckets |-> NewList]]]

-----------------------------------------------------------------------------
(* What the hooks do to the registry.                                      *)

Update(series, value) == [series |-> series, value |-> value]

UpdateIf(amount, series) == IF amount > 0 THEN <<Update(series, amount)>> ELSE <<>>

CountedCall(op, status) ==
    <<Update(<<"uai_requests_total", op, status>>, 1),
      Update(<<"uai_provider_requests_total", status>>, 1)>>

Served(op, answer, duration, retries) ==
    CountedCall(op, "success")
    \o <<Update(<<"uai_request_duration_seconds", op>>, duration)>>
    \o UpdateIf(IF answer.cache_hit THEN 1 ELSE 0, <<"uai_cache_hits_total", op>>)
    \o UpdateIf(retries, <<"uai_retries_total", op>>)
    \o UpdateIf(answer.input, <<"uai_tokens_input_total", op>>)
    \o UpdateIf(answer.output, <<"uai_tokens_output_total", op>>)

AfterResponse_OneRetry(op, answer, duration) ==
    Served(op, answer, duration, IF answer.attempt > 0 THEN 1 ELSE 0)

\* MetricsMiddleware.after_response
AfterResponse(op, answer, duration) == Served(op, answer, duration, answer.attempt)

OnError_Uncounted(op) == <<Update(<<"uai_errors_total", op>>, 1)>>

\* MetricsMiddleware.on_error
OnError(op) == CountedCall(op, "error") \o <<Update(<<"uai_errors_total", op>>, 1)>>

\* What a counter is worth once the hook is done.
Worth(s, op, status, answer) ==
    CASE s = <<"uai_requests_total", op, status>> -> 1
      [] s = <<"uai_provider_requests_total", status>> -> 1
      [] s = <<"uai_errors_total", op>> /\ status = "error" -> 1
      [] s = <<"uai_cache_hits_total", op>> /\ status = "success" /\ answer.cache_hit -> 1
      [] s = <<"uai_retries_total", op>> /\ status = "success" -> answer.attempt
      [] s = <<"uai_tokens_input_total", op>> /\ status = "success" -> answer.input
      [] s = <<"uai_tokens_output_total", op>> /\ status = "success" -> answer.output
      [] OTHER -> 0

Observed(h, value) ==
    [sum |-> h.sum + value, count |-> h.count + 1,
     buckets |-> [i \in Buckets |-> h.buckets[i] + (IF value <= Bounds[i] THEN 1 ELSE 0)]]

Counted(op, status, answer) ==
    [s \in Counters |-> ideal.counters[s] + Worth(s, op, status, answer)]

(* At first the registry is empty, or holds one request made earlier.      *)

OneEarlier(op, answer, duration) ==
    [counters |-> [s \in Counters |-> Worth(s, op, "success", answer)],
     histograms |-> [NoMetrics.histograms EXCEPT
        ![<<"uai_request_duration_seconds", op>>] = Observed(@, duration)]]

InitRegistry ==
    /\ \/ ideal = NoMetrics /\ recorder = [open |-> 0, ok |-> 0, error |-> 0]
       \/ /\ \E op \in Operations, answer \in Answers, duration \in Durations :
               ideal = OneEarlier(op, answer, duration)
          /\ recorder = [open |-> 0, ok |-> 1, error |-> 0]
    /\ counters = ideal.counters
    /\ histograms = [s \in Histograms |->
        [sum |-> ideal.histograms[s].sum, count |-> ideal.histograms[s].count, list |-> 0]]
    /\ lists = [s \in Histograms |->
        [r \in Lists |-> IF r = 0 THEN ideal.histograms[s].buckets ELSE NewList]]

Init ==
    /\ InitRegistry
    /\ span = [t \in Threads |-> "none"]
    /\ otel_span = [t \in Threads |-> "none"]
    /\ sent = 0 /\ unseen = 0
    /\ pc = [t \in Threads |-> "idle"]
    /\ request = [t \in Threads |-> 0]
    /\ operation \in {[t \in Threads |-> op] : op \in Operations}
    /\ todo = [t \in Threads |-> <<>>]
    /\ step = [t \in Threads |-> "begin"]
    /\ read = [t \in Threads |-> 0]
    /\ total = [t \in Threads |-> 0]
    /\ count = [t \in Threads |-> 0]
    /\ buckets = [t \in Threads |-> 0]
    /\ at = [t \in Threads |-> 1]
    /\ clear = "not called"
    /\ raced = {} /\ torn = FALSE

-----------------------------------------------------------------------------
(* How a thread moves.                                                     *)

Goto(t, from, to) == pc[t] = from /\ pc' = [pc EXCEPT ![t] = to]

Recording(t) == pc[t] \in {"chunk", "hook"} /\ todo[t] # <<>>

Current(t) == Head(todo[t]).series

\* The hook begins another update, or is over.
EndUpdate(t) ==
    /\ todo' = [todo EXCEPT ![t] = Tail(@)]
    /\ step' = [step EXCEPT ![t] = "begin"]

At(t, from, to) ==
    /\ Recording(t) /\ step[t] = from
    /\ step' = [step EXCEPT ![t] = to]
    /\ UNCHANGED todo

Aside == UNCHANGED <<tracing, sent, unseen, pc, request, operation, clear, ideal, torn>>

Begins(t) ==
    raced' = IF \E u \in Threads \ {t} :
                  Recording(u) /\ step[u] # "begin" /\ Current(u) = Current(t)
             THEN raced \cup {Current(t)} ELSE raced

-----------------------------------------------------------------------------
(* increment()                                                             *)

IncrementRead(t) ==
    /\ At(t, "begin", "write")
    /\ Current(t) \in Counters
    /\ read' = [read EXCEPT ![t] = counters[Current(t)]]
    /\ Begins(t)
    /\ UNCHANGED <<registry, total, count, buckets, at>> /\ Aside

IncrementWrite(t) ==
    /\ Recording(t) /\ step[t] = "write"
    /\ counters' = [counters EXCEPT ![Current(t)] = read[t] + Head(todo[t]).value]
    /\ EndUpdate(t)
    /\ read' = [read EXCEPT ![t] = 0]
    /\ UNCHANGED <<histograms, lists, total, count, buckets, at, raced>> /\ Aside

-----------------------------------------------------------------------------
(* observe()                                                               *)

Observes(t, new) ==
    LET h == histograms[Current(t)] IN
    /\ At(t, "begin", "bucket")
    /\ Current(t) \in Histograms
    /\ total' = [total EXCEPT ![t] = h.sum + Head(todo[t]).value]
    /\ count' = [count EXCEPT ![t] = h.count + 1]
    /\ buckets' = [buckets EXCEPT ![t] = IF h = NoHistogram THEN new ELSE h.list]
    /\ at' = [at EXCEPT ![t] = 1]
    /\ Begins(t)
    /\ UNCHANGED <<registry, read>> /\ Aside

\* One list serves as the default of every call.
ObserveGet_SharedDefault(t) == Observes(t, 0)

\* _histograms.get(): the tuple, or a new one with a list of its own.
ObserveGet(t) == Observes(t, request[t])

\* The buckets from at[t] on that the value belongs to.
Belongs(t) == {i \in at[t]..Len(Bounds) : Head(todo[t]).value <= Bounds[i]}

\* The loop comes to the first of them.
BucketRead(t) ==
    /\ At(t, "bucket", "bucket write")
    /\ \E i \in Belongs(t) :
         /\ \A j \in Belongs(t) : i <= j
         /\ at' = [at EXCEPT ![t] = i]
         /\ read' = [read EXCEPT ![t] = lists[Current(t)][buckets[t]][i]]
    /\ UNCHANGED <<registry, total, count, buckets, raced>> /\ Aside

BucketWrite(t) ==
    /\ At(t, "bucket write", "bucket")
    /\ lists' = [lists EXCEPT ![Current(t)][buckets[t]][at[t]] = read[t] + 1]
    /\ read' = [read EXCEPT ![t] = 0]
    /\ at' = [at EXCEPT ![t] = @ + 1]
    /\ UNCHANGED <<counters, histograms, total, count, buckets, raced>> /\ Aside

StoreThen(t, h) ==
    /\ Recording(t) /\ step[t] = "bucket" /\ Belongs(t) = {}
    /\ histograms' = [histograms EXCEPT ![Current(t)] = h]
    /\ EndUpdate(t)
    /\ total' = [total EXCEPT ![t] = 0]
    /\ count' = [count EXCEPT ![t] = 0]
    /\ buckets' = [buckets EXCEPT ![t] = 0]
    /\ at' = [at EXCEPT ![t] = 1]
    /\ UNCHANGED <<counters, lists, read, raced>> /\ Aside

ObserveStore_CountAgain(t) ==
    StoreThen(t, [sum |-> total[t], count |-> histograms[Current(t)].count + 1,
                  list |-> buckets[t]])

ObserveStore(t) == StoreThen(t, [sum |-> total[t], count |-> count[t], list |-> buckets[t]])

\* The hook, or the observation of a chunk, is over.
Return(t) ==
    /\ todo[t] = <<>>
    /\ \/ Goto(t, "chunk", "streaming") /\ UNCHANGED request
       \/ Goto(t, "hook", "idle") /\ request' = [request EXCEPT ![t] = 0]
    /\ UNCHANGED <<registry, tracing, sent, operation, todo, step, locals, clear, history>>

-----------------------------------------------------------------------------
(* A request, on its way through the pipeline.                             *)

Rest == UNCHANGED <<registry, step, locals, clear, raced, torn>>

Send(t, op, to) ==
    /\ sent < MaxRequests
    /\ sent' = sent + 1
    /\ Goto(t, "idle", to)
    /\ request' = [request EXCEPT ![t] = sent + 1]
    /\ operation' = [operation EXCEPT ![t] = op]
    /\ UNCHANGED <<todo, ideal>> /\ Rest

\* TracingMiddleware.before_request: a span is recorded before the request
\* runs.  A tracer that raises is no obstacle (_start_otel_span).
BeforeRequest(t) ==
    \E op \in Operations, tracer \in {"open", "none"} :
        /\ Send(t, op, "running")
        /\ recorder' = [recorder EXCEPT !["open"] = @ + 1]
        /\ span' = [span EXCEPT ![t] = "open"]
        /\ otel_span' = [otel_span EXCEPT ![t] = tracer]
        /\ UNCHANGED unseen

\* A middleware registered before the tracing halts the request: it gets no
\* span, and its response still goes through every after_response hook.
HaltEarly(t) ==
    /\ \E op \in Operations : Send(t, op, "running")
    /\ unseen' = unseen + 1
    /\ UNCHANGED tracing

\* _execute_stream: the first chunk with content carries ttft_ms.
FirstChunk(t) ==
    \E duration \in Durations :
        /\ Goto(t, "running", "chunk")
        /\ operation[t] = "chat" /\ span[t] = "open"
        /\ todo' = [todo EXCEPT ![t] = <<Update(TimeToFirstToken, duration)>>]
        /\ ideal' = [ideal EXCEPT !.histograms[TimeToFirstToken] = Observed(@, duration)]
        /\ UNCHANGED <<tracing, sent, unseen, request, operation>> /\ Rest

\* Nothing of the request looks at its spans any more.
ForgetSpan(t) ==
    /\ span' = [span EXCEPT ![t] = "none"]
    /\ otel_span' = [otel_span EXCEPT ![t] = "none"]
    /\ UNCHANGED recorder

\* The request is lost before a hook can run: opening the stream fails, its
\* caller never iterates over it, or KeyboardInterrupt ends the call.
Lose(t) ==
    /\ Goto(t, "running", "idle")
    /\ request' = [request EXCEPT ![t] = 0]
    /\ ForgetSpan(t)
    /\ UNCHANGED <<sent, unseen, operation, todo, ideal>> /\ Rest

\* A request without a span fails if it is the stream of an early halt and the
\* iterable that it was halted with raises: only chats are streamed.
MayFail(t) == span[t] = "none" => operation[t] = "chat"

Finishes(t, status, finished, exported) ==
    /\ pc[t] \in {"running", "streaming"}
    /\ pc' = [pc EXCEPT ![t] = "finished"]
    /\ status = "error" => MayFail(t)
    /\ span' = [span EXCEPT ![t] = IF finished THEN status ELSE @]
    /\ recorder' = IF finished THEN [recorder EXCEPT !.open = @ - 1, ![status] = @ + 1]
                   ELSE recorder
    /\ otel_span' = [otel_span EXCEPT ![t] = IF exported THEN "ok" ELSE @]
    /\ UNCHANGED <<sent, unseen, request, operation, todo, ideal>> /\ Rest

\* The check for a span is missing.
FinishSpan_Unchecked(t, status) == Finishes(t, status, TRUE, FALSE)

\* The export runs before Span.finish(): it sees the status a Span begins with.
FinishSpan_ExportFirst(t, status) == Finishes(t, status, span[t] = "open", otel_span[t] = "open")

\* TracingMiddleware.after_response and on_error: Span.finish(), if there is
\* one; if there is none, neither does anything.  These hooks run before those
\* of the metrics, registered earlier.
FinishSpan(t, status) == Finishes(t, status, span[t] = "open", FALSE)

\* _finish_otel_span: an exception of the tracer leaves the span without end().
FinishOtelSpan(t) ==
    /\ Goto(t, "finished", "exported")
    /\ \E status \in IF otel_span[t] = "open" THEN {span[t], "open"} ELSE {otel_span[t]} :
         otel_span' = [otel_span EXCEPT ![t] = status]
    /\ UNCHANGED <<recorder, span, sent, unseen, request, operation, todo, ideal>> /\ Rest

\* The metrics' after_response or on_error begins: the same of the two that the
\* tracing has seen, of which nothing is known without a span.
BeginHook(t) ==
    /\ Goto(t, "exported", "hook")
    /\ \/ /\ span[t] # "error"
          /\ \E answer \in Answers, duration \in Durations :
               /\ todo' = [todo EXCEPT ![t] = AfterResponse(operation[t], answer, duration)]
               /\ ideal' = [counters |-> Counted(operation[t], "success", answer),
                            histograms |-> [ideal.histograms EXCEPT
                                ![<<"uai_request_duration_seconds", operation[t]>>] =
                                    Observed(@, duration)]]
       \/ /\ span[t] \in {"none", "error"} /\ MayFail(t)
          /\ todo' = [todo EXCEPT ![t] = OnError(operation[t])]
          /\ \E answer \in Answers :
               ideal' = [ideal EXCEPT !.counters = Counted(operation[t], "error", answer)]
    /\ ForgetSpan(t)
    /\ UNCHANGED <<sent, unseen, request, operation>> /\ Rest

-----------------------------------------------------------------------------
(* The application clears the registry.                                    *)

AtWork == \E t \in Threads : Recording(t)

Clear(from, to) ==
    /\ clear = from /\ clear' = to
    /\ torn' = (torn \/ AtWork)
    /\ UNCHANGED <<lists, tracing, sent, unseen, pc, request, operation, todo, step, locals, raced>>

\* MetricsRegistry.clear() drops the counters, then the histograms.
ClearCounters ==
    /\ sent <= ClearBy
    /\ Clear("not called", "half done")
    /\ counters' = NoCounters
    /\ ideal' = [ideal EXCEPT !.counters = NoCounters]
    /\ UNCHANGED histograms

ClearHistograms ==
    /\ Clear("half done", "done")
    /\ histograms' = NoHistograms
    /\ ideal' = [ideal EXCEPT !.histograms = NoMetrics.histograms]
    /\ UNCHANGED counters

InHook(t) ==
    \/ IncrementRead(t) \/ IncrementWrite(t)
    \/ ObserveGet(t) \/ BucketRead(t) \/ BucketWrite(t) \/ ObserveStore(t)
    \/ Return(t)

OnTheWay(t) ==
    \/ FirstChunk(t) \/ Lose(t)
    \/ FinishSpan(t, "ok") \/ FinishSpan(t, "error")
    \/ FinishOtelSpan(t) \/ BeginHook(t)
    \/ InHook(t)

\* The bound on requests is reached.
Stop == sent = MaxRequests /\ (\A t \in Threads : pc[t] = "idle") /\ UNCHANGED vars

Next ==
    \/ \E t \in Threads : BeforeRequest(t) \/ HaltEarly(t) \/ OnTheWay(t)
    \/ ClearCounters \/ ClearHistograms
    \/ Stop

Spec == Init /\ [][Next]_vars

-----------------------------------------------------------------------------
(* Properties.                                                             *)

Settled == (\A t \in Threads : pc[t] = "idle") /\ clear # "half done" /\ ~torn

Shown(s) ==
    [sum |-> histograms[s].sum, count |-> histograms[s].count,
     buckets |-> IF histograms[s] = NoHistogram THEN NewList ELSE lists[s][histograms[s].list]]

(***************************************************************************)
(* Without a lock, updates of a series that overlap only lose: whatever the*)
(* interleaving, the registry never shows a request, a token or an         *)
(* observation that was not made (`+=` in increment() and observe()).  And *)
(* once every hook has returned, a series of which no two updates          *)
(* overlapped shows each request once, with its latency in the right       *)
(* buckets, its tokens and its retries, as if every hook had been one step:*)
(* that requests overlap elsewhere, and that an observation shares its     *)
(* bucket list with the next, changes nothing.                             *)
(***************************************************************************)
CountsHonestly ==
    /\ ~torn /\ clear # "half done" =>
         /\ \A s \in Counters : counters[s] <= ideal.counters[s]
         /\ \A s \in Histograms :
              LET shown == Shown(s)
                  due == ideal.histograms[s] IN
              /\ shown.sum <= due.sum /\ shown.count <= due.count
              /\ \A i \in Buckets : shown.buckets[i] <= due.buckets[i]
    /\ Settled =>
         /\ \A s \in Counters \ raced : counters[s] = ideal.counters[s]
         /\ \A s \in Histograms \ raced : Shown(s) = ideal.histograms[s]

(***************************************************************************)
(* The mean latency a histogram shows lies between the least and the       *)
(* greatest latency there can be, also when updates overlap and when       *)
(* clear() comes between them: sum and count change together, in the one   *)
(* tuple that observe() stores.                                            *)
(***************************************************************************)
Between(sum, n) ==
    \A lo, hi \in Durations :
        (\A d \in Durations : lo <= d /\ d <= hi) => lo * n <= sum /\ sum <= hi * n

NoTornAverage == \A s \in Histograms : Between(histograms[s].sum, histograms[s].count)

ProviderRequests(status) == counters[<<"uai_provider_requests_total", status>>]

(***************************************************************************)
(* Metrics, recorded spans and exported spans tell one story.  Once every  *)
(* request is over and nothing was cleared, each span that ended in error  *)
(* was counted as an error and each that ended well as a success; what was *)
(* counted beyond the spans are requests that were halted before the       *)
(* tracing saw them, each once, as one or the other; and a span left open  *)
(* belongs to a request that no hook counted.  An OpenTelemetry span that  *)
(* was ended carries the status of the recorded one.                       *)
(***************************************************************************)
ViewsAgree ==
    LET exact(status) == <<"uai_provider_requests_total", status>> \notin raced
        spanned == recorder.error + recorder.ok
    IN
    /\ Settled /\ clear = "not called" =>
         /\ exact("error") => ProviderRequests("error") \in recorder.error..(recorder.error + unseen)
         /\ exact("success") => ProviderRequests("success") \in recorder.ok..(recorder.ok + unseen)
         /\ exact("error") /\ exact("success") =>
              ProviderRequests("error") + ProviderRequests("success") \in spanned..(spanned + unseen)
    /\ \A t \in Threads : otel_span[t] \in {"ok", "error"} => span[t] = otel_span[t]
=============================================================================
