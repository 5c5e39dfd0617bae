--------------------------- MODULE TelemetryProofs ---------------------------
(***************************************************************************)
(* For any number of threads and requests, any buckets, durations and      *)
(* answers: no interleaving of observe() and clear() tears a mean latency  *)
(* (AveragesWhole), what is stored has its types (TelemetryTypes), metrics *)
(* and spans tell one story (ViewsTellOneStory), and the registry shows    *)
(* nothing that was not made and loses nothing without a race              *)
(* (HonestCounts).  The books of a series weigh what is stored, and what   *)
(* threads hold of it, and what they have yet to add, against an ideal     *)
(* registry.                                                               *)
(***************************************************************************)
EXTENDS Telemetry, FiniteSetTheorems, SequenceTheorems, TLAPS

\* Updates as the hooks make them: what goes to a histogram is a duration.
Measured ==
    {u \in [series : Series, value : Nat] : u.series \in Histograms => u.value \in Durations}

Types ==
    /\ histograms \in [Histograms -> [sum : Nat, count : Nat, list : Lists]]
    /\ sent \in 0..MaxRequests
    /\ request \in [Threads -> 0..MaxRequests]
    /\ operation \in [Threads -> Operations]
    /\ todo \in [Threads -> Seq(Measured)]
    /\ total \in [Threads -> Nat]
    /\ count \in [Threads -> Nat]
    /\ buckets \in [Threads -> Lists]

\* What a thread has read of a histogram, and added to, is no more torn than
\* what is stored, although by now another thread may have stored over it.
HeldBetween == \A t \in Threads : Between(total[t], count[t])

IInv == Types /\ NoTornAverage /\ HeldBetween

-----------------------------------------------------------------------------
(* Sums and counts.                                                        *)

\* Nothing observed.
LEMMA BetweenZero == Between(0, 0)
  BY TelemetryAssumption, SMT DEF Between

\* One more observation.
LEMMA BetweenAdd ==
  ASSUME NEW sum \in Nat, NEW n \in Nat, NEW d \in Durations, Between(sum, n)
  PROVE  Between(sum + d, n + 1)
<1> SUFFICES ASSUME NEW lo \in Durations, NEW hi \in Durations,
                    \A e \in Durations : lo <= e /\ e <= hi
             PROVE  lo * (n + 1) <= sum + d /\ sum + d <= hi * (n + 1)
  BY DEF Between
<1>1. lo \in Nat /\ hi \in Nat /\ d \in Nat
  BY TelemetryAssumption
<1>2. lo * n <= sum /\ sum <= hi * n
  BY DEF Between
<1>3. lo * (n + 1) = lo * n + lo /\ hi * (n + 1) = hi * n + hi
  BY <1>1
<1>4. lo * n \in Nat /\ hi * n \in Nat
  BY <1>1
<1> QED
  BY <1>1, <1>2, <1>3, <1>4

-----------------------------------------------------------------------------
(* What the hooks have to do is measured.                                  *)

LEMMA CountersApart == Counters \cap Histograms = {}
  BY DEF Counters, Histograms, TimeToFirstToken

LEMMA MeasuredCounter ==
  ASSUME NEW s \in Counters, NEW n \in Nat
  PROVE  Update(s, n) \in Measured
  BY CountersApart DEF Update, Measured, Series

LEMMA MeasuredDuration ==
  ASSUME NEW s \in Histograms, NEW d \in Durations
  PROVE  Update(s, d) \in Measured
  BY TelemetryAssumption DEF Update, Measured, Series

LEMMA CountedCallMeasured ==
  ASSUME NEW op \in Operations, NEW status \in Statuses
  PROVE  CountedCall(op, status) \in Seq(Measured)
<1>1. <<"uai_requests_total", op, status>> \in Counters
  BY DEF Counters
<1>2. <<"uai_provider_requests_total", status>> \in Counters
  BY DEF Counters
<1> QED
  BY <1>1, <1>2, MeasuredCounter DEF CountedCall

LEMMA AfterResponseMeasured ==
  ASSUME NEW op \in Operations, NEW answer \in Answers, NEW d \in Durations
  PROVE  AfterResponse(op, answer, d) \in Seq(Measured)
<1>1. \A s \in Counters, n \in Nat : UpdateIf(n, s) \in Seq(Measured)
  BY MeasuredCounter DEF UpdateIf
<1>2. /\ <<"uai_cache_hits_total", op>> \in Counters
      /\ <<"uai_retries_total", op>> \in Counters
      /\ <<"uai_tokens_input_total", op>> \in Counters
      /\ <<"uai_tokens_output_total", op>> \in Counters
  BY DEF Counters
<1>3. /\ answer.attempt \in Nat
      /\ answer.input \in Nat
      /\ answer.output \in Nat
  BY TelemetryAssumption
<1>4. (IF answer.cache_hit THEN 1 ELSE 0) \in Nat
  OBVIOUS
<1>5. <<"uai_request_duration_seconds", op>> \in Histograms
  BY DEF Histograms
<1>6. <<Update(<<"uai_request_duration_seconds", op>>, d)>> \in Seq(Measured)
  BY <1>5, MeasuredDuration
<1>7. CountedCall(op, "success") \in Seq(Measured)
  BY CountedCallMeasured DEF Statuses
<1> DEFINE hits == UpdateIf(IF answer.cache_hit THEN 1 ELSE 0, <<"uai_cache_hits_total", op>>)
           retries == UpdateIf(answer.attempt, <<"uai_retries_total", op>>)
           input == UpdateIf(answer.input, <<"uai_tokens_input_total", op>>)
           output == UpdateIf(answer.output, <<"uai_tokens_output_total", op>>)
           latency == <<Update(<<"uai_request_duration_seconds", op>>, d)>>
           counted == CountedCall(op, "success")
<1>8. /\ hits \in Seq(Measured) /\ retries \in Seq(Measured)
      /\ input \in Seq(Measured) /\ output \in Seq(Measured)
  BY <1>1, <1>2, <1>3, <1>4
<1>9. latency \in Seq(Measured) /\ counted \in Seq(Measured)
  BY <1>6, <1>7
<1>10. AfterResponse(op, answer, d) = counted \o latency \o hits \o retries \o input \o output
  BY DEF AfterResponse, Served
<1> HIDE DEF hits, retries, input, output, latency, counted
<1> QED
  BY <1>8, <1>9, <1>10

LEMMA OnErrorMeasured ==
  ASSUME NEW op \in Operations
  PROVE  OnError(op) \in Seq(Measured)
<1>1. <<"uai_errors_total", op>> \in Counters
  BY DEF Counters
<1>2. <<Update(<<"uai_errors_total", op>>, 1)>> \in Seq(Measured)
  BY <1>1, MeasuredCounter
<1>3. CountedCall(op, "error") \in Seq(Measured)
  BY CountedCallMeasured DEF Statuses
<1> QED
  BY <1>2, <1>3 DEF OnError

-----------------------------------------------------------------------------
(* The invariant.                                                          *)

LEMMA IInvInit == Init => IInv
<1> SUFFICES ASSUME Init PROVE IInv
  OBVIOUS
<1>1. MaxRequests \in Nat /\ 0 \in Lists
  BY TelemetryAssumption DEF Lists
<1>2. \A s \in Histograms : /\ ideal.histograms[s].sum \in Nat
                            /\ ideal.histograms[s].count \in Nat
                            /\ Between(ideal.histograms[s].sum, ideal.histograms[s].count)
  <2>1. CASE ideal = NoMetrics
    BY <2>1, BetweenZero DEF NoMetrics
  <2>2. CASE \E op \in Operations, answer \in Answers, duration \in Durations :
               ideal = OneEarlier(op, answer, duration)
    <3>1. PICK op \in Operations, answer \in Answers, duration \in Durations :
                 ideal = OneEarlier(op, answer, duration)
      BY <2>2
    <3>2. duration \in Nat /\ Between(0 + duration, 0 + 1)
      BY BetweenZero, BetweenAdd, TelemetryAssumption
    <3> QED
      BY <3>1, <3>2, BetweenZero DEF OneEarlier, NoMetrics, Observed
  <2> QED
    BY <2>1, <2>2 DEF Init, InitRegistry
<1>3. histograms = [s \in Histograms |->
        [sum |-> ideal.histograms[s].sum, count |-> ideal.histograms[s].count, list |-> 0]]
  BY DEF Init, InitRegistry
<1>4. Types
  <2>1. histograms \in [Histograms -> [sum : Nat, count : Nat, list : Lists]]
    BY <1>1, <1>2, <1>3
  <2>2. sent \in 0..MaxRequests
    <3>1. sent = 0
      BY DEF Init
    <3> QED
      BY <1>1, <3>1
  <2>3. /\ request = [t \in Threads |-> 0]
        /\ total = [t \in Threads |-> 0]
        /\ count = [t \in Threads |-> 0]
        /\ buckets = [t \in Threads |-> 0]
        /\ todo = [t \in Threads |-> <<>>]
        /\ operation \in [Threads -> Operations]
    BY DEF Init
  <2>4. <<>> \in Seq(Measured)
    OBVIOUS
  <2>5. todo \in [Threads -> Seq(Measured)]
    BY <2>3, <2>4
  <2> QED
    BY <1>1, <2>1, <2>2, <2>3, <2>5 DEF Types
<1>5. NoTornAverage
  BY <1>2, <1>3 DEF NoTornAverage
<1>6. HeldBetween
  BY BetweenZero DEF Init, HeldBetween
<1> QED
  BY <1>4, <1>5, <1>6 DEF IInv

\* What the first of a thread's updates is.
LEMMA HeadMeasured ==
  ASSUME Types, NEW t \in Threads, todo[t] # <<>>
  PROVE  /\ Head(todo[t]).value \in Nat
         /\ Current(t) \in Histograms => Head(todo[t]).value \in Durations
         /\ [todo EXCEPT ![t] = Tail(@)] \in [Threads -> Seq(Measured)]
<1>1. todo[t] \in Seq(Measured) /\ todo \in [Threads -> Seq(Measured)]
  BY DEF Types
<1>2. Head(todo[t]) \in Measured /\ Tail(todo[t]) \in Seq(Measured)
  BY <1>1
<1> QED
  BY <1>1, <1>2 DEF Current, Measured

LEMMA ObserveGetStep ==
  ASSUME IInv, NEW t \in Threads, ObserveGet(t)
  PROVE  IInv'
<1> USE DEF IInv
<1> DEFINE h == histograms[Current(t)]
           value == Head(todo[t]).value
<1>1. todo[t] # <<>> /\ Current(t) \in Histograms
  BY DEF ObserveGet, Observes, At, Recording
<1>2. value \in Durations
  BY <1>1, HeadMeasured
<1>3. h.sum \in Nat /\ h.count \in Nat /\ h.list \in Lists /\ Between(h.sum, h.count)
  BY <1>1 DEF Types, NoTornAverage
<1>4. /\ total' = [total EXCEPT ![t] = h.sum + value]
      /\ count' = [count EXCEPT ![t] = h.count + 1]
      /\ buckets' = [buckets EXCEPT ![t] = IF h = NoHistogram THEN request[t] ELSE h.list]
      /\ UNCHANGED <<histograms, sent, request, operation, todo>>
  BY DEF ObserveGet, Observes, At, Aside, registry, tracing
<1>5. Between(h.sum + value, h.count + 1)
  BY <1>2, <1>3, BetweenAdd
<1>6. value \in Nat
  BY <1>2, TelemetryAssumption
<1>7. request[t] \in Lists
  BY DEF Types, Lists
<1> HIDE DEF h, value
<1>8. Types'
  <2>1. h.sum + value \in Nat /\ h.count + 1 \in Nat
    BY <1>3, <1>6
  <2> QED
    BY <1>3, <1>4, <1>7, <2>1 DEF Types
<1>9. NoTornAverage'
  BY <1>4 DEF NoTornAverage, Between
<1>10. HeldBetween'
  BY <1>4, <1>5 DEF HeldBetween, Types, Between
<1> QED
  BY <1>8, <1>9, <1>10

LEMMA ObserveStoreStep ==
  ASSUME IInv, NEW t \in Threads, ObserveStore(t)
  PROVE  IInv'
<1> USE DEF IInv
<1> DEFINE new == [sum |-> total[t], count |-> count[t], list |-> buckets[t]]
<1>1. todo[t] # <<>>
  BY DEF ObserveStore, StoreThen, Recording
<1>2. /\ histograms' = [histograms EXCEPT ![Current(t)] = new]
      /\ todo' = [todo EXCEPT ![t] = Tail(@)]
      /\ total' = [total EXCEPT ![t] = 0]
      /\ count' = [count EXCEPT ![t] = 0]
      /\ buckets' = [buckets EXCEPT ![t] = 0]
      /\ UNCHANGED <<sent, request, operation>>
  BY DEF ObserveStore, StoreThen, EndUpdate, Aside
<1>3. /\ new \in [sum : Nat, count : Nat, list : Lists]
      /\ Between(new.sum, new.count)
  BY DEF Types, HeldBetween
<1>4. 0 \in Lists
  BY TelemetryAssumption DEF Lists
<1>5. [todo EXCEPT ![t] = Tail(@)] \in [Threads -> Seq(Measured)]
  BY <1>1, HeadMeasured
<1> HIDE DEF new
<1>6. Types'
  BY <1>2, <1>3, <1>4, <1>5 DEF Types
<1>7. NoTornAverage'
  BY <1>2, <1>3 DEF NoTornAverage, Types, Between
<1>8. HeldBetween'
  BY <1>2, BetweenZero DEF HeldBetween, Types, Between
<1> QED
  BY <1>6, <1>7, <1>8

\* Steps that neither observe nor store change what the invariant is about
\* only in that a hook begins or ends an update, or a request begins or ends.
LEMMA OtherStep ==
  ASSUME IInv, UNCHANGED <<total, count, buckets>>,
         \/ UNCHANGED histograms
         \/ histograms' = NoHistograms,
         sent' \in 0..MaxRequests,
         request' \in [Threads -> 0..MaxRequests],
         operation' \in [Threads -> Operations],
         todo' \in [Threads -> Seq(Measured)]
  PROVE  IInv'
<1> USE DEF IInv
<1>1. 0 \in Lists
  BY TelemetryAssumption DEF Lists
<1>2. Types'
  BY <1>1 DEF Types, NoHistograms, NoHistogram
<1>3. NoTornAverage'
  <2>1. CASE UNCHANGED histograms
    BY <2>1 DEF NoTornAverage, Between
  <2>2. CASE histograms' = NoHistograms
    <3>1. \A s \in Histograms : histograms'[s].sum = 0 /\ histograms'[s].count = 0
      BY <2>2 DEF NoHistograms, NoHistogram
    <3> QED
      BY <3>1, BetweenZero DEF NoTornAverage, Between
  <2> QED
    BY <2>1, <2>2
<1>4. HeldBetween'
  BY DEF HeldBetween, Between
<1> QED
  BY <1>2, <1>3, <1>4

LEMMA HookStep ==
  ASSUME IInv, NEW t \in Threads, InHook(t)
  PROVE  IInv'
<1> USE DEF IInv
<1>1. /\ sent \in 0..MaxRequests
      /\ request \in [Threads -> 0..MaxRequests]
      /\ operation \in [Threads -> Operations]
      /\ todo \in [Threads -> Seq(Measured)]
  BY DEF Types
<1>2. CASE IncrementRead(t)
  <2>1. UNCHANGED <<total, count, buckets, histograms, sent, request, operation, todo>>
    BY <1>2 DEF IncrementRead, At, Aside, registry
  <2> QED
    BY <1>1, <2>1, OtherStep
<1>3. CASE IncrementWrite(t)
  <2>1. /\ UNCHANGED <<total, count, buckets, histograms, sent, request, operation>>
        /\ todo' = [todo EXCEPT ![t] = Tail(@)]
        /\ todo[t] # <<>>
    BY <1>3 DEF IncrementWrite, EndUpdate, Aside, Recording
  <2>2. todo' \in [Threads -> Seq(Measured)]
    BY <2>1, HeadMeasured
  <2> QED
    BY <1>1, <2>1, <2>2, OtherStep
<1>4. CASE ObserveGet(t)
  BY <1>4, ObserveGetStep
<1>5. CASE BucketRead(t)
  <2>1. UNCHANGED <<total, count, buckets, histograms, sent, request, operation, todo>>
    BY <1>5 DEF BucketRead, At, Aside, registry
  <2> QED
    BY <1>1, <2>1, OtherStep
<1>6. CASE BucketWrite(t)
  <2>1. UNCHANGED <<total, count, buckets, histograms, sent, request, operation, todo>>
    BY <1>6 DEF BucketWrite, At, Aside
  <2> QED
    BY <1>1, <2>1, OtherStep
<1>7. CASE ObserveStore(t)
  BY <1>7, ObserveStoreStep
<1>8. CASE Return(t)
  <2>1. /\ UNCHANGED <<total, count, buckets, histograms, sent, operation, todo>>
        /\ \/ UNCHANGED request
           \/ request' = [request EXCEPT ![t] = 0]
    BY <1>8 DEF Return, registry, locals
  <2>2. 0 \in 0..MaxRequests
    BY TelemetryAssumption
  <2>3. request' \in [Threads -> 0..MaxRequests]
    BY <1>1, <2>1, <2>2
  <2> QED
    BY <1>1, <2>1, <2>3, OtherStep
<1> QED
  BY <1>2, <1>3, <1>4, <1>5, <1>6, <1>7, <1>8 DEF InHook

LEMMA SendStep ==
  ASSUME IInv, NEW t \in Threads, NEW op \in Operations, NEW to, Send(t, op, to)
  PROVE  IInv'
<1> USE DEF IInv
<1>1. /\ sent \in 0..MaxRequests /\ sent < MaxRequests
      /\ request \in [Threads -> 0..MaxRequests]
      /\ operation \in [Threads -> Operations]
      /\ todo \in [Threads -> Seq(Measured)]
  BY DEF Types, Send
<1>2. /\ UNCHANGED <<total, count, buckets, histograms, todo>>
      /\ sent' = sent + 1
      /\ request' = [request EXCEPT ![t] = sent + 1]
      /\ operation' = [operation EXCEPT ![t] = op]
  BY DEF Send, Rest, registry, locals
<1>3. sent + 1 \in 0..MaxRequests
  BY <1>1, TelemetryAssumption
<1>4. /\ request' \in [Threads -> 0..MaxRequests]
      /\ operation' \in [Threads -> Operations]
      /\ sent' \in 0..MaxRequests
      /\ todo' \in [Threads -> Seq(Measured)]
  BY <1>1, <1>2, <1>3
<1> QED
  BY <1>2, <1>4, OtherStep

LEMMA WayStep ==
  ASSUME IInv, NEW t \in Threads, OnTheWay(t), ~InHook(t)
  PROVE  IInv'
<1> USE DEF IInv
<1>1. /\ sent \in 0..MaxRequests
      /\ request \in [Threads -> 0..MaxRequests]
      /\ operation \in [Threads -> Operations]
      /\ todo \in [Threads -> Seq(Measured)]
  BY DEF Types
<1>2. CASE FirstChunk(t)
  <2>1. PICK duration \in Durations :
               todo' = [todo EXCEPT ![t] = <<Update(TimeToFirstToken, duration)>>]
    BY <1>2 DEF FirstChunk
  <2>2. UNCHANGED <<total, count, buckets, histograms, sent, request, operation>>
    BY <1>2 DEF FirstChunk, Rest, registry, locals
  <2>3. Update(TimeToFirstToken, duration) \in Measured
    BY MeasuredDuration DEF Histograms
  <2>4. todo' \in [Threads -> Seq(Measured)]
    BY <1>1, <2>1, <2>3
  <2> QED
    BY <1>1, <2>2, <2>4, OtherStep
<1>3. CASE Lose(t)
  <2>1. /\ UNCHANGED <<total, count, buckets, histograms, sent, operation, todo>>
        /\ request' = [request EXCEPT ![t] = 0]
    BY <1>3 DEF Lose, Rest, registry, locals
  <2>2. 0 \in 0..MaxRequests
    BY TelemetryAssumption
  <2>3. request' \in [Threads -> 0..MaxRequests]
    BY <1>1, <2>1, <2>2
  <2> QED
    BY <1>1, <2>1, <2>3, OtherStep
<1>4. ASSUME NEW status \in {"ok", "error"}, FinishSpan(t, status)
      PROVE  IInv'
  <2>1. UNCHANGED <<total, count, buckets, histograms, sent, request, operation, todo>>
    BY <1>4 DEF FinishSpan, Finishes, Rest, registry, locals
  <2> QED
    BY <1>1, <2>1, OtherStep
<1>5. CASE FinishOtelSpan(t)
  <2>1. UNCHANGED <<total, count, buckets, histograms, sent, request, operation, todo>>
    BY <1>5 DEF FinishOtelSpan, Rest, registry, locals
  <2> QED
    BY <1>1, <2>1, OtherStep
<1>6. CASE BeginHook(t)
  <2>1. UNCHANGED <<total, count, buckets, histograms, sent, request, operation>>
    BY <1>6 DEF BeginHook, Rest, registry, locals
  <2>2. operation[t] \in Operations
    BY <1>1
  <2>3. \/ \E answer \in Answers, duration \in Durations :
             todo' = [todo EXCEPT ![t] = AfterResponse(operation[t], answer, duration)]
        \/ todo' = [todo EXCEPT ![t] = OnError(operation[t])]
    BY <1>6 DEF BeginHook
  <2>4. \E updates \in Seq(Measured) : todo' = [todo EXCEPT ![t] = updates]
    BY <2>2, <2>3, AfterResponseMeasured, OnErrorMeasured
  <2>5. todo' \in [Threads -> Seq(Measured)]
    BY <1>1, <2>4
  <2> QED
    BY <1>1, <2>1, <2>5, OtherStep
<1> QED
  BY <1>2, <1>3, <1>4, <1>5, <1>6 DEF OnTheWay

LEMMA IInvStep == IInv /\ [Next]_vars => IInv'
<1> SUFFICES ASSUME IInv, [Next]_vars PROVE IInv'
  OBVIOUS
<1>1. /\ sent \in 0..MaxRequests
      /\ request \in [Threads -> 0..MaxRequests]
      /\ operation \in [Threads -> Operations]
      /\ todo \in [Threads -> Seq(Measured)]
  BY DEF IInv, Types
<1>2. CASE \E t \in Threads : BeforeRequest(t)
  <2>1. PICK t \in Threads, op \in Operations : Send(t, op, "running")
    BY <1>2 DEF BeforeRequest
  <2> QED
    BY <2>1, SendStep
<1>3. CASE \E t \in Threads : HaltEarly(t)
  <2>1. PICK t \in Threads, op \in Operations : Send(t, op, "running")
    BY <1>3 DEF HaltEarly
  <2> QED
    BY <2>1, SendStep
<1>4. CASE \E t \in Threads : OnTheWay(t)
  BY <1>4, HookStep, WayStep
<1>5. CASE ClearCounters
  <2>1. UNCHANGED <<total, count, buckets, histograms, sent, request, operation, todo>>
    BY <1>5 DEF ClearCounters, Clear, locals
  <2> QED
    BY <1>1, <2>1, OtherStep
<1>6. CASE ClearHistograms
  <2>1. /\ histograms' = NoHistograms
        /\ UNCHANGED <<total, count, buckets, sent, request, operation, todo>>
    BY <1>6 DEF ClearHistograms, Clear, locals
  <2> QED
    BY <1>1, <2>1, OtherStep
<1>7. CASE UNCHANGED vars
  <2>1. UNCHANGED <<total, count, buckets, histograms, sent, request, operation, todo>>
    BY <1>7 DEF vars, registry, locals
  <2> QED
    BY <1>1, <2>1, OtherStep
<1> QED
  BY <1>2, <1>3, <1>4, <1>5, <1>6, <1>7 DEF Next, Stop

(***************************************************************************)
(* middleware/metrics.py, observe(): whatever threads do, and whenever the *)
(* registry is cleared, the mean of a histogram is one of latencies that   *)
(* there can be.                                                           *)
(***************************************************************************)
THEOREM AveragesWhole == Spec => []NoTornAverage
<1>1. IInv => NoTornAverage
  BY DEF IInv
<1> QED
  BY IInvInit, IInvStep, <1>1, PTL DEF Spec
-----------------------------------------------------------------------------
(* Types.                                                                  *)

Ideals ==
    [counters : [Counters -> Nat],
     histograms : [Histograms -> [sum : Nat, count : Nat, buckets : [Buckets -> Nat]]]]

Registered ==
    /\ counters \in [Counters -> Nat]
    /\ lists \in [Histograms -> [Lists -> [Buckets -> Nat]]]
    /\ ideal \in Ideals
    /\ pc \in [Threads -> {"idle", "running", "chunk", "streaming", "finished", "exported", "hook"}]
    /\ step \in [Threads -> {"begin", "write", "bucket", "bucket write"}]
    /\ read \in [Threads -> Nat]
    /\ at \in [Threads -> 1..(Len(Bounds) + 1)]
    /\ clear \in {"not called", "half done", "done"}
    /\ raced \subseteq Series
    /\ torn \in BOOLEAN

\* Where a thread is in an update, and of what kind that is.
Located ==
    \A t \in Threads :
        /\ todo[t] # <<>> => pc[t] \in {"chunk", "hook"}
        /\ step[t] # "begin" => todo[t] # <<>>
        /\ step[t] = "write" => Current(t) \in Counters
        /\ step[t] \in {"bucket", "bucket write"} => Current(t) \in Histograms
        /\ step[t] = "bucket write" => at[t] \in Buckets

Opened == {t \in Threads : span[t] = "open"}

\* The recorder holds at least the spans that threads have open.
Traced ==
    /\ recorder \in [open : Nat, ok : Nat, error : Nat]
    /\ span \in [Threads -> {"none", "open", "ok", "error"}]
    /\ otel_span \in [Threads -> {"none", "open", "ok", "error"}]
    /\ unseen \in 0..sent
    /\ IsFiniteSet(Opened) /\ Cardinality(Opened) <= recorder.open
    /\ \A t \in Threads : pc[t] \in {"idle", "hook"} => span[t] = "none"

TypeInv == Registered /\ Located /\ Traced

LEMMA BoundsType ==
    /\ Len(Bounds) \in Nat /\ Buckets = 1..Len(Bounds)
    /\ \A i \in Buckets : Bounds[i] \in Nat
BY TelemetryAssumption DEF Buckets

LEMMA NewListType == NewList \in [Buckets -> Nat]
BY DEF NewList

LEMMA WorthType ==
    ASSUME NEW s, NEW op, NEW status, NEW answer \in Answers
    PROVE  Worth(s, op, status, answer) \in Nat
<1>1. answer.attempt \in Nat /\ answer.input \in Nat /\ answer.output \in Nat
  BY TelemetryAssumption
<1> QED
  BY <1>1 DEF Worth

LEMMA ObservedType ==
    ASSUME NEW h \in [sum : Nat, count : Nat, buckets : [Buckets -> Nat]], NEW d \in Durations
    PROVE  Observed(h, d) \in [sum : Nat, count : Nat, buckets : [Buckets -> Nat]]
<1>1. d \in Nat
  BY TelemetryAssumption
<1>2. PICK b : b = [i \in Buckets |-> h.buckets[i] + (IF d <= Bounds[i] THEN 1 ELSE 0)]
  OBVIOUS
<1>3. b \in [Buckets -> Nat]
  BY <1>2
<1>4. h.sum + d \in Nat /\ h.count + 1 \in Nat
  BY <1>1
<1> QED
  BY <1>2, <1>3, <1>4 DEF Observed

LEMMA NoMetricsType == NoMetrics \in Ideals
BY NewListType DEF NoMetrics, NoCounters, Ideals

\* One more observation.
LEMMA IdealObserved ==
    ASSUME NEW i \in Ideals, NEW s \in Histograms, NEW d \in Durations
    PROVE  [i EXCEPT !.histograms[s] = Observed(@, d)] \in Ideals
<1>1. Observed(i.histograms[s], d) \in [sum : Nat, count : Nat, buckets : [Buckets -> Nat]]
  BY ObservedType DEF Ideals
<1> QED
  BY <1>1 DEF Ideals

LEMMA TypeInvInit == Init => TypeInv
<1> SUFFICES ASSUME Init PROVE TypeInv
  OBVIOUS
<1>1. ideal \in Ideals
  <2>1. CASE ideal = NoMetrics
    BY <2>1, NoMetricsType
  <2>2. CASE \E op \in Operations, answer \in Answers, duration \in Durations :
               ideal = OneEarlier(op, answer, duration)
    <3>1. PICK op \in Operations, answer \in Answers, duration \in Durations :
                 ideal = OneEarlier(op, answer, duration)
      BY <2>2
    <3>2. PICK s \in Histograms : s = <<"uai_request_duration_seconds", op>>
      BY DEF Histograms
    <3>3. PICK c : c = [q \in Counters |-> Worth(q, op, "success", answer)]
      OBVIOUS
    <3>4. c \in [Counters -> Nat]
      BY <3>3, WorthType
    <3>5. PICK o : o = Observed(NoMetrics.histograms[s], duration)
      OBVIOUS
    <3>6. o \in [sum : Nat, count : Nat, buckets : [Buckets -> Nat]]
      BY <3>5, NoMetricsType, ObservedType DEF Ideals
    <3>7. ideal = [counters |-> c, histograms |-> [NoMetrics.histograms EXCEPT ![s] = o]]
      BY <3>1, <3>2, <3>3, <3>5 DEF OneEarlier
    <3> QED
      BY <3>4, <3>6, <3>7, NoMetricsType DEF Ideals
  <2> QED
    BY <2>1, <2>2 DEF Init, InitRegistry
<1>2. Registered
  <2>1. counters \in [Counters -> Nat]
    BY <1>1 DEF Init, InitRegistry, Ideals
  <2>2. lists \in [Histograms -> [Lists -> [Buckets -> Nat]]]
    <3>1. lists = [s \in Histograms |->
                    [r \in Lists |-> IF r = 0 THEN ideal.histograms[s].buckets ELSE NewList]]
      BY DEF Init, InitRegistry
    <3> QED
      BY <1>1, <3>1, NewListType DEF Ideals
  <2>3. 1 \in 1..(Len(Bounds) + 1)
    BY BoundsType
  <2> QED
    BY <1>1, <2>1, <2>2, <2>3 DEF Init, Registered
<1>3. Located
  BY DEF Init, Located
<1>4. Traced
  <2>1. recorder \in [open : Nat, ok : Nat, error : Nat]
    <3>1. \/ recorder = [open |-> 0, ok |-> 0, error |-> 0]
          \/ recorder = [open |-> 0, ok |-> 1, error |-> 0]
      BY DEF Init, InitRegistry
    <3> QED
      BY <3>1
  <2>2. Opened = {}
    BY DEF Init, Opened
  <2>3. IsFiniteSet(Opened) /\ Cardinality(Opened) = 0
    BY <2>2, FS_EmptySet
  <2>4. unseen \in 0..sent
    <3>1. unseen = 0 /\ sent = 0
      BY DEF Init
    <3> QED
      BY <3>1
  <2>5. /\ span = [t \in Threads |-> "none"] /\ otel_span = [t \in Threads |-> "none"]
    BY DEF Init
  <2>6. Cardinality(Opened) <= recorder.open
    BY <2>1, <2>3
  <2> QED
    BY <2>1, <2>3, <2>4, <2>5, <2>6 DEF Traced
<1> QED
  BY <1>2, <1>3, <1>4 DEF TypeInv

\* What a hook's steps leave alone.
LEMMA TracedKept ==
    ASSUME Traced, UNCHANGED <<tracing, sent, unseen>>,
           \A t \in Threads : pc'[t] \in {"idle", "hook"} => pc[t] \in {"idle", "hook"}
    PROVE  Traced'
BY DEF Traced, Opened, tracing
\* What hooks leave alone.
LEMMA HookTypes ==
    ASSUME Types, TypeInv, NEW t \in Threads, InHook(t)
    PROVE  TypeInv'
<1> USE DEF TypeInv
<1>1. CASE IncrementRead(t)
  <2>1. /\ todo[t] # <<>> /\ Current(t) \in Counters
        /\ step' = [step EXCEPT ![t] = "write"]
        /\ read' = [read EXCEPT ![t] = counters[Current(t)]]
        /\ raced' \in {raced, raced \cup {Current(t)}}
        /\ UNCHANGED <<counters, lists, ideal, pc, at, clear, torn, todo, tracing, sent, unseen>>
    BY <1>1 DEF IncrementRead, At, Recording, Begins, Aside, registry
  <2>2. counters[Current(t)] \in Nat /\ Current(t) \in Series
    BY <2>1 DEF Registered, Series
  <2>3. Registered'
    BY <2>1, <2>2 DEF Registered
  <2>4. Located'
    <3>1. ASSUME NEW u \in Threads
          PROVE  step'[u] = IF u = t THEN "write" ELSE step[u]
      BY <2>1 DEF Registered
    <3>2. ASSUME NEW u \in Threads
          PROVE  /\ todo[u] # <<>> => pc[u] \in {"chunk", "hook"}
                 /\ step'[u] # "begin" => todo[u] # <<>>
                 /\ step'[u] = "write" => Current(u) \in Counters
                 /\ step'[u] \in {"bucket", "bucket write"} => Current(u) \in Histograms
                 /\ step'[u] = "bucket write" => at[u] \in Buckets
      <4>1. CASE u = t
        <5>1. todo[u] # <<>> /\ Current(u) \in Counters /\ step'[u] = "write"
          BY <2>1, <3>1, <4>1
        <5>2. todo[u] # <<>> => pc[u] \in {"chunk", "hook"}
          BY DEF Located
        <5> QED
          BY <5>1, <5>2
      <4>2. CASE u # t
        BY <3>1, <4>2 DEF Located
      <4> QED
        BY <4>1, <4>2
    <3> QED
      BY <2>1, <3>2 DEF Located, Current
  <2> QED
    BY <2>1, <2>3, <2>4, TracedKept
<1>2. CASE IncrementWrite(t)
  <2>1. /\ todo[t] # <<>> /\ step[t] = "write"
        /\ counters' = [counters EXCEPT ![Current(t)] = read[t] + Head(todo[t]).value]
        /\ todo' = [todo EXCEPT ![t] = Tail(@)]
        /\ step' = [step EXCEPT ![t] = "begin"]
        /\ read' = [read EXCEPT ![t] = 0]
        /\ UNCHANGED <<lists, ideal, pc, at, clear, torn, raced, tracing, sent, unseen>>
    BY <1>2 DEF IncrementWrite, Recording, EndUpdate, Aside, registry
  <2>2. read[t] \in Nat /\ Head(todo[t]).value \in Nat
    BY <2>1, HeadMeasured DEF Registered
  <2>3. PICK sum \in Nat : sum = read[t] + Head(todo[t]).value
    BY <2>2
  <2>4. Registered'
    BY <2>1, <2>3 DEF Registered
  <2>5. Located'
    BY <2>1 DEF Located, Current, Registered, Types
  <2> QED
    BY <2>1, <2>4, <2>5, TracedKept
<1>3. CASE ObserveGet(t)
  <2>1. /\ todo[t] # <<>> /\ Current(t) \in Histograms
        /\ step' = [step EXCEPT ![t] = "bucket"]
        /\ at' = [at EXCEPT ![t] = 1]
        /\ raced' \in {raced, raced \cup {Current(t)}}
        /\ UNCHANGED <<counters, lists, ideal, pc, read, clear, torn, todo, tracing, sent, unseen>>
        /\ step[t] = "begin"
    BY <1>3 DEF ObserveGet, Observes, At, Recording, Begins, Aside, registry
  <2>2. Current(t) \in Series /\ 1 \in 1..(Len(Bounds) + 1)
    BY <2>1, BoundsType DEF Series
  <2>3. Registered'
    BY <2>1, <2>2 DEF Registered
  <2>4. Located'
    BY <2>1 DEF Located, Current, Registered
  <2> QED
    BY <2>1, <2>3, <2>4, TracedKept
<1>4. CASE BucketRead(t)
  <2>1. PICK i \in Belongs(t) : /\ at' = [at EXCEPT ![t] = i]
                                /\ read' = [read EXCEPT ![t] = lists[Current(t)][buckets[t]][i]]
    BY <1>4 DEF BucketRead
  <2>2. /\ todo[t] # <<>> /\ step[t] = "bucket"
        /\ step' = [step EXCEPT ![t] = "bucket write"]
        /\ UNCHANGED <<counters, lists, ideal, pc, raced, clear, torn, todo, tracing, sent, unseen>>
    BY <1>4 DEF BucketRead, At, Recording, Aside, registry
  <2>3. i \in Buckets /\ i \in 1..(Len(Bounds) + 1)
    <3>1. at[t] \in 1..(Len(Bounds) + 1) /\ i \in at[t]..Len(Bounds)
      BY DEF Registered, Belongs
    <3> QED
      BY <3>1, BoundsType
  <2>4. lists[Current(t)][buckets[t]][i] \in Nat
    <3>1. Current(t) \in Histograms /\ buckets[t] \in Lists
      BY <2>2 DEF Types, Located
    <3>2. lists[Current(t)] \in [Lists -> [Buckets -> Nat]]
      BY <3>1 DEF Registered
    <3> QED
      BY <2>3, <3>1, <3>2
  <2>5. Registered'
    BY <2>1, <2>2, <2>3, <2>4 DEF Registered
  <2>6. Located'
    BY <2>1, <2>2, <2>3 DEF Located, Current, Registered
  <2> QED
    BY <2>2, <2>5, <2>6, TracedKept
<1>5. CASE BucketWrite(t)
  <2>1. /\ todo[t] # <<>> /\ step[t] = "bucket write"
        /\ step' = [step EXCEPT ![t] = "bucket"]
        /\ lists' = [lists EXCEPT ![Current(t)][buckets[t]][at[t]] = read[t] + 1]
        /\ read' = [read EXCEPT ![t] = 0]
        /\ at' = [at EXCEPT ![t] = @ + 1]
        /\ UNCHANGED <<counters, ideal, pc, raced, clear, torn, todo, tracing, sent, unseen>>
    BY <1>5 DEF BucketWrite, At, Recording, Aside, registry
  <2>2. at[t] \in Buckets /\ at[t] + 1 \in 1..(Len(Bounds) + 1)
    <3>1. at[t] \in Buckets
      BY <2>1 DEF Located
    <3> QED
      BY <3>1, BoundsType
  <2>3. read[t] + 1 \in Nat
    <3>1. read[t] \in Nat
      BY DEF Registered
    <3> QED
      BY <3>1
  <2>4. lists' \in [Histograms -> [Lists -> [Buckets -> Nat]]]
    BY <2>1, <2>3, ZenonT(30) DEF Registered
  <2>5. Registered'
    BY <2>1, <2>2, <2>4 DEF Registered
  <2>6. Located'
    BY <2>1 DEF Located, Current, Registered
  <2> QED
    BY <2>1, <2>5, <2>6, TracedKept
<1>6. CASE ObserveStore(t)
  <2>1. /\ todo[t] # <<>>
        /\ todo' = [todo EXCEPT ![t] = Tail(@)]
        /\ step' = [step EXCEPT ![t] = "begin"]
        /\ at' = [at EXCEPT ![t] = 1]
        /\ UNCHANGED <<counters, lists, ideal, pc, read, raced, clear, torn, tracing, sent, unseen>>
    BY <1>6 DEF ObserveStore, StoreThen, Recording, EndUpdate, Aside
  <2>2. 1 \in 1..(Len(Bounds) + 1)
    BY BoundsType
  <2>3. Registered'
    BY <2>1, <2>2 DEF Registered
  <2>4. Located'
    BY <2>1 DEF Located, Current, Registered, Types
  <2> QED
    BY <2>1, <2>3, <2>4, TracedKept
<1>7. CASE Return(t)
  <2>1. /\ todo[t] = <<>>
        /\ \/ pc[t] = "chunk" /\ pc' = [pc EXCEPT ![t] = "streaming"]
           \/ pc[t] = "hook" /\ pc' = [pc EXCEPT ![t] = "idle"]
        /\ UNCHANGED <<counters, lists, ideal, step, at, read, raced, clear, torn, todo, tracing, sent, unseen>>
    BY <1>7 DEF Return, Goto, registry, locals, history
  <2>2. Registered'
    BY <2>1 DEF Registered
  <2>3. Located'
    BY <2>1 DEF Located, Current, Registered
  <2>4. \A u \in Threads : pc'[u] \in {"idle", "hook"} => pc[u] \in {"idle", "hook"}
    BY <2>1 DEF Registered
  <2> QED
    BY <2>1, <2>2, <2>3, <2>4, TracedKept
<1> QED
  BY <1>1, <1>2, <1>3, <1>4, <1>5, <1>6, <1>7 DEF InHook
\* A thread between two hooks: nothing of the registry changes but ideal.
LEMMA RegisteredKept ==
    ASSUME Types, TypeInv, UNCHANGED <<counters, lists, step, read, at, clear, raced, torn>>,
           ideal' \in Ideals, NEW t \in Threads,
           NEW to \in {"idle", "running", "chunk", "streaming", "finished", "exported", "hook"},
           pc' = [pc EXCEPT ![t] = to],
           \/ UNCHANGED todo
           \/ to \in {"chunk", "hook"} /\ \E u : todo' = [todo EXCEPT ![t] = u],
           pc[t] \notin {"chunk", "hook"}
    PROVE  Registered' /\ Located'
<1>1. Registered'
  BY DEF TypeInv, Registered
<1>2. todo[t] = <<>> /\ step[t] = "begin"
  BY DEF TypeInv, Located, Registered
<1>3. Located'
  <2> SUFFICES ASSUME NEW u \in Threads
               PROVE  /\ todo'[u] # <<>> => pc'[u] \in {"chunk", "hook"}
                      /\ step'[u] # "begin" => todo'[u] # <<>>
                      /\ step'[u] = "write" => Head(todo'[u]).series \in Counters
                      /\ step'[u] \in {"bucket", "bucket write"} => Head(todo'[u]).series \in Histograms
                      /\ step'[u] = "bucket write" => at'[u] \in Buckets
    BY DEF Located, Current
  <2>1. CASE u = t
    BY <1>2, <2>1 DEF TypeInv, Registered
  <2>2. CASE u # t
    <3>1. todo'[u] = todo[u] /\ pc'[u] = pc[u]
      BY <2>2 DEF Types, TypeInv, Registered
    <3> QED
      BY <3>1 DEF TypeInv, Located, Current
  <2> QED
    BY <2>1, <2>2
<1> QED
  BY <1>1, <1>3

\* How the set of open spans changes.
LEMMA SpanSet ==
    ASSUME Traced, NEW t \in Threads, NEW status \in {"none", "open", "ok", "error"},
           span' = [span EXCEPT ![t] = status]
    PROVE  /\ span' \in [Threads -> {"none", "open", "ok", "error"}]
           /\ IsFiniteSet(Opened') /\ Cardinality(Opened') \in Nat /\ Cardinality(Opened) \in Nat
           /\ status = "open" => Cardinality(Opened') <= Cardinality(Opened) + 1
           /\ status # "open" => Cardinality(Opened') <= Cardinality(Opened)
           /\ status # "open" /\ span[t] = "open" => Cardinality(Opened') = Cardinality(Opened) - 1
<1>1. IsFiniteSet(Opened) /\ Cardinality(Opened) \in Nat
  BY FS_CardinalityType DEF Traced
<1>2. span' \in [Threads -> {"none", "open", "ok", "error"}]
  BY DEF Traced
<1>3. Opened' = IF status = "open" THEN Opened \cup {t} ELSE Opened \ {t}
  BY DEF Opened, Traced
<1>4. /\ IsFiniteSet(Opened \cup {t})
      /\ Cardinality(Opened \cup {t}) = IF t \in Opened THEN Cardinality(Opened) ELSE Cardinality(Opened) + 1
  BY <1>1, FS_AddElement
<1>5. /\ IsFiniteSet(Opened \ {t})
      /\ Cardinality(Opened \ {t}) = IF t \in Opened THEN Cardinality(Opened) - 1 ELSE Cardinality(Opened)
  BY <1>1, FS_RemoveElement
<1>6. t \in Opened <=> span[t] = "open"
  BY DEF Opened
<1>7. Cardinality(Opened \cup {t}) \in Nat /\ Cardinality(Opened \ {t}) \in Nat
  BY <1>4, <1>5, FS_CardinalityType
<1> HIDE DEF Opened
<1>8. CASE status = "open"
  <2>1. Opened' = Opened \cup {t}
    BY <1>3, <1>8
  <2> QED
    BY <1>1, <1>2, <1>4, <1>7, <1>8, <2>1
<1>9. CASE status # "open"
  <2>1. Opened' = Opened \ {t}
    BY <1>3, <1>9
  <2> QED
    BY <1>1, <1>2, <1>5, <1>6, <1>7, <1>9, <2>1
<1> QED
  BY <1>8, <1>9

LEMMA WayTypes ==
    ASSUME Types, TypeInv, NEW t \in Threads,
           \/ BeforeRequest(t) \/ HaltEarly(t) \/ FirstChunk(t) \/ Lose(t)
           \/ FinishSpan(t, "ok") \/ FinishSpan(t, "error")
           \/ FinishOtelSpan(t) \/ BeginHook(t)
    PROVE  TypeInv'
<1> USE DEF TypeInv
<1> DEFINE States == {"none", "open", "ok", "error"}
<1>0. ideal \in Ideals /\ sent \in Nat /\ unseen \in 0..sent
  <2>1. sent \in 0..MaxRequests
    BY DEF Types
  <2>2. sent \in Nat
    BY <2>1, TelemetryAssumption
  <2> QED
    BY <2>2 DEF Registered, Traced
<1>1. CASE BeforeRequest(t) \/ HaltEarly(t)
  <2>1. /\ pc[t] = "idle" /\ pc' = [pc EXCEPT ![t] = "running"]
        /\ sent' = sent + 1
        /\ UNCHANGED <<counters, lists, step, read, at, clear, raced, torn, todo, ideal>>
    BY <1>1 DEF BeforeRequest, HaltEarly, Send, Goto, Rest, registry, locals
  <2>2. Registered' /\ Located'
    BY <1>0, <2>1, RegisteredKept
  <2>3. CASE BeforeRequest(t)
    <3>1. /\ recorder' = [recorder EXCEPT !["open"] = @ + 1]
          /\ span' = [span EXCEPT ![t] = "open"]
          /\ unseen' = unseen
      BY <2>3 DEF BeforeRequest
    <3>2. PICK tracer \in States : otel_span' = [otel_span EXCEPT ![t] = tracer]
      BY <2>3 DEF BeforeRequest
    <3>3. /\ span' \in [Threads -> States] /\ IsFiniteSet(Opened')
          /\ Cardinality(Opened') \in Nat /\ Cardinality(Opened) \in Nat
          /\ Cardinality(Opened') <= Cardinality(Opened) + 1
      BY <3>1, SpanSet
    <3>4. PICK n \in Nat : n = recorder.open + 1
      BY DEF Traced
    <3>5. recorder' \in [open : Nat, ok : Nat, error : Nat] /\ recorder'.open = recorder.open + 1
      BY <3>1, <3>4 DEF Traced
    <3>6. Cardinality(Opened') <= recorder'.open
      BY <3>3, <3>5 DEF Traced
    <3>7. unseen' \in 0..sent'
      BY <1>0, <2>1, <3>1
    <3>8. otel_span' \in [Threads -> States]
      BY <3>2 DEF Traced
    <3>9. \A u \in Threads : pc'[u] \in {"idle", "hook"} => span'[u] = "none"
      BY <2>1, <3>1 DEF Traced, Registered
    <3> QED
      BY <2>2, <3>3, <3>5, <3>6, <3>7, <3>8, <3>9 DEF Traced
  <2>4. CASE HaltEarly(t)
    <3>1. unseen' = unseen + 1 /\ UNCHANGED tracing
      BY <2>4 DEF HaltEarly
    <3>2. unseen' \in 0..sent'
      BY <1>0, <2>1, <3>1
    <3>3. \A u \in Threads : pc'[u] \in {"idle", "hook"} => pc[u] \in {"idle", "hook"}
      BY <2>1 DEF Registered
    <3> QED
      BY <2>2, <3>1, <3>2, <3>3 DEF Traced, Opened, tracing
  <2> QED
    BY <1>1, <2>3, <2>4
<1>2. CASE FirstChunk(t)
  <2>1. PICK d \in Durations :
          /\ todo' = [todo EXCEPT ![t] = <<Update(TimeToFirstToken, d)>>]
          /\ ideal' = [ideal EXCEPT !.histograms[TimeToFirstToken] = Observed(@, d)]
    BY <1>2 DEF FirstChunk
  <2>2. /\ pc[t] = "running" /\ pc' = [pc EXCEPT ![t] = "chunk"]
        /\ UNCHANGED <<counters, lists, step, read, at, clear, raced, torn, tracing, sent, unseen>>
    BY <1>2 DEF FirstChunk, Goto, Rest, registry, locals
  <2>3. ideal' \in Ideals
    BY <1>0, <2>1, IdealObserved DEF Histograms
  <2>4. Registered' /\ Located'
    BY <2>1, <2>2, <2>3, RegisteredKept
  <2>5. \A u \in Threads : pc'[u] \in {"idle", "hook"} => pc[u] \in {"idle", "hook"}
    BY <2>2 DEF Registered
  <2> QED
    BY <2>2, <2>4, <2>5, TracedKept
<1>3. CASE Lose(t)
  <2>1. /\ pc[t] = "running" /\ pc' = [pc EXCEPT ![t] = "idle"]
        /\ span' = [span EXCEPT ![t] = "none"]
        /\ otel_span' = [otel_span EXCEPT ![t] = "none"]
        /\ UNCHANGED <<counters, lists, step, read, at, clear, raced, torn, todo, ideal, recorder, sent, unseen>>
    BY <1>3 DEF Lose, ForgetSpan, Goto, Rest, registry, locals
  <2>2. Registered' /\ Located'
    BY <1>0, <2>1, RegisteredKept
  <2>3. /\ span' \in [Threads -> States] /\ IsFiniteSet(Opened')
        /\ Cardinality(Opened') \in Nat /\ Cardinality(Opened) \in Nat
        /\ Cardinality(Opened') <= Cardinality(Opened)
    BY <2>1, SpanSet
  <2>4. otel_span' \in [Threads -> States]
    BY <2>1 DEF Traced
  <2>5. \A u \in Threads : pc'[u] \in {"idle", "hook"} => span'[u] = "none"
    BY <2>1 DEF Traced, Registered
  <2>6. recorder'.open \in Nat /\ Cardinality(Opened') <= recorder'.open
    BY <2>1, <2>3 DEF Traced
  <2> QED
    BY <2>1, <2>2, <2>3, <2>4, <2>5, <2>6 DEF Traced
<1>4. ASSUME NEW status \in {"ok", "error"}, FinishSpan(t, status)
      PROVE  TypeInv'
  <2>1. /\ pc[t] \in {"running", "streaming"} /\ pc' = [pc EXCEPT ![t] = "finished"]
        /\ otel_span' = [otel_span EXCEPT ![t] = @]
        /\ UNCHANGED <<counters, lists, step, read, at, clear, raced, torn, todo, ideal, sent, unseen>>
    BY <1>4 DEF FinishSpan, Finishes, Rest, registry, locals
  <2>2. Registered' /\ Located'
    BY <1>0, <2>1, RegisteredKept
  <2>3. otel_span' = otel_span
    BY <2>1 DEF Traced
  <2>4. \A u \in Threads : pc'[u] \in {"idle", "hook"} => pc[u] \in {"idle", "hook"} /\ u # t
    BY <2>1 DEF Registered
  <2>5. CASE span[t] = "open"
    <3>1. /\ span' = [span EXCEPT ![t] = status]
          /\ recorder' = [recorder EXCEPT !.open = @ - 1, ![status] = @ + 1]
      BY <1>4, <2>5 DEF FinishSpan, Finishes
    <3>2. /\ span' \in [Threads -> States] /\ IsFiniteSet(Opened')
          /\ Cardinality(Opened') \in Nat /\ Cardinality(Opened) \in Nat
          /\ Cardinality(Opened') = Cardinality(Opened) - 1
      BY <2>5, <3>1, SpanSet
    <3>3. PICK n \in Nat : n = recorder.open - 1
      BY <3>2 DEF Traced
    <3>4. recorder.ok + 1 \in Nat /\ recorder.error + 1 \in Nat
      BY DEF Traced
    <3>5. recorder' \in [open : Nat, ok : Nat, error : Nat] /\ recorder'.open = n
      <4>1. CASE status = "ok"
        <5>1. recorder' = [recorder EXCEPT !.open = n, !.ok = recorder.ok + 1]
          BY <3>1, <3>3, <4>1 DEF Traced
        <5> QED
          BY <3>4, <5>1 DEF Traced
      <4>2. CASE status = "error"
        <5>1. recorder' = [recorder EXCEPT !.open = n, !.error = recorder.error + 1]
          BY <3>1, <3>3, <4>2 DEF Traced
        <5> QED
          BY <3>4, <5>1 DEF Traced
      <4> QED
        BY <4>1, <4>2
    <3>6. recorder.open \in Nat /\ Cardinality(Opened) <= recorder.open
      BY DEF Traced
    <3>7. Cardinality(Opened') <= recorder'.open
      BY <3>2, <3>3, <3>5, <3>6
    <3>8. \A u \in Threads : pc'[u] \in {"idle", "hook"} => span'[u] = "none"
      BY <2>4, <3>1 DEF Traced
    <3> QED
      BY <2>1, <2>2, <2>3, <3>2, <3>5, <3>7, <3>8 DEF Traced
  <2>6. CASE span[t] # "open"
    <3>1. span' = span /\ recorder' = recorder
      BY <1>4, <2>6 DEF FinishSpan, Finishes, Traced
    <3> QED
      BY <2>1, <2>2, <2>3, <2>4, <3>1 DEF Traced, Opened
  <2> QED
    BY <2>5, <2>6
<1>5. CASE FinishOtelSpan(t)
  <2>1. /\ pc[t] = "finished" /\ pc' = [pc EXCEPT ![t] = "exported"]
        /\ UNCHANGED <<counters, lists, step, read, at, clear, raced, torn, todo, ideal, sent, unseen, span, recorder>>
    BY <1>5 DEF FinishOtelSpan, Goto, Rest, registry, locals
  <2>2. PICK status \in IF otel_span[t] = "open" THEN {span[t], "open"} ELSE {otel_span[t]} :
               otel_span' = [otel_span EXCEPT ![t] = status]
    BY <1>5 DEF FinishOtelSpan
  <2>3. status \in States
    BY <2>2 DEF Traced
  <2>4. otel_span' \in [Threads -> States]
    BY <2>2, <2>3 DEF Traced
  <2>5. Registered' /\ Located'
    BY <1>0, <2>1, RegisteredKept
  <2>6. \A u \in Threads : pc'[u] \in {"idle", "hook"} => pc[u] \in {"idle", "hook"}
    BY <2>1 DEF Registered
  <2> QED
    BY <2>1, <2>4, <2>5, <2>6 DEF Traced, Opened
<1>6. CASE BeginHook(t)
  <2>1. /\ pc[t] = "exported" /\ pc' = [pc EXCEPT ![t] = "hook"]
        /\ span' = [span EXCEPT ![t] = "none"]
        /\ otel_span' = [otel_span EXCEPT ![t] = "none"]
        /\ UNCHANGED <<counters, lists, step, read, at, clear, raced, torn, recorder, sent, unseen>>
        /\ \E u : todo' = [todo EXCEPT ![t] = u]
    BY <1>6 DEF BeginHook, ForgetSpan, Goto, Rest, registry, locals
  <2>2. operation[t] \in Operations
    BY DEF Types
  <2>3. ASSUME NEW status, NEW answer \in Answers
        PROVE  Counted(operation[t], status, answer) \in [Counters -> Nat]
    <3>1. \A s \in Counters : ideal.counters[s] \in Nat /\ Worth(s, operation[t], status, answer) \in Nat
      BY <1>0, WorthType DEF Ideals
    <3> QED
      BY <3>1 DEF Counted
  <2>4. ideal' \in Ideals
    <3>1. CASE \E answer \in Answers, d \in Durations :
                 ideal' = [counters |-> Counted(operation[t], "success", answer),
                           histograms |-> [ideal.histograms EXCEPT
                              ![<<"uai_request_duration_seconds", operation[t]>>] = Observed(@, d)]]
      <4>1. PICK answer \in Answers, d \in Durations :
                 ideal' = [counters |-> Counted(operation[t], "success", answer),
                           histograms |-> [ideal.histograms EXCEPT
                              ![<<"uai_request_duration_seconds", operation[t]>>] = Observed(@, d)]]
        BY <3>1
      <4>2. PICK s \in Histograms : s = <<"uai_request_duration_seconds", operation[t]>>
        BY <2>2 DEF Histograms
      <4>3. PICK c \in [Counters -> Nat] : c = Counted(operation[t], "success", answer)
        BY <2>3
      <4>4. Observed(ideal.histograms[s], d) \in [sum : Nat, count : Nat, buckets : [Buckets -> Nat]]
        BY <1>0, ObservedType DEF Ideals
      <4>5. ideal' = [counters |-> c,
                      histograms |-> [ideal.histograms EXCEPT ![s] = Observed(ideal.histograms[s], d)]]
        BY <4>1, <4>2, <4>3
      <4> QED
        BY <1>0, <4>4, <4>5 DEF Ideals
    <3>2. CASE \E answer \in Answers :
                 ideal' = [ideal EXCEPT !.counters = Counted(operation[t], "error", answer)]
      <4>1. PICK c \in [Counters -> Nat] : ideal' = [ideal EXCEPT !.counters = c]
        BY <2>3, <3>2
      <4> QED
        BY <1>0, <4>1 DEF Ideals
    <3> QED
      BY <1>6, <3>1, <3>2 DEF BeginHook
  <2>5. Registered' /\ Located'
    BY <2>1, <2>4, RegisteredKept
  <2>6. /\ span' \in [Threads -> States] /\ IsFiniteSet(Opened')
        /\ Cardinality(Opened') \in Nat /\ Cardinality(Opened) \in Nat
        /\ Cardinality(Opened') <= Cardinality(Opened)
    BY <2>1, SpanSet
  <2>7. otel_span' \in [Threads -> States]
    BY <2>1 DEF Traced
  <2>8. \A u \in Threads : pc'[u] \in {"idle", "hook"} => span'[u] = "none"
    BY <2>1 DEF Traced, Registered
  <2>9. recorder'.open \in Nat /\ Cardinality(Opened') <= recorder'.open
    BY <2>1, <2>6 DEF Traced
  <2> QED
    BY <2>1, <2>5, <2>6, <2>7, <2>8, <2>9 DEF Traced
<1> QED
  BY <1>1, <1>2, <1>3, <1>4, <1>5, <1>6

LEMMA TypeInvStep == Types /\ TypeInv /\ [Next]_vars => TypeInv'
<1> SUFFICES ASSUME Types, TypeInv, [Next]_vars PROVE TypeInv'
  OBVIOUS
<1>1. CASE \E t \in Threads : BeforeRequest(t) \/ HaltEarly(t) \/ OnTheWay(t)
  BY <1>1, HookTypes, WayTypes DEF OnTheWay
<1>2. CASE ClearCounters \/ ClearHistograms
  <2>1. /\ clear' \in {"half done", "done"} /\ torn' = (torn \/ AtWork)
        /\ UNCHANGED <<lists, tracing, sent, unseen, pc, todo, step, read, at, raced>>
    BY <1>2 DEF ClearCounters, ClearHistograms, Clear, locals
  <2>2. counters' \in [Counters -> Nat] /\ ideal' \in Ideals
    <3>1. NoCounters \in [Counters -> Nat] /\ NoMetrics \in Ideals /\ ideal \in Ideals
          /\ counters \in [Counters -> Nat]
      BY NoMetricsType DEF NoCounters, TypeInv, Registered
    <3>2. \/ counters' = NoCounters /\ ideal' = [ideal EXCEPT !.counters = NoCounters]
          \/ counters' = counters /\ ideal' = [ideal EXCEPT !.histograms = NoMetrics.histograms]
      BY <1>2 DEF ClearCounters, ClearHistograms
    <3> QED
      BY <3>1, <3>2 DEF Ideals
  <2>3. torn' \in BOOLEAN
    BY <2>1
  <2>4. Registered'
    BY <2>1, <2>2, <2>3 DEF TypeInv, Registered
  <2>5. Located'
    BY <2>1 DEF TypeInv, Located, Current
  <2> QED
    BY <2>1, <2>4, <2>5, TracedKept DEF TypeInv
<1>3. CASE UNCHANGED vars
  BY <1>3 DEF vars, registry, tracing, locals, history, TypeInv, Registered, Located, Current, Traced, Opened
<1> QED
  BY <1>1, <1>2, <1>3 DEF Next, Stop

LEMMA TypesInvariant == Spec => [](IInv /\ TypeInv)
<1>1. IInv /\ TypeInv /\ [Next]_vars => TypeInv'
  BY TypeInvStep DEF IInv
<1> QED
  BY IInvInit, IInvStep, TypeInvInit, <1>1, PTL DEF Spec

(***************************************************************************)
(* The variables of metrics and tracing keep their types: an update that   *)
(* has begun has its place in the loop of observe(), and the recorder never*)
(* finishes a span it has not opened.                                      *)
(***************************************************************************)
THEOREM TelemetryTypes == Spec => []TypeOK
<1>1. ASSUME IInv, TypeInv PROVE TypeOK
  <2>1. todo \in [Threads -> Seq([series : Series, value : Nat])]
    <3>1. Measured \subseteq [series : Series, value : Nat]
      BY DEF Measured
    <3>2. \A u \in Seq(Measured) : u \in Seq([series : Series, value : Nat])
      BY <3>1, SeqMonotonic
    <3> QED
      BY <1>1, <3>2 DEF IInv, Types
  <2> QED
    BY <1>1, <2>1 DEF IInv, Types, TypeInv, Registered, Traced, TypeOK
<1> QED
  BY <1>1, TypesInvariant, PTL
-----------------------------------------------------------------------------
(* What updates are due.                                                   *)

Named(u) == {u[i].series : i \in DOMAIN u}

\* No hook updates a series twice.
Distinct(u) == \A i, j \in DOMAIN u : u[i].series = u[j].series => i = j

\* What the updates u still add to a series.
Amount(u, s) ==
    IF s \in Named(u) THEN u[CHOOSE i \in DOMAIN u : u[i].series = s].value ELSE 0

\* All that the threads still have to add to a series, unit by unit.
Due(f, s) == {x \in Threads \X Nat : x[2] \in 1..Amount(f[x[1]], s)}

LEMMA AmountType ==
    ASSUME NEW u \in Seq(Measured), NEW s PROVE Amount(u, s) \in Nat
<1>1. DOMAIN u = 1..Len(u) /\ \A i \in DOMAIN u : u[i].value \in Nat
  BY DEF Measured
<1>2. CASE s \in Named(u)
  <2>1. \E i \in DOMAIN u : u[i].series = s
    BY <1>2 DEF Named
  <2>2. PICK i \in DOMAIN u : i = CHOOSE j \in DOMAIN u : u[j].series = s
    BY <2>1
  <2> QED
    BY <1>1, <1>2, <2>2 DEF Amount
<1>3. CASE s \notin Named(u)
  BY <1>3 DEF Amount
<1> QED
  BY <1>2, <1>3

LEMMA AmountAt ==
    ASSUME NEW u, Distinct(u), NEW i \in DOMAIN u
    PROVE  Amount(u, u[i].series) = u[i].value
<1>1. u[i].series \in Named(u)
  BY DEF Named
<1>2. (CHOOSE j \in DOMAIN u : u[j].series = u[i].series) = i
  BY DEF Distinct
<1> QED
  BY <1>1, <1>2 DEF Amount

LEMMA AmountEmpty ==
    ASSUME NEW s PROVE Amount(<<>>, s) = 0 /\ Named(<<>>) = {} /\ Distinct(<<>>)
BY DEF Amount, Named, Distinct

LEMMA AmountOne ==
    ASSUME NEW s, NEW n
    PROVE  /\ Distinct(<<Update(s, n)>>) /\ Named(<<Update(s, n)>>) = {s}
           /\ \A q : Amount(<<Update(s, n)>>, q) = IF q = s THEN n ELSE 0
<1> DEFINE u == <<Update(s, n)>>
<1>1. DOMAIN u = {1} /\ u[1].series = s /\ u[1].value = n
  BY DEF Update
<1> HIDE DEF u
<1>2. Distinct(u) /\ Named(u) = {s}
  BY <1>1 DEF Distinct, Named
<1>3. Amount(u, s) = n
  BY <1>1, <1>2, AmountAt
<1>4. \A q : q # s => Amount(u, q) = 0
  BY <1>2 DEF Amount
<1> QED
  BY <1>2, <1>3, <1>4 DEF u

LEMMA AmountTail ==
    ASSUME NEW u \in Seq(Measured), u # <<>>, Distinct(u)
    PROVE  /\ Distinct(Tail(u)) /\ Named(Tail(u)) = Named(u) \ {Head(u).series}
           /\ Amount(u, Head(u).series) = Head(u).value
           /\ \A s : Amount(Tail(u), s) = IF s = Head(u).series THEN 0 ELSE Amount(u, s)
<1>1. PICK n \in Nat : n = Len(u) - 1
  OBVIOUS
<1>2. PICK v : v = Tail(u)
  OBVIOUS
<1>3. /\ DOMAIN u = 1..n + 1 /\ DOMAIN v = 1..n /\ Head(u) = u[1]
      /\ \A i \in 1..n : v[i] = u[i + 1]
  BY <1>1, <1>2
<1>4. 1 \in DOMAIN u /\ \A i \in 1..n : i + 1 \in DOMAIN u /\ i + 1 # 1
  BY <1>3
<1>5. \A j \in DOMAIN u : j = 1 \/ (j - 1 \in 1..n /\ v[j - 1] = u[j])
  BY <1>3
<1>6. Distinct(v)
  <2> SUFFICES ASSUME NEW i \in 1..n, NEW j \in 1..n, v[i].series = v[j].series PROVE i = j
    BY <1>3 DEF Distinct
  <2>1. u[i + 1].series = u[j + 1].series
    BY <1>3
  <2>2. i + 1 = j + 1
    BY <1>4, <2>1 DEF Distinct
  <2> QED
    BY <2>2
<1>7. Amount(u, Head(u).series) = Head(u).value
  BY <1>3, <1>4, AmountAt
<1>8. \A i \in 1..n : v[i].series # Head(u).series
  BY <1>3, <1>4 DEF Distinct
<1>9. Named(v) = Named(u) \ {Head(u).series}
  <2>1. ASSUME NEW s \in Named(v) PROVE s \in Named(u) \ {Head(u).series}
    <3>1. PICK i \in 1..n : s = v[i].series
      BY <1>3, <2>1 DEF Named
    <3> QED
      BY <1>3, <1>4, <1>8, <3>1 DEF Named
  <2>2. ASSUME NEW s \in Named(u), s # Head(u).series PROVE s \in Named(v)
    <3>1. PICK j \in DOMAIN u : s = u[j].series
      BY <2>2 DEF Named
    <3> QED
      BY <1>3, <1>5, <2>2, <3>1 DEF Named
  <2> QED
    BY <2>1, <2>2
<1>10. ASSUME NEW s, s # Head(u).series PROVE Amount(v, s) = Amount(u, s)
  <2>1. CASE s \in Named(v)
    <3>1. PICK i \in 1..n : s = v[i].series
      BY <1>3, <2>1 DEF Named
    <3>2. Amount(v, s) = v[i].value
      BY <1>3, <1>6, <3>1, AmountAt
    <3>3. Amount(u, s) = u[i + 1].value
      BY <1>3, <1>4, <3>1, AmountAt
    <3> QED
      BY <1>3, <3>2, <3>3
  <2>2. CASE s \notin Named(v)
    BY <1>9, <1>10, <2>2 DEF Amount
  <2> QED
    BY <2>1, <2>2
<1>11. Amount(v, Head(u).series) = 0
  BY <1>9 DEF Amount
<1> QED
  BY <1>2, <1>6, <1>7, <1>9, <1>10, <1>11

LEMMA AmountJoined ==
    ASSUME NEW u \in Seq(Measured), NEW v \in Seq(Measured), Distinct(u), Distinct(v),
           Named(u) \cap Named(v) = {}
    PROVE  /\ u \o v \in Seq(Measured) /\ Distinct(u \o v)
           /\ Named(u \o v) = Named(u) \cup Named(v)
           /\ \A s : Amount(u \o v, s) = Amount(u, s) + Amount(v, s)
<1>1. PICK m \in Nat, n \in Nat : m = Len(u) /\ n = Len(v)
  OBVIOUS
<1>2. PICK w : w = u \o v
  OBVIOUS
<1>3. /\ DOMAIN u = 1..m /\ DOMAIN v = 1..n /\ DOMAIN w = 1..m + n /\ w \in Seq(Measured)
      /\ \A i \in 1..m : w[i] = u[i] /\ i \in DOMAIN w
      /\ \A i \in 1..n : w[m + i] = v[i] /\ m + i \in DOMAIN w
  BY <1>1, <1>2
<1>4. \A j \in DOMAIN w : j \in 1..m \/ (\E i \in 1..n : j = m + i)
  <2> SUFFICES ASSUME NEW j \in 1..m + n, j \notin 1..m PROVE \E i \in 1..n : j = m + i
    BY <1>3
  <2>1. j - m \in 1..n /\ j = m + (j - m)
    OBVIOUS
  <2> QED
    BY <2>1
<1>5. \A i \in 1..m, k \in 1..n : u[i].series # v[k].series
  BY <1>3 DEF Named
<1>6. Distinct(w)
  <2> SUFFICES ASSUME NEW i \in DOMAIN w, NEW j \in DOMAIN w, w[i].series = w[j].series PROVE i = j
    BY DEF Distinct
  <2>1. CASE i \in 1..m /\ j \in 1..m
    BY <1>3, <2>1 DEF Distinct
  <2>2. CASE i \notin 1..m /\ j \notin 1..m
    <3>1. PICK a \in 1..n, b \in 1..n : i = m + a /\ j = m + b
      BY <1>4, <2>2
    <3>2. v[a].series = v[b].series
      BY <1>3, <3>1
    <3> QED
      BY <1>3, <3>1, <3>2 DEF Distinct
  <2>3. CASE i \in 1..m /\ j \notin 1..m
    <3>1. PICK b \in 1..n : j = m + b
      BY <1>4, <2>3
    <3>2. u[i].series = v[b].series
      BY <1>3, <2>3, <3>1
    <3> QED
      BY <1>5, <2>3, <3>2
  <2>4. CASE i \notin 1..m /\ j \in 1..m
    <3>1. PICK a \in 1..n : i = m + a
      BY <1>4, <2>4
    <3>2. u[j].series = v[a].series
      BY <1>3, <2>4, <3>1
    <3> QED
      BY <1>5, <2>4, <3>2
  <2> QED
    BY <2>1, <2>2, <2>3, <2>4
<1>7. Named(w) = Named(u) \cup Named(v)
  <2>1. ASSUME NEW s \in Named(w) PROVE s \in Named(u) \cup Named(v)
    <3>1. PICK j \in DOMAIN w : s = w[j].series
      BY <2>1 DEF Named
    <3> QED
      <4>1. CASE j \in 1..m
        BY <1>3, <3>1, <4>1 DEF Named
      <4>2. CASE j \notin 1..m
        <5>1. PICK i \in 1..n : j = m + i
          BY <1>4, <3>1, <4>2
        <5>2. s = v[i].series
          BY <1>3, <3>1, <5>1
        <5> QED
          BY <1>3, <5>2 DEF Named
      <4> QED
        BY <4>1, <4>2
  <2>2. ASSUME NEW s \in Named(u) PROVE s \in Named(w)
    BY <1>3, <2>2 DEF Named
  <2>3. ASSUME NEW s \in Named(v) PROVE s \in Named(w)
    <3>1. PICK i \in 1..n : s = v[i].series
      BY <1>3, <2>3 DEF Named
    <3>2. w[m + i] = v[i] /\ m + i \in DOMAIN w
      BY <1>3
    <3> QED
      BY <3>1, <3>2 DEF Named
  <2> QED
    BY <2>1, <2>2, <2>3
<1>8. ASSUME NEW s PROVE Amount(w, s) = Amount(u, s) + Amount(v, s)
  <2>1. Amount(u, s) \in Nat /\ Amount(v, s) \in Nat
    BY AmountType
  <2>2. CASE s \in Named(u)
    <3>1. PICK i \in 1..m : s = u[i].series
      BY <1>3, <2>2 DEF Named
    <3>2. Amount(u, s) = u[i].value /\ Amount(w, s) = w[i].value
      BY <1>3, <1>6, <3>1, AmountAt
    <3>3. Amount(v, s) = 0
      BY <2>2 DEF Amount
    <3> QED
      BY <1>3, <2>1, <3>2, <3>3
  <2>3. CASE s \in Named(v)
    <3>1. PICK i \in 1..n : s = v[i].series
      BY <1>3, <2>3 DEF Named
    <3>2. w[m + i] = v[i] /\ m + i \in DOMAIN w
      BY <1>3
    <3>3. Amount(v, s) = v[i].value /\ Amount(w, s) = w[m + i].value
      BY <1>3, <1>6, <3>1, <3>2, AmountAt
    <3>4. Amount(u, s) = 0
      BY <2>3 DEF Amount
    <3> QED
      BY <2>1, <3>2, <3>3, <3>4
  <2>4. CASE s \notin Named(u) /\ s \notin Named(v)
    BY <1>7, <2>4 DEF Amount
  <2> QED
    BY <2>2, <2>3, <2>4
<1> QED
  BY <1>2, <1>3, <1>6, <1>7, <1>8

\* What is due when a thread's updates become v.
LEMMA DueChange ==
    ASSUME NEW f \in [Threads -> Seq(Measured)], NEW t \in Threads, NEW v \in Seq(Measured), NEW s,
           IsFiniteSet(Due(f, s))
    PROVE  LET g == [f EXCEPT ![t] = v]
           IN  /\ IsFiniteSet(Due(g, s))
               /\ Cardinality(Due(g, s)) \in Nat /\ Cardinality(Due(f, s)) \in Nat
               /\ Cardinality(Due(g, s)) + Amount(f[t], s) = Cardinality(Due(f, s)) + Amount(v, s)
<1>1. PICK g \in [Threads -> Seq(Measured)] : g = [f EXCEPT ![t] = v]
  OBVIOUS
<1>2. PICK a \in Nat, b \in Nat : a = Amount(f[t], s) /\ b = Amount(v, s)
  BY AmountType
<1>3. PICK rest : rest = {x \in Due(f, s) : x[1] # t}
  OBVIOUS
<1>4. Due(f, s) = rest \cup ({t} \X (1..a))
  BY <1>2, <1>3 DEF Due
<1>5. Due(g, s) = rest \cup ({t} \X (1..b))
  BY <1>1, <1>2, <1>3 DEF Due
<1>6. \A n \in Nat : /\ IsFiniteSet({t} \X (1..n)) /\ Cardinality({t} \X (1..n)) = n
                     /\ rest \cap ({t} \X (1..n)) = {}
  <2> SUFFICES ASSUME NEW n \in Nat
               PROVE  /\ IsFiniteSet({t} \X (1..n)) /\ Cardinality({t} \X (1..n)) = n
                      /\ rest \cap ({t} \X (1..n)) = {}
    OBVIOUS
  <2>1. IsFiniteSet({t}) /\ Cardinality({t}) = 1
    BY FS_Singleton
  <2>2. IsFiniteSet(1..n) /\ Cardinality(1..n) = n
    BY FS_Interval
  <2>3. IsFiniteSet({t} \X (1..n)) /\ Cardinality({t} \X (1..n)) = 1 * n
    <3>1. /\ IsFiniteSet({t} \X (1..n))
          /\ Cardinality({t} \X (1..n)) = Cardinality({t}) * Cardinality(1..n)
      BY <2>1, <2>2, FS_Product
    <3> QED
      BY <2>1, <2>2, <3>1
  <2>4. rest \cap ({t} \X (1..n)) = {}
    BY <1>3
  <2> QED
    BY <2>3, <2>4
<1>7. IsFiniteSet(rest) /\ Cardinality(rest) \in Nat
  BY <1>3, FS_Subset, FS_CardinalityType
<1>8. \A n \in Nat : /\ IsFiniteSet(rest \cup ({t} \X (1..n)))
                     /\ Cardinality(rest \cup ({t} \X (1..n))) = Cardinality(rest) + n
  <2> SUFFICES ASSUME NEW n \in Nat
               PROVE  /\ IsFiniteSet(rest \cup ({t} \X (1..n)))
                      /\ Cardinality(rest \cup ({t} \X (1..n))) = Cardinality(rest) + n
    OBVIOUS
  <2>1. PICK own : own = {t} \X (1..n)
    OBVIOUS
  <2>2. IsFiniteSet(own) /\ Cardinality(own) = n /\ rest \cap own = {}
    BY <1>6, <2>1
  <2>3. Cardinality(rest \cap own) = 0
    BY <2>2, FS_EmptySet
  <2>4. /\ IsFiniteSet(rest \cup own)
        /\ Cardinality(rest \cup own) = Cardinality(rest) + Cardinality(own) - Cardinality(rest \cap own)
    BY <1>7, <2>2, FS_Union
  <2> QED
    BY <1>7, <2>1, <2>2, <2>3, <2>4
<1>9. /\ IsFiniteSet(Due(g, s)) /\ Cardinality(Due(g, s)) = Cardinality(rest) + b
      /\ Cardinality(Due(f, s)) = Cardinality(rest) + a
  BY <1>4, <1>5, <1>8
<1> QED
  BY <1>1, <1>2, <1>7, <1>9
LEMMA AmountOptional ==
    ASSUME NEW s, NEW n \in Nat
    PROVE  /\ Distinct(UpdateIf(n, s)) /\ Named(UpdateIf(n, s)) \subseteq {s}
           /\ \A q : Amount(UpdateIf(n, s), q) = IF q = s THEN n ELSE 0
<1>1. CASE n > 0
  <2>1. UpdateIf(n, s) = <<Update(s, n)>>
    BY <1>1 DEF UpdateIf
  <2> QED
    BY <2>1, AmountOne
<1>2. CASE n = 0
  <2>1. UpdateIf(n, s) = <<>>
    BY <1>2 DEF UpdateIf
  <2> QED
    BY <1>2, <2>1, AmountEmpty
<1> QED
  BY <1>1, <1>2

LEMMA AmountCall ==
    ASSUME NEW op \in Operations, NEW status \in Statuses
    PROVE  LET u == CountedCall(op, status)
               one == <<"uai_requests_total", op, status>>
               all == <<"uai_provider_requests_total", status>>
           IN  /\ Distinct(u) /\ Named(u) = {one, all}
               /\ \A q : Amount(u, q) = IF q \in {one, all} THEN 1 ELSE 0
<1> DEFINE one == <<"uai_requests_total", op, status>>
           all == <<"uai_provider_requests_total", status>>
<1>1. one \in Counters /\ all \in Counters /\ one # all
  BY DEF Counters
<1>2. PICK a, b : a = <<Update(one, 1)>> /\ b = <<Update(all, 1)>>
  OBVIOUS
<1>3. a \in Seq(Measured) /\ b \in Seq(Measured)
  BY <1>1, <1>2, MeasuredCounter
<1>4. CountedCall(op, status) = a \o b
  BY <1>2 DEF CountedCall
<1> HIDE DEF one, all
<1>5. /\ Distinct(a) /\ Named(a) = {one} /\ (\A q : Amount(a, q) = IF q = one THEN 1 ELSE 0)
      /\ Distinct(b) /\ Named(b) = {all} /\ (\A q : Amount(b, q) = IF q = all THEN 1 ELSE 0)
  BY <1>2, AmountOne
<1>6. Named(a) \cap Named(b) = {}
  BY <1>1, <1>5
<1>7. /\ Distinct(a \o b) /\ Named(a \o b) = Named(a) \cup Named(b)
      /\ \A q : Amount(a \o b, q) = Amount(a, q) + Amount(b, q)
  BY <1>3, <1>5, <1>6, AmountJoined
<1>8. \A q : Amount(a \o b, q) = IF q \in {one, all} THEN 1 ELSE 0
  BY <1>1, <1>5, <1>7
<1> QED
  BY <1>4, <1>5, <1>7, <1>8 DEF one, all

\* A hook adds to each counter what a request is worth, and to one histogram.
LEMMA AfterResponseAmounts ==
    ASSUME NEW op \in Operations, NEW answer \in Answers, NEW d \in Durations
    PROVE  LET u == AfterResponse(op, answer, d)
               latency == <<"uai_request_duration_seconds", op>>
           IN  /\ Distinct(u)
               /\ \A s \in Counters : Amount(u, s) = Worth(s, op, "success", answer)
               /\ Amount(u, latency) = d
               /\ Named(u) \cap Histograms = {latency}
<1> DEFINE n == IF answer.cache_hit THEN 1 ELSE 0
           one == <<"uai_requests_total", op, "success">>
           all == <<"uai_provider_requests_total", "success">>
           latency == <<"uai_request_duration_seconds", op>>
           hits == <<"uai_cache_hits_total", op>>
           retries == <<"uai_retries_total", op>>
           input == <<"uai_tokens_input_total", op>>
           output == <<"uai_tokens_output_total", op>>
<1>1. /\ one \in Counters /\ all \in Counters /\ hits \in Counters /\ retries \in Counters
      /\ input \in Counters /\ output \in Counters /\ latency \in Histograms
  BY DEF Counters, Histograms, Statuses
<1>2. /\ one # all /\ one # latency /\ one # hits /\ one # retries /\ one # input /\ one # output
      /\ all # latency /\ all # hits /\ all # retries /\ all # input /\ all # output
      /\ latency # hits /\ latency # retries /\ latency # input /\ latency # output
      /\ hits # retries /\ hits # input /\ hits # output
      /\ retries # input /\ retries # output /\ input # output
  OBVIOUS
<1>3. answer.attempt \in Nat /\ answer.input \in Nat /\ answer.output \in Nat /\ n \in Nat /\ d \in Nat
  BY TelemetryAssumption
<1>4. \A s : Worth(s, op, "success", answer) =
             IF s \in {one, all} THEN 1 ELSE IF s = hits THEN n ELSE IF s = retries THEN answer.attempt
             ELSE IF s = input THEN answer.input ELSE IF s = output THEN answer.output ELSE 0
  BY DEF Worth
<1>5. PICK c, l, h, r, i, o :
        /\ c = CountedCall(op, "success") /\ l = <<Update(latency, d)>> /\ h = UpdateIf(n, hits)
        /\ r = UpdateIf(answer.attempt, retries) /\ i = UpdateIf(answer.input, input)
        /\ o = UpdateIf(answer.output, output)
  OBVIOUS
<1>6. AfterResponse(op, answer, d) = ((((c \o l) \o h) \o r) \o i) \o o
  BY <1>5 DEF AfterResponse, Served
<1>7. /\ c \in Seq(Measured) /\ l \in Seq(Measured) /\ h \in Seq(Measured)
      /\ r \in Seq(Measured) /\ i \in Seq(Measured) /\ o \in Seq(Measured)
  <2>1. \A s \in Counters, k \in Nat : UpdateIf(k, s) \in Seq(Measured)
    BY MeasuredCounter DEF UpdateIf
  <2>2. Update(latency, d) \in Measured
    BY <1>1, MeasuredDuration
  <2>3. c \in Seq(Measured)
    BY <1>5, CountedCallMeasured DEF Statuses
  <2> QED
    <3>1. l \in Seq(Measured)
      BY <1>5, <2>2
    <3>2. h \in Seq(Measured)
      BY <1>1, <1>3, <1>5, <2>1
    <3>3. r \in Seq(Measured) /\ i \in Seq(Measured) /\ o \in Seq(Measured)
      BY <1>1, <1>3, <1>5, <2>1
    <3> QED
      BY <2>3, <3>1, <3>2, <3>3
<1>8. /\ Distinct(c) /\ Named(c) = {one, all} /\ \A q : Amount(c, q) = IF q \in {one, all} THEN 1 ELSE 0
  BY <1>5, AmountCall DEF Statuses
<1>9. Distinct(l) /\ Named(l) = {latency} /\ \A q : Amount(l, q) = IF q = latency THEN d ELSE 0
  BY <1>5, AmountOne
<1> HIDE DEF n, one, all, latency, hits, retries, input, output
<1>10. Distinct(h) /\ Named(h) \subseteq {hits} /\ \A q : Amount(h, q) = IF q = hits THEN n ELSE 0
  BY <1>3, <1>5, AmountOptional
<1>11. Distinct(r) /\ Named(r) \subseteq {retries} /\ \A q : Amount(r, q) = IF q = retries THEN answer.attempt ELSE 0
  BY <1>3, <1>5, AmountOptional
<1>12. Distinct(i) /\ Named(i) \subseteq {input} /\ \A q : Amount(i, q) = IF q = input THEN answer.input ELSE 0
  BY <1>3, <1>5, AmountOptional
<1>13. Distinct(o) /\ Named(o) \subseteq {output} /\ \A q : Amount(o, q) = IF q = output THEN answer.output ELSE 0
  BY <1>3, <1>5, AmountOptional
<1>14. PICK v : v = c \o l
  OBVIOUS
<1>15. /\ v \in Seq(Measured) /\ Distinct(v) /\ Named(v) = {one, all, latency}
       /\ \A q : Amount(v, q) = Amount(c, q) + Amount(l, q)
  <2>1. Named(c) \cap Named(l) = {}
    BY <1>2, <1>8, <1>9
  <2> QED
    <3>1. /\ v \in Seq(Measured) /\ Distinct(v) /\ Named(v) = Named(c) \cup Named(l)
          /\ \A q : Amount(v, q) = Amount(c, q) + Amount(l, q)
      <4>1. Distinct(c) /\ Distinct(l)
        BY <1>8, <1>9
      <4> QED
        BY <1>7, <1>14, <2>1, <4>1, AmountJoined
    <3>2. Named(v) = {one, all, latency}
      BY <1>8, <1>9, <3>1
    <3> QED
      BY <3>1, <3>2
<1>16. PICK w : w = v \o h
  OBVIOUS
<1>17. /\ w \in Seq(Measured) /\ Distinct(w)
       /\ Named(w) \subseteq {one, all, latency, hits} /\ latency \in Named(w)
       /\ \A q : Amount(w, q) = Amount(v, q) + Amount(h, q)
  <2>1. Named(v) \cap Named(h) = {}
    BY <1>2, <1>10, <1>15
  <2>2. Named(w) = Named(v) \cup Named(h)
    BY <1>7, <1>10, <1>15, <1>16, <2>1, AmountJoined
  <2>3. Named(w) \subseteq {one, all, latency, hits} /\ latency \in Named(w)
    BY <1>10, <1>15, <2>2
  <2> QED
    BY <1>7, <1>10, <1>15, <1>16, <2>1, <2>3, AmountJoined
<1>18. PICK x : x = w \o r
  OBVIOUS
<1>19. /\ x \in Seq(Measured) /\ Distinct(x)
       /\ Named(x) \subseteq {one, all, latency, hits, retries} /\ latency \in Named(x)
       /\ \A q : Amount(x, q) = Amount(w, q) + Amount(r, q)
  <2>1. Named(w) \cap Named(r) = {}
    BY <1>2, <1>11, <1>17
  <2>2. Named(x) = Named(w) \cup Named(r)
    BY <1>7, <1>11, <1>17, <1>18, <2>1, AmountJoined
  <2>3. Named(x) \subseteq {one, all, latency, hits, retries} /\ latency \in Named(x)
    BY <1>11, <1>17, <2>2
  <2> QED
    BY <1>7, <1>11, <1>17, <1>18, <2>1, <2>3, AmountJoined
<1>20. PICK y : y = x \o i
  OBVIOUS
<1>21. /\ y \in Seq(Measured) /\ Distinct(y)
       /\ Named(y) \subseteq {one, all, latency, hits, retries, input} /\ latency \in Named(y)
       /\ \A q : Amount(y, q) = Amount(x, q) + Amount(i, q)
  <2>1. Named(x) \cap Named(i) = {}
    BY <1>2, <1>12, <1>19
  <2>2. Named(y) = Named(x) \cup Named(i)
    BY <1>7, <1>12, <1>19, <1>20, <2>1, AmountJoined
  <2>3. Named(y) \subseteq {one, all, latency, hits, retries, input} /\ latency \in Named(y)
    BY <1>12, <1>19, <2>2
  <2> QED
    BY <1>7, <1>12, <1>19, <1>20, <2>1, <2>3, AmountJoined
<1>22. PICK z : z = y \o o
  OBVIOUS
<1>23. /\ z \in Seq(Measured) /\ Distinct(z)
       /\ Named(z) \subseteq {one, all, latency, hits, retries, input, output} /\ latency \in Named(z)
       /\ \A q : Amount(z, q) = Amount(y, q) + Amount(o, q)
  <2>1. Named(y) \cap Named(o) = {}
    BY <1>2, <1>13, <1>21
  <2>2. Named(z) = Named(y) \cup Named(o)
    BY <1>7, <1>13, <1>21, <1>22, <2>1, AmountJoined
  <2>3. Named(z) \subseteq {one, all, latency, hits, retries, input, output} /\ latency \in Named(z)
    BY <1>13, <1>21, <2>2
  <2> QED
    BY <1>7, <1>13, <1>21, <1>22, <2>1, <2>3, AmountJoined
<1>24. z = AfterResponse(op, answer, d)
  BY <1>6, <1>14, <1>16, <1>18, <1>20, <1>22
<1>25. \A q : Amount(z, q) = (IF q \in {one, all} THEN 1 ELSE 0) + (IF q = latency THEN d ELSE 0)
            + (IF q = hits THEN n ELSE 0) + (IF q = retries THEN answer.attempt ELSE 0)
            + (IF q = input THEN answer.input ELSE 0) + (IF q = output THEN answer.output ELSE 0)
  BY <1>8, <1>9, <1>10, <1>11, <1>12, <1>13, <1>15, <1>17, <1>19, <1>21, <1>23
<1>26. ASSUME NEW s \in Counters PROVE Amount(z, s) = Worth(s, op, "success", answer)
  <2>1. s # latency
    BY <1>1, CountersApart
  <2>2. CASE s \in {one, all}
    BY <1>2, <1>3, <1>4, <1>25, <2>2
  <2>3. CASE s = hits
    BY <1>2, <1>3, <1>4, <1>25, <2>3
  <2>4. CASE s = retries
    BY <1>2, <1>3, <1>4, <1>25, <2>4
  <2>5. CASE s = input
    BY <1>2, <1>3, <1>4, <1>25, <2>5
  <2>6. CASE s = output
    BY <1>2, <1>3, <1>4, <1>25, <2>6
  <2>7. CASE s \notin {one, all, hits, retries, input, output}
    BY <1>3, <1>4, <1>25, <2>1, <2>7
  <2> QED
    BY <2>2, <2>3, <2>4, <2>5, <2>6, <2>7
<1>27. Amount(z, latency) = d
  BY <1>2, <1>3, <1>25
<1>28. Named(z) \cap Histograms = {latency}
  BY <1>1, <1>23, CountersApart
<1> QED
  BY <1>23, <1>24, <1>26, <1>27, <1>28 DEF latency

LEMMA OnErrorAmounts ==
    ASSUME NEW op \in Operations, NEW answer
    PROVE  LET u == OnError(op)
           IN  /\ Distinct(u) /\ Named(u) \cap Histograms = {}
               /\ \A s \in Counters : Amount(u, s) = Worth(s, op, "error", answer)
<1> DEFINE one == <<"uai_requests_total", op, "error">>
           all == <<"uai_provider_requests_total", "error">>
           errors == <<"uai_errors_total", op>>
<1>1. one \in Counters /\ all \in Counters /\ errors \in Counters
  BY DEF Counters, Statuses
<1>2. one # all /\ errors \notin {one, all}
  OBVIOUS
<1>3. \A s : Worth(s, op, "error", answer) = IF s \in {one, all, errors} THEN 1 ELSE 0
  BY DEF Worth
<1>4. PICK c, e : c = CountedCall(op, "error") /\ e = <<Update(errors, 1)>>
  OBVIOUS
<1>5. c \in Seq(Measured) /\ e \in Seq(Measured)
  BY <1>1, <1>4, CountedCallMeasured, MeasuredCounter DEF Statuses
<1>6. Distinct(c) /\ Named(c) = {one, all} /\ \A q : Amount(c, q) = IF q \in {one, all} THEN 1 ELSE 0
  BY <1>4, AmountCall DEF Statuses
<1>7. Distinct(e) /\ Named(e) = {errors} /\ \A q : Amount(e, q) = IF q = errors THEN 1 ELSE 0
  BY <1>4, AmountOne
<1>8. OnError(op) = c \o e
  BY <1>4 DEF OnError
<1> HIDE DEF one, all, errors
<1>9. Named(c) \cap Named(e) = {}
  BY <1>2, <1>6, <1>7
<1>10. /\ Distinct(c \o e) /\ Named(c \o e) = Named(c) \cup Named(e)
       /\ \A q : Amount(c \o e, q) = Amount(c, q) + Amount(e, q)
  BY <1>5, <1>6, <1>7, <1>9, AmountJoined
<1>11. \A s : Amount(c \o e, s) = Worth(s, op, "error", answer)
  BY <1>2, <1>3, <1>6, <1>7, <1>10
<1>12. Named(c \o e) \cap Histograms = {}
  BY <1>1, <1>6, <1>7, <1>10, CountersApart
<1> QED
  BY <1>8, <1>10, <1>11, <1>12
-----------------------------------------------------------------------------
(* Each unit of a counter is stored, due, or lost to a race.               *)

\* A thread is in the midst of an update of s.
Mid(t, s) == step[t] # "begin" /\ Current(t) = s

\* Without a race only one thread is.
Alone(s) == s \notin raced => \A t, u \in Threads : Mid(t, s) /\ Mid(u, s) => t = u

DueInv ==
    /\ \A t \in Threads : Distinct(todo[t])
    /\ \A s \in Series : IsFiniteSet(Due(todo, s)) /\ Alone(s)

\* What is stored, or read and about to be stored, and what is due are never
\* more than the ideal counter, and just that without a race.
CounterBook(s) ==
    LET due == Cardinality(Due(todo, s)) IN
    /\ counters[s] + due <= ideal.counters[s]
    /\ \A t \in Threads : Mid(t, s) => read[t] + due <= ideal.counters[s]
    /\ s \notin raced => /\ counters[s] + due = ideal.counters[s]
                         /\ \A t \in Threads : Mid(t, s) => read[t] = counters[s]

CountersInv == ~torn => \A s \in Counters : CounterBook(s)

LEMMA NothingDue ==
    ASSUME NEW f, NEW s, \A t \in Threads : f[t] = <<>>
    PROVE  Due(f, s) = {} /\ IsFiniteSet(Due(f, s)) /\ Cardinality(Due(f, s)) = 0
<1>1. \A t \in Threads : Amount(f[t], s) = 0
  BY AmountEmpty
<1>2. Due(f, s) = {}
  <2> SUFFICES ASSUME NEW x \in Threads \X Nat, x[2] \in 1..Amount(f[x[1]], s) PROVE FALSE
    BY DEF Due
  <2>1. x[1] \in Threads
    OBVIOUS
  <2>2. Amount(f[x[1]], s) = 0
    BY <1>1, <2>1
  <2> QED
    BY <2>2
<1> QED
  BY <1>2, FS_EmptySet

LEMMA DueInvInit == Init => DueInv /\ CountersInv
<1> SUFFICES ASSUME Init PROVE DueInv /\ CountersInv
  OBVIOUS
<1>1. /\ \A t \in Threads : todo[t] = <<>> /\ step[t] = "begin"
      /\ \A s \in Counters : counters[s] = ideal.counters[s] /\ counters[s] \in Nat
  <2>1. TypeInv
    BY TypeInvInit
  <2> QED
    BY <2>1 DEF Init, InitRegistry, TypeInv, Registered
<1>2. DueInv
  BY <1>1, NothingDue, AmountEmpty DEF DueInv, Alone, Mid
<1>3. \A s : Cardinality(Due(todo, s)) = 0
  BY <1>1, NothingDue
<1>4. \A t \in Threads : \A s : ~Mid(t, s)
  BY <1>1 DEF Mid
<1> QED
  BY <1>1, <1>2, <1>3, <1>4 DEF CountersInv, CounterBook

LEMMA AloneKept ==
    ASSUME NEW s, Alone(s), raced \subseteq raced', \A t \in Threads : Mid(t, s)' => Mid(t, s)
    PROVE  Alone(s)'
BY DEF Alone

\* A thread begins an update.
LEMMA AloneBegun ==
    ASSUME Located, NEW s, Alone(s), NEW t \in Threads, Begins(t), todo' = todo,
           NEW to, step' = [step EXCEPT ![t] = to], step \in [Threads -> {"begin", "write", "bucket", "bucket write"}]
    PROVE  /\ Alone(s)' /\ raced \subseteq raced'
           /\ \A u \in Threads : u # t => (Mid(u, s)' <=> Mid(u, s))
           /\ s # Current(t) => ~Mid(t, s)'
           /\ s \notin raced' => \A u \in Threads : Mid(u, s) /\ s = Current(t) => u = t
<1>1. \A u \in Threads : u # t => (Mid(u, s)' <=> Mid(u, s))
  BY DEF Mid, Current
<1>2. s # Current(t) => ~Mid(t, s)'
  BY DEF Mid, Current
<1>3. \A u \in Threads : Mid(u, s) => Recording(u) /\ step[u] # "begin" /\ Current(u) = s
  BY DEF Located, Mid, Recording
<1>4. raced \subseteq raced'
  BY DEF Begins
<1>5. s \notin raced' => \A u \in Threads : Mid(u, s) /\ s = Current(t) => u = t
  BY <1>3 DEF Begins
<1>6. Alone(s)'
  <2> SUFFICES ASSUME s \notin raced', NEW u \in Threads, NEW v \in Threads, Mid(u, s)', Mid(v, s)'
               PROVE  u = v
    BY DEF Alone
  <2>1. CASE s = Current(t)
    BY <1>1, <1>5, <2>1
  <2>2. CASE s # Current(t)
    BY <1>1, <1>2, <1>4, <2>2 DEF Alone
  <2> QED
    BY <2>1, <2>2
<1> QED
  BY <1>1, <1>2, <1>4, <1>5, <1>6

\* Another update, or a hook, ends or begins.
LEMMA DueInvChange ==
    ASSUME Types, DueInv, NEW t \in Threads, NEW v \in Seq(Measured), Distinct(v),
           todo' = [todo EXCEPT ![t] = v], step'[t] = "begin",
           \A u \in Threads : u # t => step'[u] = step[u], raced' = raced
    PROVE  /\ DueInv'
           /\ \A s, u : u \in Threads /\ Mid(u, s)' => u # t /\ Mid(u, s)
           /\ \A s \in Series :
                 /\ Cardinality(Due(todo, s)) \in Nat /\ Cardinality(Due(todo', s)) \in Nat
                 /\ Cardinality(Due(todo', s)) + Amount(todo[t], s) = Cardinality(Due(todo, s)) + Amount(v, s)
<1>1. todo \in [Threads -> Seq(Measured)]
  BY DEF Types
<1>2. \A s, u : u \in Threads /\ Mid(u, s)' => u # t /\ Mid(u, s)
  BY <1>1 DEF Mid, Current
<1>3. \A s \in Series :
         /\ IsFiniteSet(Due(todo', s))
         /\ Cardinality(Due(todo, s)) \in Nat /\ Cardinality(Due(todo', s)) \in Nat
         /\ Cardinality(Due(todo', s)) + Amount(todo[t], s) = Cardinality(Due(todo, s)) + Amount(v, s)
  <2> SUFFICES ASSUME NEW s \in Series
               PROVE  /\ IsFiniteSet(Due(todo', s))
                      /\ Cardinality(Due(todo, s)) \in Nat /\ Cardinality(Due(todo', s)) \in Nat
                      /\ Cardinality(Due(todo', s)) + Amount(todo[t], s) = Cardinality(Due(todo, s)) + Amount(v, s)
    OBVIOUS
  <2>1. IsFiniteSet(Due(todo, s))
    BY DEF DueInv
  <2> QED
    BY <1>1, <2>1, DueChange
<1>4. \A u \in Threads : Distinct(todo'[u])
  BY <1>1 DEF DueInv
<1>5. \A s \in Series : Alone(s)'
  BY <1>2, AloneKept DEF DueInv
<1>6. DueInv'
  BY <1>3, <1>4, <1>5 DEF DueInv, Due
<1> QED
  BY <1>2, <1>3, <1>6
LEMMA CounterKept ==
    ASSUME NEW s, CounterBook(s), counters'[s] = counters[s], ideal'.counters[s] = ideal.counters[s],
           Cardinality(Due(todo', s)) = Cardinality(Due(todo, s)), raced \subseteq raced',
           \A t \in Threads : Mid(t, s)' => Mid(t, s) /\ read'[t] = read[t]
    PROVE  CounterBook(s)'
BY DEF CounterBook, Due

LEMMA HookCounters ==
    ASSUME Types, TypeInv, DueInv, CountersInv, NEW t \in Threads, InHook(t)
    PROVE  DueInv' /\ CountersInv'
<1> USE DEF TypeInv
<1> DEFINE c == Current(t)
<1>0. /\ todo \in [Threads -> Seq(Measured)] /\ read \in [Threads -> Nat]
      /\ step \in [Threads -> {"begin", "write", "bucket", "bucket write"}]
      /\ counters \in [Counters -> Nat] /\ ideal.counters \in [Counters -> Nat]
      /\ Counters \subseteq Series /\ Histograms \subseteq Series
  BY DEF Types, Registered, Ideals, Series
<1>0a. torn' = torn /\ ideal' = ideal
  BY DEF InHook, IncrementRead, IncrementWrite, ObserveGet, Observes, BucketRead, BucketWrite, ObserveStore,
         StoreThen, Return, Aside, history
<1>1. CASE IncrementRead(t)
  <2>1. /\ step' = [step EXCEPT ![t] = "write"] /\ Begins(t) /\ c \in Counters
        /\ read' = [read EXCEPT ![t] = counters[c]]
        /\ todo' = todo /\ counters' = counters
    BY <1>1 DEF IncrementRead, At, registry
  <2>2. \A s : Alone(s) =>
           /\ Alone(s)' /\ raced \subseteq raced'
           /\ \A u \in Threads : u # t => (Mid(u, s)' <=> Mid(u, s))
           /\ s # c => ~Mid(t, s)'
           /\ s \notin raced' => \A u \in Threads : Mid(u, s) /\ s = c => u = t
    BY <1>0, <2>1, AloneBegun
  <2>3. DueInv'
    BY <2>1, <2>2 DEF DueInv, Due
  <2>4. ASSUME ~torn, NEW s \in Counters PROVE CounterBook(s)'
    <3>1. Alone(s) /\ CounterBook(s)
      BY <1>0, <2>4 DEF DueInv, CountersInv
    <3>2. CASE s # c
      <4>1. \A u \in Threads : Mid(u, s)' => Mid(u, s) /\ read'[u] = read[u]
        BY <1>0, <2>1, <2>2, <3>1, <3>2
      <4> QED
        BY <1>0a, <2>1, <2>2, <3>1, <4>1, CounterKept
    <3>3. CASE s = c
      <4>1. \A u \in Threads : u # t => read'[u] = read[u]
        BY <1>0, <2>1
      <4>2. read'[t] = counters[s]
        BY <1>0, <2>1, <3>3
      <4>3. \A u \in Threads : Mid(u, s)' => u = t \/ Mid(u, s)
        BY <2>2, <3>1
      <4>4. s \notin raced' => s \notin raced /\ \A u \in Threads : Mid(u, s) => u = t
        BY <2>2, <3>1, <3>3
      <4>5. Due(todo', s) = Due(todo, s)
        BY <2>1
      <4> QED
        BY <1>0a, <2>1, <3>1, <4>1, <4>2, <4>3, <4>4, <4>5 DEF CounterBook, Due
    <3> QED
      BY <3>2, <3>3
  <2> QED
    BY <1>0a, <2>3, <2>4 DEF CountersInv
<1>2. CASE IncrementWrite(t) \/ ObserveStore(t)
  <2>1. /\ todo[t] # <<>> /\ step[t] # "begin"
        /\ todo' = [todo EXCEPT ![t] = Tail(@)] /\ step' = [step EXCEPT ![t] = "begin"]
        /\ raced' = raced
    BY <1>2 DEF IncrementWrite, ObserveStore, StoreThen, Recording, EndUpdate
  <2>2. PICK u \in Seq(Measured) : u = todo[t]
    BY <1>0
  <2>3. PICK v : v = Tail(u)
    OBVIOUS
  <2>4. u # <<>> /\ Distinct(u) /\ v \in Seq(Measured) /\ Head(u).value \in Nat /\ c = Head(u).series
    BY <2>1, <2>2, <2>3, HeadMeasured DEF DueInv, Current
  <2>5. /\ Distinct(v)
        /\ Amount(u, c) = Head(u).value /\ Amount(v, c) = 0
        /\ \A s : s # c => Amount(v, s) = Amount(u, s)
    BY <2>3, <2>4, AmountTail
  <2>6. todo' = [todo EXCEPT ![t] = v] /\ step'[t] = "begin" /\ \A w \in Threads : w # t => step'[w] = step[w]
    BY <1>0, <2>1, <2>2, <2>3
  <2>7. /\ DueInv'
        /\ \A s, w : w \in Threads /\ Mid(w, s)' => w # t /\ Mid(w, s)
        /\ \A s \in Series :
              /\ Cardinality(Due(todo, s)) \in Nat /\ Cardinality(Due(todo', s)) \in Nat
              /\ Cardinality(Due(todo', s)) + Amount(todo[t], s) = Cardinality(Due(todo, s)) + Amount(v, s)
    BY <2>1, <2>4, <2>5, <2>6, DueInvChange
  <2>8. \A w \in Threads : w # t => read'[w] = read[w]
    BY <1>0, <1>2 DEF IncrementWrite, ObserveStore, StoreThen
  <2>9. /\ \A s \in Counters : s # c => counters'[s] = counters[s]
        /\ c \in Counters => step[t] = "write" /\ counters'[c] = read[t] + Head(u).value
    <3>1. CASE IncrementWrite(t)
      BY <1>0, <2>2, <3>1 DEF IncrementWrite
    <3>2. CASE ObserveStore(t)
      BY <3>2, CountersApart DEF ObserveStore, StoreThen, Located
    <3> QED
      BY <1>2, <3>1, <3>2
  <2> HIDE DEF c
  <2>10. ASSUME ~torn, NEW s \in Counters PROVE CounterBook(s)'
    <3>1. CounterBook(s) /\ s \in Series
      BY <1>0, <2>10 DEF CountersInv
    <3>2. CASE s # c
      <4>1. Amount(v, s) = Amount(todo[t], s) /\ Amount(v, s) \in Nat
        BY <2>2, <2>4, <2>5, <3>2, AmountType
      <4>2. Cardinality(Due(todo', s)) = Cardinality(Due(todo, s))
        BY <2>7, <3>1, <4>1
      <4>3. \A w \in Threads : Mid(w, s)' => Mid(w, s) /\ read'[w] = read[w]
        BY <2>7, <2>8
      <4> QED
        BY <1>0a, <2>1, <2>9, <3>1, <3>2, <4>2, <4>3, CounterKept
    <3>3. CASE s = c
      <4>1. PICK n \in Nat : n = Head(u).value
        BY <2>4
      <4>2. PICK due \in Nat, rest \in Nat : due = Cardinality(Due(todo, s)) /\ rest = Cardinality(Due(todo', s))
        BY <2>7, <3>1
      <4>3. rest + n = due
        BY <2>2, <2>5, <2>7, <3>1, <3>3, <4>1, <4>2
      <4>4. Mid(t, s) /\ counters'[s] = read[t] + n
        BY <2>1, <2>9, <3>3, <4>1 DEF Mid, c
      <4>5. PICK r \in Nat, worth \in Nat, old \in Nat :
               r = read[t] /\ worth = ideal.counters[s] /\ old = counters[s]
        BY <1>0, <3>1
      <4>6. r + due <= worth
        BY <3>1, <4>2, <4>4, <4>5 DEF CounterBook
      <4>7. counters'[s] + rest <= worth
        BY <4>3, <4>4, <4>5, <4>6
      <4>8. ASSUME NEW w \in Threads, Mid(w, s)' PROVE read'[w] + rest <= worth
        <5>1. read'[w] = read[w] /\ Mid(w, s)
          BY <2>7, <2>8, <4>8
        <5>2. read[w] + due <= worth /\ read[w] \in Nat
          BY <1>0, <3>1, <4>2, <4>5, <5>1 DEF CounterBook
        <5> QED
          BY <4>3, <5>1, <5>2
      <4>9. ASSUME s \notin raced
            PROVE  counters'[s] + rest = worth /\ \A w \in Threads : ~Mid(w, s)'
        <5>1. old + due = worth /\ r = old
          BY <3>1, <4>2, <4>4, <4>5, <4>9 DEF CounterBook
        <5>2. \A w \in Threads : Mid(w, s) => w = t
          BY <3>1, <4>4, <4>9 DEF DueInv, Alone
        <5>3. counters'[s] = r + n
          BY <4>4, <4>5
        <5>3a. r + n + rest = worth
          BY <4>3, <5>1
        <5>4. \A w \in Threads : ~Mid(w, s)'
          BY <2>7, <5>2
        <5> QED
          BY <5>3, <5>3a, <5>4
      <4> QED
        BY <1>0a, <2>1, <4>2, <4>5, <4>7, <4>8, <4>9 DEF CounterBook, Due
    <3> QED
      BY <3>2, <3>3
  <2> QED
    BY <1>0a, <2>7, <2>10 DEF CountersInv
<1>3. CASE ObserveGet(t)
  <2>1. /\ step' = [step EXCEPT ![t] = "bucket"] /\ Begins(t) /\ c \in Histograms
        /\ read' = read /\ todo' = todo /\ counters' = counters
    BY <1>3 DEF ObserveGet, Observes, At, registry
  <2>2. \A s : Alone(s) =>
           /\ Alone(s)' /\ raced \subseteq raced'
           /\ \A u \in Threads : u # t => (Mid(u, s)' <=> Mid(u, s))
           /\ s # c => ~Mid(t, s)'
    BY <1>0, <2>1, AloneBegun
  <2>3. DueInv'
    BY <2>1, <2>2 DEF DueInv, Due
  <2>4. ASSUME ~torn, NEW s \in Counters PROVE CounterBook(s)'
    <3>1. Alone(s) /\ CounterBook(s) /\ s # c
      BY <1>0, <2>1, <2>4, CountersApart DEF DueInv, CountersInv
    <3>2. \A u \in Threads : Mid(u, s)' => Mid(u, s) /\ read'[u] = read[u]
      BY <2>1, <2>2, <3>1
    <3> QED
      BY <1>0a, <2>1, <2>2, <3>1, <3>2, CounterKept
  <2> QED
    BY <1>0a, <2>3, <2>4 DEF CountersInv
<1>4. CASE BucketRead(t) \/ BucketWrite(t)
  <2>1. /\ todo' = todo /\ counters' = counters /\ raced' = raced
        /\ step[t] # "begin" /\ c \in Histograms
        /\ \A u \in Threads : u # t => step'[u] = step[u] /\ read'[u] = read[u]
        /\ step'[t] # "begin"
    BY <1>0, <1>4 DEF BucketRead, BucketWrite, At, Located, registry
  <2>2. \A u \in Threads : \A s : Mid(u, s)' <=> Mid(u, s)
    BY <2>1 DEF Mid, Current
  <2>3. DueInv'
    BY <2>1, <2>2 DEF DueInv, Due, Alone
  <2>4. ASSUME ~torn, NEW s \in Counters PROVE CounterBook(s)'
    <3>1. CounterBook(s) /\ ~Mid(t, s)
      BY <2>1, <2>4, CountersApart DEF CountersInv, Mid
    <3>2. \A u \in Threads : Mid(u, s)' => Mid(u, s) /\ read'[u] = read[u]
      BY <2>1, <2>2, <3>1
    <3> QED
      BY <1>0a, <2>1, <3>1, <3>2, CounterKept
  <2> QED
    BY <1>0a, <2>3, <2>4 DEF CountersInv
<1>5. CASE Return(t)
  <2>1. UNCHANGED <<counters, todo, step, read, raced, torn, ideal>>
    BY <1>5 DEF Return, registry, locals, history
  <2> QED
    BY <2>1 DEF DueInv, CountersInv, CounterBook, Alone, Mid, Current, Due
<1> QED
  BY <1>1, <1>2, <1>3, <1>4, <1>5 DEF InHook
LEMMA WayCounters ==
    ASSUME Types, TypeInv, DueInv, CountersInv, NEW t \in Threads,
           \/ BeforeRequest(t) \/ HaltEarly(t) \/ FirstChunk(t) \/ Lose(t)
           \/ FinishSpan(t, "ok") \/ FinishSpan(t, "error")
           \/ FinishOtelSpan(t) \/ BeginHook(t)
    PROVE  DueInv' /\ CountersInv'
<1> USE DEF TypeInv
<1>0. /\ todo \in [Threads -> Seq(Measured)]
      /\ counters \in [Counters -> Nat] /\ ideal \in Ideals
      /\ Counters \subseteq Series /\ Histograms \subseteq Series
  BY DEF Types, Registered, Series
<1>1. UNCHANGED <<counters, step, read, raced, torn>>
  BY DEF BeforeRequest, HaltEarly, Send, FirstChunk, Lose, FinishSpan, Finishes, FinishOtelSpan, BeginHook,
         Rest, registry, locals
<1>2. CASE UNCHANGED <<todo, ideal>>
  BY <1>1, <1>2 DEF DueInv, CountersInv, CounterBook, Alone, Mid, Current, Due
\* A hook begins, with updates v, and the ideal counters grow by as much.
<1>3. ASSUME NEW v \in Seq(Measured), Distinct(v), todo' = [todo EXCEPT ![t] = v], todo[t] = <<>>,
             \A s \in Counters : ideal'.counters[s] = ideal.counters[s] + Amount(v, s)
      PROVE  DueInv' /\ CountersInv'
  <2>1. step[t] = "begin"
    BY <1>3 DEF Located, Registered
  <2>2. /\ DueInv'
        /\ \A s, u : u \in Threads /\ Mid(u, s)' => u # t /\ Mid(u, s)
        /\ \A s \in Series :
              /\ Cardinality(Due(todo, s)) \in Nat /\ Cardinality(Due(todo', s)) \in Nat
              /\ Cardinality(Due(todo', s)) + Amount(todo[t], s) = Cardinality(Due(todo, s)) + Amount(v, s)
    <3>1. step'[t] = "begin" /\ (\A u \in Threads : u # t => step'[u] = step[u]) /\ raced' = raced
      BY <1>1, <2>1
    <3> QED
      BY <1>3, <3>1, DueInvChange
  <2>3. ASSUME ~torn, NEW s \in Counters PROVE CounterBook(s)'
    <3>1. CounterBook(s)
      BY <2>3 DEF CountersInv
    <3>2. PICK due \in Nat, more \in Nat, n \in Nat :
             due = Cardinality(Due(todo, s)) /\ more = Cardinality(Due(todo', s)) /\ n = Amount(v, s)
      BY <1>0, <2>2, AmountType
    <3>3. more = due + n
      <4>1. Amount(todo[t], s) = 0
        BY <1>3, AmountEmpty
      <4>2. more + 0 = due + n
        BY <1>0, <2>2, <3>2, <4>1
      <4> QED
        BY <4>2
    <3>4. PICK worth \in Nat, c \in Nat : worth = ideal.counters[s] /\ c = counters[s]
      BY <1>0 DEF Ideals
    <3>5. ideal'.counters[s] = worth + n /\ counters'[s] = c
      BY <1>1, <1>3, <3>2, <3>4
    <3>6. c + due <= worth
      BY <3>1, <3>2, <3>4 DEF CounterBook
    <3>7. ASSUME NEW u \in Threads, Mid(u, s)' PROVE read'[u] + more <= worth + n
      <4>1. Mid(u, s) /\ read'[u] = read[u]
        BY <1>1, <2>2, <3>7
      <4>2. PICK r \in Nat : r = read[u]
        BY DEF Registered
      <4>3. read[u] + due <= worth
        BY <3>1, <3>2, <3>4, <4>1 DEF CounterBook
      <4>4. r + due <= worth
        BY <4>2, <4>3
      <4>5. r + more <= worth + n
        BY <3>3, <4>4
      <4> QED
        BY <4>1, <4>2, <4>5
    <3>8. ASSUME s \notin raced
          PROVE  c + more = worth + n /\ \A u \in Threads : Mid(u, s)' => read'[u] = c
      <4>1. c + due = worth /\ \A u \in Threads : Mid(u, s) => read[u] = c
        BY <3>1, <3>2, <3>4, <3>8 DEF CounterBook
      <4>2. c + more = worth + n
        BY <3>3, <4>1
      <4> QED
        BY <1>1, <2>2, <4>1, <4>2
    <3> QED
      BY <1>1, <3>2, <3>3, <3>5, <3>6, <3>7, <3>8 DEF CounterBook, Due
  <2> QED
    BY <1>1, <2>2, <2>3 DEF CountersInv
<1>4. CASE FirstChunk(t)
  <2>1. PICK d \in Durations :
          /\ todo' = [todo EXCEPT ![t] = <<Update(TimeToFirstToken, d)>>]
          /\ ideal' = [ideal EXCEPT !.histograms[TimeToFirstToken] = Observed(@, d)]
    BY <1>4 DEF FirstChunk
  <2>2. TimeToFirstToken \in Histograms
    BY DEF Histograms
  <2>3. PICK v \in Seq(Measured) : v = <<Update(TimeToFirstToken, d)>>
    <3>1. PICK m : m = <<Update(TimeToFirstToken, d)>>
      OBVIOUS
    <3>2. m \in Seq(Measured)
      BY <2>2, <3>1, MeasuredDuration
    <3> QED
      BY <3>1, <3>2
  <2>4. Distinct(v) /\ \A s \in Counters : Amount(v, s) = 0
    BY <2>2, <2>3, AmountOne, CountersApart
  <2>5. \A s \in Counters : ideal'.counters[s] = ideal.counters[s] + Amount(v, s)
    BY <1>0, <2>1, <2>4 DEF Ideals
  <2>6. todo[t] = <<>>
    BY <1>4 DEF FirstChunk, Goto, Located
  <2> QED
    BY <1>3, <2>1, <2>3, <2>4, <2>5, <2>6
<1>5. CASE BeginHook(t)
  <2>1. todo[t] = <<>>
    BY <1>5 DEF BeginHook, Goto, Located
  <2>2. operation[t] \in Operations
    BY DEF Types
  <2>3. CASE \E answer \in Answers, d \in Durations :
                /\ todo' = [todo EXCEPT ![t] = AfterResponse(operation[t], answer, d)]
                /\ ideal'.counters = Counted(operation[t], "success", answer)
    <3>1. PICK answer \in Answers, d \in Durations :
                /\ todo' = [todo EXCEPT ![t] = AfterResponse(operation[t], answer, d)]
                /\ ideal'.counters = Counted(operation[t], "success", answer)
      BY <2>3
    <3>2. PICK v \in Seq(Measured) : v = AfterResponse(operation[t], answer, d)
      BY <2>2, AfterResponseMeasured
    <3>3. Distinct(v) /\ \A s \in Counters : Amount(v, s) = Worth(s, operation[t], "success", answer)
      <4>1. /\ Distinct(AfterResponse(operation[t], answer, d))
            /\ \A s \in Counters : Amount(AfterResponse(operation[t], answer, d), s) =
                                     Worth(s, operation[t], "success", answer)
        BY <2>2, AfterResponseAmounts
      <4> QED
        BY <3>2, <4>1
    <3>4. \A s \in Counters : ideal'.counters[s] = ideal.counters[s] + Amount(v, s)
      BY <3>1, <3>3 DEF Counted
    <3> QED
      BY <1>3, <2>1, <3>1, <3>2, <3>3, <3>4
  <2>4. CASE \E answer \in Answers :
                /\ todo' = [todo EXCEPT ![t] = OnError(operation[t])]
                /\ ideal'.counters = Counted(operation[t], "error", answer)
    <3>1. PICK answer \in Answers :
                /\ todo' = [todo EXCEPT ![t] = OnError(operation[t])]
                /\ ideal'.counters = Counted(operation[t], "error", answer)
      BY <2>4
    <3>2. PICK v \in Seq(Measured) : v = OnError(operation[t])
      BY <2>2, OnErrorMeasured
    <3>3. Distinct(v) /\ \A s \in Counters : Amount(v, s) = Worth(s, operation[t], "error", answer)
      BY <2>2, <3>2, OnErrorAmounts
    <3>4. \A s \in Counters : ideal'.counters[s] = ideal.counters[s] + Amount(v, s)
      BY <3>1, <3>3 DEF Counted
    <3> QED
      BY <1>3, <2>1, <3>1, <3>2, <3>3, <3>4
  <2>5. CASE /\ span[t] # "error"
             /\ \E answer \in Answers, duration \in Durations :
                   /\ todo' = [todo EXCEPT ![t] = AfterResponse(operation[t], answer, duration)]
                   /\ ideal' = [counters |-> Counted(operation[t], "success", answer),
                                histograms |-> [ideal.histograms EXCEPT
                                    ![<<"uai_request_duration_seconds", operation[t]>>] =
                                        Observed(@, duration)]]
    <3>1. PICK answer \in Answers, d \in Durations :
                   /\ todo' = [todo EXCEPT ![t] = AfterResponse(operation[t], answer, d)]
                   /\ ideal' = [counters |-> Counted(operation[t], "success", answer),
                                histograms |-> [ideal.histograms EXCEPT
                                    ![<<"uai_request_duration_seconds", operation[t]>>] =
                                        Observed(@, d)]]
      BY <2>5
    <3>2. ideal'.counters = Counted(operation[t], "success", answer)
      BY <3>1
    <3> QED
      BY <2>3, <3>1, <3>2
  <2>6. CASE /\ todo' = [todo EXCEPT ![t] = OnError(operation[t])]
             /\ \E answer \in Answers :
                   ideal' = [ideal EXCEPT !.counters = Counted(operation[t], "error", answer)]
    BY <1>0, <2>4, <2>6 DEF Ideals
  <2> QED
    BY <1>5, <2>5, <2>6 DEF BeginHook
<1>6. CASE \/ BeforeRequest(t) \/ HaltEarly(t) \/ Lose(t)
           \/ FinishSpan(t, "ok") \/ FinishSpan(t, "error") \/ FinishOtelSpan(t)
  <2>1. UNCHANGED <<todo, ideal>>
    BY <1>6 DEF BeforeRequest, HaltEarly, Send, Lose, FinishSpan, Finishes, FinishOtelSpan
  <2> QED
    BY <1>2, <2>1
<1> QED
  BY <1>4, <1>5, <1>6

\* clear() meets no hook: nothing is due.
LEMMA NothingAtWork ==
    ASSUME Located, ~AtWork
    PROVE  /\ \A s : Cardinality(Due(todo, s)) = 0
           /\ \A t \in Threads : todo[t] = <<>> /\ step[t] = "begin"
<1>1. \A t \in Threads : todo[t] = <<>> /\ step[t] = "begin"
  BY DEF AtWork, Recording, Located
<1> QED
  BY <1>1, NothingDue

LEMMA CountersStep ==
    ASSUME Types, TypeInv, DueInv, CountersInv, [Next]_vars PROVE DueInv' /\ CountersInv'
<1>1. CASE \E t \in Threads : BeforeRequest(t) \/ HaltEarly(t) \/ OnTheWay(t)
  BY <1>1, HookCounters, WayCounters DEF OnTheWay
<1>2. CASE ClearCounters \/ ClearHistograms
  <2>1. /\ torn' = (torn \/ AtWork)
        /\ UNCHANGED <<todo, step, read, raced>>
    BY <1>2 DEF ClearCounters, ClearHistograms, Clear, locals
  <2>2. DueInv'
    BY <2>1 DEF DueInv, Alone, Mid, Current, Due
  <2>3. ASSUME ~torn' PROVE \A s \in Counters : CounterBook(s)'
    <3>1. ~torn /\ ~AtWork
      BY <2>1, <2>3
    <3>2. /\ \A s : Cardinality(Due(todo, s)) = 0
          /\ \A t \in Threads : \A s : ~Mid(t, s)'
      BY <2>1, <3>1, NothingAtWork DEF TypeInv, Mid
    <3>3. \/ \A s \in Counters : counters'[s] = 0 /\ ideal'.counters[s] = 0
          \/ counters' = counters /\ ideal'.counters = ideal.counters
      <4>1. ideal \in Ideals
        BY DEF TypeInv, Registered
      <4>2. CASE ClearCounters
        BY <4>1, <4>2 DEF ClearCounters, NoCounters, Ideals
      <4>3. CASE ClearHistograms
        BY <4>1, <4>3 DEF ClearHistograms, Ideals
      <4> QED
        BY <1>2, <4>2, <4>3
    <3>4. \A s \in Counters : CounterBook(s)
      BY <3>1 DEF CountersInv
    <3>5. CASE \A s \in Counters : counters'[s] = 0 /\ ideal'.counters[s] = 0
      BY <2>1, <3>2, <3>5 DEF CounterBook, Due
    <3>6. CASE counters' = counters /\ ideal'.counters = ideal.counters
      BY <2>1, <3>2, <3>4, <3>6 DEF CounterBook, Due
    <3> QED
      BY <3>3, <3>5, <3>6
  <2> QED
    BY <2>2, <2>3 DEF CountersInv
<1>3. CASE UNCHANGED vars
  BY <1>3 DEF vars, registry, locals, history, DueInv, CountersInv, CounterBook, Alone, Mid, Current, Due
<1> QED
  BY <1>1, <1>2, <1>3 DEF Next, Stop

LEMMA CountersInvariant == Spec => [](IInv /\ TypeInv /\ DueInv /\ CountersInv)
<1>1. IInv /\ TypeInv /\ DueInv /\ CountersInv /\ [Next]_vars => DueInv' /\ CountersInv'
  BY CountersStep DEF IInv
<1> QED
  BY TypesInvariant, DueInvInit, <1>1, PTL DEF Spec
-----------------------------------------------------------------------------
(* Metrics, recorded spans and exported spans.                             *)

Ended(status) == {t \in Threads : span[t] = status}

\* Requests on their way that the tracing has not seen.
Unspanned == {t \in Threads : pc[t] \in {"running", "finished", "exported"} /\ span[t] = "none"}

Total(status) == ideal.counters[<<"uai_provider_requests_total", status>>]

SpansInv ==
    /\ \A t \in Threads :
          /\ pc[t] = "running" => span[t] \in {"none", "open"}
          /\ pc[t] \in {"chunk", "streaming"} => span[t] = "open"
          /\ pc[t] \in {"finished", "exported"} => span[t] # "open"
          /\ otel_span[t] # "none" => span[t] # "none"
          /\ otel_span[t] \in {"ok", "error"} => span[t] = otel_span[t]
    /\ IsFiniteSet(Ended("ok")) /\ IsFiniteSet(Ended("error")) /\ IsFiniteSet(Unspanned)

\* The requests counted so, or whose span ended so and is yet to be counted.
Failures == Total("error") + Cardinality(Ended("error"))
Successes == Total("success") + Cardinality(Ended("ok"))

\* Every span that ended is among them, and only a request that the tracing did
\* not see is there without a span.
Story(failures, successes, coming, bad, good, late) ==
    /\ bad <= failures
    /\ good <= successes
    /\ failures + successes + coming <= bad + good + late

StoryInv ==
    clear = "not called" =>
        Story(Failures, Successes, Cardinality(Unspanned), recorder.error, recorder.ok, unseen)

LEMMA StoryInit == Init => SpansInv /\ StoryInv
<1> SUFFICES ASSUME Init PROVE SpansInv /\ StoryInv
  OBVIOUS
<1>1. /\ pc = [t \in Threads |-> "idle"] /\ span = [t \in Threads |-> "none"]
      /\ otel_span = [t \in Threads |-> "none"] /\ unseen = 0
  BY DEF Init
<1>2. Ended("ok") = {} /\ Ended("error") = {} /\ Unspanned = {}
  BY <1>1 DEF Ended, Unspanned
<1>3. IsFiniteSet({}) /\ Cardinality({}) = 0
  BY FS_EmptySet
<1>4. SpansInv
  BY <1>1, <1>2, <1>3 DEF SpansInv
<1>5. Total("error") = 0 /\ recorder.error = 0 /\ Total("success") = recorder.ok /\ recorder.ok \in Nat
  <2>1. \A status \in Statuses : <<"uai_provider_requests_total", status>> \in Counters
    BY DEF Counters
  <2>2. CASE ideal = NoMetrics /\ recorder = [open |-> 0, ok |-> 0, error |-> 0]
    BY <2>1, <2>2 DEF Total, NoMetrics, NoCounters, Statuses
  <2>3. CASE /\ \E op \in Operations, answer \in Answers, duration \in Durations :
                   ideal = OneEarlier(op, answer, duration)
             /\ recorder = [open |-> 0, ok |-> 1, error |-> 0]
    <3>1. PICK op \in Operations, answer \in Answers, duration \in Durations :
             ideal = OneEarlier(op, answer, duration)
      BY <2>3
    <3>2. \A s \in Counters : ideal.counters[s] = Worth(s, op, "success", answer)
      BY <3>1 DEF OneEarlier
    <3>3. /\ Worth(<<"uai_provider_requests_total", "success">>, op, "success", answer) = 1
          /\ Worth(<<"uai_provider_requests_total", "error">>, op, "success", answer) = 0
      BY DEF Worth
    <3> QED
      BY <2>1, <2>3, <3>2, <3>3 DEF Total, Statuses
  <2> QED
    BY <2>2, <2>3 DEF Init, InitRegistry
<1>6. Failures = 0 /\ Successes = recorder.ok
  BY <1>2, <1>3, <1>5 DEF Failures, Successes
<1>7. PICK good \in Nat : good = recorder.ok
  BY <1>5
<1>8. Story(0, good, 0, 0, good, 0)
  BY DEF Story
<1> QED
  BY <1>1, <1>2, <1>3, <1>4, <1>5, <1>6, <1>7, <1>8 DEF StoryInv

\* Two sets that differ in t at most.
LEMMA SetChange ==
    ASSUME NEW S, NEW T, NEW t, IsFiniteSet(S), \A u : u # t => (u \in T <=> u \in S)
    PROVE  /\ IsFiniteSet(T) /\ Cardinality(T) \in Nat /\ Cardinality(S) \in Nat
           /\ t \in S /\ t \in T => Cardinality(T) = Cardinality(S)
           /\ t \notin S /\ t \notin T => Cardinality(T) = Cardinality(S)
           /\ t \in S /\ t \notin T => Cardinality(T) + 1 = Cardinality(S)
           /\ t \notin S /\ t \in T => Cardinality(T) = Cardinality(S) + 1
<1>1. CASE (t \in S /\ t \in T) \/ (t \notin S /\ t \notin T)
  <2>1. T = S
    BY <1>1
  <2> QED
    BY <1>1, <2>1, FS_CardinalityType
<1>2. CASE t \in S /\ t \notin T
  <2>1. T = S \ {t}
    BY <1>2
  <2>2. IsFiniteSet(T) /\ Cardinality(T) = Cardinality(S) - 1
    BY <1>2, <2>1, FS_RemoveElement
  <2> QED
    BY <1>2, <2>2, FS_CardinalityType
<1>3. CASE t \notin S /\ t \in T
  <2>1. T = S \cup {t}
    BY <1>3
  <2>2. IsFiniteSet(T) /\ Cardinality(T) = Cardinality(S) + 1
    BY <1>3, <2>1, FS_AddElement
  <2> QED
    BY <1>3, <2>2, FS_CardinalityType
<1> QED
  BY <1>1, <1>2, <1>3

\* The ideal counts of requests grow by one when the hook of the metrics begins.
LEMMA TotalsCounted ==
    ASSUME NEW op \in Operations, NEW status \in Statuses, NEW answer, ideal \in Ideals,
           ideal'.counters = Counted(op, status, answer)
    PROVE  /\ Total(status)' = Total(status) + 1
           /\ \A other \in Statuses : other # status => Total(other)' = Total(other)
<1>1. \A s \in Statuses : <<"uai_provider_requests_total", s>> \in Counters
  BY DEF Counters
<1>2. \A s \in Statuses : /\ Total(s) \in Nat
                          /\ Total(s)' = Total(s) + Worth(<<"uai_provider_requests_total", s>>, op, status, answer)
  BY <1>1 DEF Total, Counted, Ideals
<1>3. \A s \in Statuses : Worth(<<"uai_provider_requests_total", s>>, op, status, answer) =
                          IF s = status THEN 1 ELSE 0
  BY DEF Worth
<1>4. Total(status)' = Total(status) + 1
  BY <1>2, <1>3
<1>5. ASSUME NEW other \in Statuses, other # status PROVE Total(other)' = Total(other)
  <2>1. PICK n \in Nat : n = Total(other)
    BY <1>2
  <2>2. Total(other)' = n + 0
    BY <1>2, <1>3, <1>5, <2>1
  <2> QED
    BY <2>1, <2>2
<1> QED
  BY <1>4, <1>5

\* The sets of spans when only what t has may change.
LEMMA StorySets ==
    ASSUME SpansInv, NEW t \in Threads, \A u \in Threads : u # t => pc'[u] = pc[u] /\ span'[u] = span[u]
    PROVE  /\ IsFiniteSet(Ended("ok"))' /\ IsFiniteSet(Ended("error"))' /\ IsFiniteSet(Unspanned)'
           /\ \A status \in {"ok", "error"} :
                 /\ Cardinality(Ended(status)) \in Nat /\ Cardinality(Ended(status)') \in Nat
                 /\ (span[t] = status <=> span'[t] = status) =>
                       Cardinality(Ended(status)') = Cardinality(Ended(status))
                 /\ span[t] = status /\ span'[t] # status =>
                       Cardinality(Ended(status)') + 1 = Cardinality(Ended(status))
                 /\ span[t] # status /\ span'[t] = status =>
                       Cardinality(Ended(status)') = Cardinality(Ended(status)) + 1
           /\ Cardinality(Unspanned) \in Nat /\ Cardinality(Unspanned') \in Nat
           /\ (t \in Unspanned <=> t \in Unspanned') => Cardinality(Unspanned') = Cardinality(Unspanned)
           /\ t \in Unspanned /\ t \notin Unspanned' => Cardinality(Unspanned') + 1 = Cardinality(Unspanned)
           /\ t \notin Unspanned /\ t \in Unspanned' => Cardinality(Unspanned') = Cardinality(Unspanned) + 1
<1>1. \A status \in {"ok", "error"} :
         /\ IsFiniteSet(Ended(status))
         /\ t \in Ended(status) <=> span[t] = status
         /\ t \in Ended(status)' <=> span'[t] = status
         /\ \A u : u # t => (u \in Ended(status)' <=> u \in Ended(status))
  BY DEF SpansInv, Ended
<1>2. IsFiniteSet(Unspanned) /\ \A u : u # t => (u \in Unspanned' <=> u \in Unspanned)
  BY DEF SpansInv, Unspanned
<1> HIDE DEF Ended, Unspanned
<1>3. ASSUME NEW status \in {"ok", "error"}
      PROVE  /\ IsFiniteSet(Ended(status)')
             /\ Cardinality(Ended(status)) \in Nat /\ Cardinality(Ended(status)') \in Nat
             /\ (span[t] = status <=> span'[t] = status) =>
                   Cardinality(Ended(status)') = Cardinality(Ended(status))
             /\ span[t] = status /\ span'[t] # status =>
                   Cardinality(Ended(status)') + 1 = Cardinality(Ended(status))
             /\ span[t] # status /\ span'[t] = status =>
                   Cardinality(Ended(status)') = Cardinality(Ended(status)) + 1
  <2>1. PICK S, T : S = Ended(status) /\ T = Ended(status)'
    OBVIOUS
  <2>2. IsFiniteSet(S) /\ \A u : u # t => (u \in T <=> u \in S)
    BY <1>1, <2>1
  <2>3. /\ IsFiniteSet(T) /\ Cardinality(T) \in Nat /\ Cardinality(S) \in Nat
        /\ t \in S /\ t \in T => Cardinality(T) = Cardinality(S)
        /\ t \notin S /\ t \notin T => Cardinality(T) = Cardinality(S)
        /\ t \in S /\ t \notin T => Cardinality(T) + 1 = Cardinality(S)
        /\ t \notin S /\ t \in T => Cardinality(T) = Cardinality(S) + 1
    BY <2>2, SetChange
  <2> QED
    BY <1>1, <2>1, <2>3
<1>4. /\ IsFiniteSet(Unspanned')
      /\ Cardinality(Unspanned) \in Nat /\ Cardinality(Unspanned') \in Nat
      /\ (t \in Unspanned <=> t \in Unspanned') => Cardinality(Unspanned') = Cardinality(Unspanned)
      /\ t \in Unspanned /\ t \notin Unspanned' => Cardinality(Unspanned') + 1 = Cardinality(Unspanned)
      /\ t \notin Unspanned /\ t \in Unspanned' => Cardinality(Unspanned') = Cardinality(Unspanned) + 1
  BY <1>2, SetChange
<1> QED
  BY <1>3, <1>4

\* How the story goes on: a request is no longer expected, is sent, ends its
\* span, or is counted without one.
LEMMA StoryMoves ==
    ASSUME NEW failures \in Nat, NEW successes \in Nat, NEW coming \in Nat,
           NEW bad \in Nat, NEW good \in Nat, NEW late \in Nat,
           Story(failures, successes, coming, bad, good, late)
    PROVE  /\ Story(failures, successes, coming + 1, bad, good, late + 1)
           /\ Story(failures + 1, successes, coming, bad + 1, good, late)
           /\ Story(failures, successes + 1, coming, bad, good + 1, late)
           /\ \A left \in Nat : left + 1 = coming =>
                /\ Story(failures, successes, left, bad, good, late)
                /\ Story(failures + 1, successes, left, bad, good, late)
                /\ Story(failures, successes + 1, left, bad, good, late)
BY DEF Story

\* What the steps of the story start from.
LEMMA StoryTypes ==
    ASSUME Types, TypeInv, SpansInv
    PROVE  /\ span \in [Threads -> {"none", "open", "ok", "error"}]
           /\ otel_span \in [Threads -> {"none", "open", "ok", "error"}]
           /\ pc \in [Threads -> {"idle", "running", "chunk", "streaming", "finished", "exported", "hook"}]
           /\ recorder \in [open : Nat, ok : Nat, error : Nat] /\ ideal \in Ideals
           /\ unseen \in Nat /\ Total("error") \in Nat /\ Total("success") \in Nat
           /\ Cardinality(Ended("error")) \in Nat /\ Cardinality(Ended("ok")) \in Nat
           /\ Cardinality(Unspanned) \in Nat
<1>1. sent \in Nat
  BY TelemetryAssumption DEF Types
<1>2. \A s \in Statuses : <<"uai_provider_requests_total", s>> \in Counters
  BY DEF Counters
<1>3. ideal \in Ideals
  BY DEF TypeInv, Registered
<1>4. Total("error") \in Nat /\ Total("success") \in Nat
  BY <1>2, <1>3 DEF Total, Ideals, Statuses
<1>5. unseen \in Nat
  BY <1>1 DEF TypeInv, Traced
<1>6. /\ Cardinality(Ended("error")) \in Nat /\ Cardinality(Ended("ok")) \in Nat
      /\ Cardinality(Unspanned) \in Nat
  BY FS_CardinalityType DEF SpansInv
<1> QED
  BY <1>3, <1>4, <1>5, <1>6 DEF TypeInv, Traced, Registered

\* The numbers the story is told in.
LEMMA StoryNumbers ==
    ASSUME Types, TypeInv, SpansInv
    PROVE  /\ Failures \in Nat /\ Successes \in Nat /\ Cardinality(Unspanned) \in Nat
           /\ recorder.error \in Nat /\ recorder.ok \in Nat /\ unseen \in Nat
<1>1. PICK wrong \in Nat, right \in Nat, err \in Nat, ok \in Nat :
         /\ wrong = Total("error") /\ right = Total("success")
         /\ err = Cardinality(Ended("error")) /\ ok = Cardinality(Ended("ok"))
  BY StoryTypes
<1>2. Failures = wrong + err /\ Successes = right + ok
  BY <1>1 DEF Failures, Successes
<1>3. Failures \in Nat /\ Successes \in Nat
  BY <1>2
<1> QED
  BY <1>3, StoryTypes

\* A step that only moves a thread along, or does less.
LEMMA StoryKept ==
    ASSUME Types, TypeInv, SpansInv, StoryInv, NEW t \in Threads, unseen' = unseen, clear' = clear,
           recorder'.ok = recorder.ok, recorder'.error = recorder.error,
           \A u \in Threads : u # t => pc'[u] = pc[u] /\ span'[u] = span[u],
           span'[t] = span[t] \/ {span[t], span'[t]} \subseteq {"none", "open"},
           Total("error")' = Total("error"), Total("success")' = Total("success"),
           t \in Unspanned' => t \in Unspanned
    PROVE  StoryInv'
<1>1. /\ \A status \in {"ok", "error"} :
            (span[t] = status <=> span'[t] = status) =>
                Cardinality(Ended(status)') = Cardinality(Ended(status))
      /\ Cardinality(Unspanned') \in Nat
      /\ (t \in Unspanned <=> t \in Unspanned') => Cardinality(Unspanned') = Cardinality(Unspanned)
      /\ t \in Unspanned /\ t \notin Unspanned' => Cardinality(Unspanned') + 1 = Cardinality(Unspanned)
  BY StorySets
<1>2. Failures' = Failures /\ Successes' = Successes
  BY <1>1 DEF Failures, Successes
<1>3. PICK failures \in Nat, successes \in Nat, coming \in Nat, bad \in Nat, good \in Nat, late \in Nat, left \in Nat :
         /\ failures = Failures /\ successes = Successes /\ coming = Cardinality(Unspanned)
         /\ bad = recorder.error /\ good = recorder.ok /\ late = unseen
         /\ left = Cardinality(Unspanned')
  BY <1>1, StoryNumbers
<1>4. left = coming \/ left + 1 = coming
  BY <1>1, <1>3
<1>5. ASSUME clear = "not called" PROVE Story(failures, successes, left, bad, good, late)
  <2>1. Story(failures, successes, coming, bad, good, late)
    BY <1>3, <1>5 DEF StoryInv
  <2> QED
    BY <1>4, <2>1, StoryMoves
<1> QED
  BY <1>2, <1>3, <1>5 DEF StoryInv

LEMMA HookStory ==
    ASSUME Types, TypeInv, SpansInv, StoryInv, NEW t \in Threads, InHook(t)
    PROVE  SpansInv' /\ StoryInv'
<1> USE DEF TypeInv
<1>1. UNCHANGED <<recorder, span, otel_span, unseen, clear, ideal>>
  BY DEF InHook, IncrementRead, IncrementWrite, ObserveGet, Observes, BucketRead, BucketWrite, ObserveStore,
         StoreThen, Return, Aside, tracing, history
<1>2. \/ pc' = pc
      \/ pc[t] = "chunk" /\ pc' = [pc EXCEPT ![t] = "streaming"]
      \/ pc[t] = "hook" /\ pc' = [pc EXCEPT ![t] = "idle"]
  BY DEF InHook, IncrementRead, IncrementWrite, ObserveGet, Observes, BucketRead, BucketWrite, ObserveStore,
         StoreThen, Return, Goto, Aside
<1>3. Ended("ok")' = Ended("ok") /\ Ended("error")' = Ended("error")
  BY <1>1 DEF Ended
<1>4. Unspanned' = Unspanned
  BY <1>1, <1>2 DEF Unspanned, SpansInv, Registered
<1>5. Failures' = Failures /\ Successes' = Successes
  BY <1>1, <1>3 DEF Failures, Successes, Total
<1>6. SpansInv'
  <2>1. IsFiniteSet(Ended("ok"))' /\ IsFiniteSet(Ended("error"))' /\ IsFiniteSet(Unspanned)'
    BY <1>3, <1>4 DEF SpansInv
  <2> QED
    BY <1>1, <1>2, <2>1, ZenonT(30) DEF SpansInv, Registered
<1> QED
  BY <1>1, <1>3, <1>4, <1>5, <1>6 DEF StoryInv

\* A request is sent, or lost, or its first chunk comes.
LEMMA SendStory ==
    ASSUME Types, TypeInv, SpansInv, StoryInv, NEW t \in Threads,
           BeforeRequest(t) \/ FirstChunk(t) \/ Lose(t)
    PROVE  SpansInv' /\ StoryInv'
<1>0. /\ span[t] \in {"none", "open"}
      /\ span \in [Threads -> {"none", "open", "ok", "error"}]
      /\ otel_span \in [Threads -> {"none", "open", "ok", "error"}]
      /\ pc \in [Threads -> {"idle", "running", "chunk", "streaming", "finished", "exported", "hook"}]
      /\ recorder \in [open : Nat, ok : Nat, error : Nat] /\ ideal \in Ideals
  <2>1. pc[t] = "idle" \/ pc[t] = "running"
    BY DEF BeforeRequest, Send, FirstChunk, Lose, Goto
  <2>2. span[t] \in {"none", "open"}
    BY <2>1 DEF TypeInv, Traced, SpansInv
  <2> QED
    BY <2>2, StoryTypes
<1>1. /\ UNCHANGED <<unseen, clear>> /\ ideal'.counters = ideal.counters
      /\ recorder'.ok = recorder.ok /\ recorder'.error = recorder.error
  BY <1>0 DEF BeforeRequest, Send, FirstChunk, Lose, Rest, ForgetSpan, tracing, Ideals
<1>2. \E p \in {"running", "chunk", "idle"}, s \in {"none", "open"}, o \in {"none", "open", "ok", "error"} :
         /\ pc' = [pc EXCEPT ![t] = p]
         /\ span' = [span EXCEPT ![t] = s]
         /\ otel_span' = [otel_span EXCEPT ![t] = o]
         /\ o # "none" => s # "none"
         /\ o \in {"ok", "error"} => FALSE
         /\ p = "running" => s = "open"
         /\ p = "chunk" => s = "open"
  <2>1. CASE BeforeRequest(t)
    BY <2>1 DEF BeforeRequest, Send, Goto
  <2>2. CASE FirstChunk(t)
    <3>1. /\ pc' = [pc EXCEPT ![t] = "chunk"] /\ span[t] = "open"
          /\ span' = span /\ otel_span' = otel_span
      BY <2>2 DEF FirstChunk, Goto, tracing
    <3>2. PICK o \in {"none", "open", "ok", "error"} : o = otel_span[t] /\ o \notin {"ok", "error"}
      BY <1>0, <3>1 DEF SpansInv
    <3>3. span' = [span EXCEPT ![t] = "open"] /\ otel_span' = [otel_span EXCEPT ![t] = o]
      BY <1>0, <3>1, <3>2
    <3> QED
      BY <3>1, <3>2, <3>3
  <2>3. CASE Lose(t)
    BY <2>3 DEF Lose, Goto, ForgetSpan
  <2> QED
    BY <2>1, <2>2, <2>3
<1>3. PICK p \in {"running", "chunk", "idle"}, s \in {"none", "open"}, o \in {"none", "open", "ok", "error"} :
         /\ pc' = [pc EXCEPT ![t] = p]
         /\ span' = [span EXCEPT ![t] = s]
         /\ otel_span' = [otel_span EXCEPT ![t] = o]
         /\ o # "none" => s # "none"
         /\ o \in {"ok", "error"} => FALSE
         /\ p = "running" => s = "open"
         /\ p = "chunk" => s = "open"
  BY <1>2
<1>4. /\ \A u \in Threads : u # t => pc'[u] = pc[u] /\ span'[u] = span[u] /\ otel_span'[u] = otel_span[u]
      /\ pc'[t] = p /\ span'[t] = s /\ otel_span'[t] = o
  BY <1>0, <1>3
<1>5. SpansInv'
  <2>1. IsFiniteSet(Ended("ok"))' /\ IsFiniteSet(Ended("error"))' /\ IsFiniteSet(Unspanned)'
    BY <1>4, StorySets
  <2>2. ASSUME NEW u \in Threads
        PROVE  /\ pc'[u] = "running" => span'[u] \in {"none", "open"}
               /\ pc'[u] \in {"chunk", "streaming"} => span'[u] = "open"
               /\ pc'[u] \in {"finished", "exported"} => span'[u] # "open"
               /\ otel_span'[u] # "none" => span'[u] # "none"
               /\ otel_span'[u] \in {"ok", "error"} => span'[u] = otel_span'[u]
    <3>1. CASE u = t
      BY <1>3, <1>4, <3>1
    <3>2. CASE u # t
      BY <1>4, <3>2 DEF SpansInv
    <3> QED
      BY <3>1, <3>2
  <2> QED
    BY <2>1, <2>2 DEF SpansInv
<1>6. t \notin Unspanned'
  BY <1>3, <1>4 DEF Unspanned
<1>7. Total("error")' = Total("error") /\ Total("success")' = Total("success")
  BY <1>1 DEF Total
<1>8. StoryInv'
  BY <1>0, <1>1, <1>4, <1>6, <1>7, StoryKept
<1> QED
  BY <1>5, <1>8

\* SpansInv, when t alone changes and does so soundly.
LEMMA SpansKept ==
    ASSUME SpansInv, NEW t \in Threads,
           \A u \in Threads : u # t => pc'[u] = pc[u] /\ span'[u] = span[u] /\ otel_span'[u] = otel_span[u],
           pc'[t] \notin {"running", "chunk", "streaming"} \/ (pc'[t] = "running" /\ span'[t] = "none"),
           pc'[t] \in {"finished", "exported"} => span'[t] # "open",
           otel_span'[t] # "none" => span'[t] # "none",
           otel_span'[t] \in {"ok", "error"} => span'[t] = otel_span'[t]
    PROVE  SpansInv'
<1>1. IsFiniteSet(Ended("ok"))' /\ IsFiniteSet(Ended("error"))' /\ IsFiniteSet(Unspanned)'
  BY StorySets
<1>2. ASSUME NEW u \in Threads
      PROVE  /\ pc'[u] = "running" => span'[u] \in {"none", "open"}
             /\ pc'[u] \in {"chunk", "streaming"} => span'[u] = "open"
             /\ pc'[u] \in {"finished", "exported"} => span'[u] # "open"
             /\ otel_span'[u] # "none" => span'[u] # "none"
             /\ otel_span'[u] \in {"ok", "error"} => span'[u] = otel_span'[u]
  <2>1. CASE u = t
    BY <2>1
  <2>2. CASE u # t
    BY <2>2 DEF SpansInv
  <2> QED
    BY <2>1, <2>2
<1> QED
  BY <1>1, <1>2 DEF SpansInv

LEMMA HaltStory ==
    ASSUME Types, TypeInv, SpansInv, StoryInv, NEW t \in Threads, HaltEarly(t)
    PROVE  SpansInv' /\ StoryInv'
<1>0. /\ span \in [Threads -> {"none", "open", "ok", "error"}]
      /\ otel_span \in [Threads -> {"none", "open", "ok", "error"}]
      /\ pc \in [Threads -> {"idle", "running", "chunk", "streaming", "finished", "exported", "hook"}]
  BY StoryTypes
<1>1. /\ pc[t] = "idle" /\ pc' = [pc EXCEPT ![t] = "running"]
      /\ unseen' = unseen + 1 /\ UNCHANGED <<recorder, span, otel_span, ideal, clear>>
  BY DEF HaltEarly, Send, Goto, tracing, Rest
<1>2. span[t] = "none"
  BY <1>1 DEF TypeInv, Traced
<1>3. /\ \A u \in Threads : u # t => pc'[u] = pc[u] /\ span'[u] = span[u] /\ otel_span'[u] = otel_span[u]
      /\ pc'[t] = "running" /\ span'[t] = "none" /\ otel_span'[t] = otel_span[t] /\ otel_span[t] = "none"
  BY <1>0, <1>1, <1>2 DEF SpansInv
<1>4. SpansInv'
  BY <1>3, SpansKept
<1>5. t \notin Unspanned /\ t \in Unspanned'
  BY <1>1, <1>3 DEF Unspanned
<1>6. Failures' = Failures /\ Successes' = Successes
  BY <1>1 DEF Failures, Successes, Ended, Total
<1>7. Cardinality(Unspanned') = Cardinality(Unspanned) + 1
  BY <1>3, <1>5, StorySets
<1>8. PICK failures \in Nat, successes \in Nat, coming \in Nat, bad \in Nat, good \in Nat, late \in Nat :
         /\ failures = Failures /\ successes = Successes /\ coming = Cardinality(Unspanned)
         /\ bad = recorder.error /\ good = recorder.ok /\ late = unseen
  BY StoryNumbers
<1>9. ASSUME clear = "not called" PROVE Story(failures, successes, coming + 1, bad, good, late + 1)
  <2>1. Story(failures, successes, coming, bad, good, late)
    BY <1>8, <1>9 DEF StoryInv
  <2> QED
    BY <2>1, StoryMoves
<1>10. StoryInv'
  BY <1>1, <1>6, <1>7, <1>8, <1>9 DEF StoryInv
<1> QED
  BY <1>4, <1>10

LEMMA FinishStory ==
    ASSUME Types, TypeInv, SpansInv, StoryInv, NEW t \in Threads, NEW status \in {"ok", "error"},
           FinishSpan(t, status)
    PROVE  SpansInv' /\ StoryInv'
<1>0. /\ span \in [Threads -> {"none", "open", "ok", "error"}]
      /\ otel_span \in [Threads -> {"none", "open", "ok", "error"}]
      /\ pc \in [Threads -> {"idle", "running", "chunk", "streaming", "finished", "exported", "hook"}]
      /\ recorder \in [open : Nat, ok : Nat, error : Nat]
      /\ unseen \in Nat /\ Total("success") \in Nat /\ Total("error") \in Nat
  BY StoryTypes
<1>1. /\ pc[t] \in {"running", "streaming"} /\ pc' = [pc EXCEPT ![t] = "finished"]
      /\ UNCHANGED <<otel_span, unseen, ideal, clear>>
      /\ span[t] = "open" => /\ span' = [span EXCEPT ![t] = status]
                             /\ recorder' = [recorder EXCEPT !.open = @ - 1, ![status] = @ + 1]
      /\ span[t] # "open" => span' = span /\ recorder' = recorder
  BY <1>0 DEF FinishSpan, Finishes, Rest
<1>2. Total("error")' = Total("error") /\ Total("success")' = Total("success")
  BY <1>1 DEF Total
<1>3. \A u \in Threads : u # t => pc'[u] = pc[u] /\ span'[u] = span[u] /\ otel_span'[u] = otel_span[u]
  BY <1>0, <1>1
<1>4. pc'[t] = "finished" /\ otel_span'[t] = otel_span[t]
  BY <1>0, <1>1
<1>5. CASE span[t] = "open"
  <2>1. /\ span'[t] = status /\ span'[t] # "open" /\ span'[t] # "none"
        /\ otel_span'[t] \notin {"ok", "error"}
    BY <1>0, <1>1, <1>4, <1>5 DEF SpansInv
  <2>1a. pc'[t] \notin {"running", "chunk", "streaming"}
    BY <1>4
  <2>1b. /\ pc'[t] \notin {"running", "chunk", "streaming"} \/ (pc'[t] = "running" /\ span'[t] = "none")
         /\ pc'[t] \in {"finished", "exported"} => span'[t] # "open"
         /\ otel_span'[t] # "none" => span'[t] # "none"
         /\ otel_span'[t] \in {"ok", "error"} => span'[t] = otel_span'[t]
    BY <2>1, <2>1a
  <2>2. SpansInv'
    BY <1>3, <2>1b, SpansKept
  <2>3. t \notin Unspanned /\ t \notin Unspanned'
    BY <1>5, <2>1 DEF Unspanned
  <2>4. /\ \A s \in {"ok", "error"} :
              /\ Cardinality(Ended(s)) \in Nat
              /\ (span[t] = s <=> span'[t] = s) => Cardinality(Ended(s)') = Cardinality(Ended(s))
              /\ span[t] # s /\ span'[t] = s => Cardinality(Ended(s)') = Cardinality(Ended(s)) + 1
        /\ Cardinality(Unspanned) \in Nat /\ Cardinality(Unspanned') = Cardinality(Unspanned)
    BY <1>3, <2>3, StorySets
  <2>5. PICK failures \in Nat, successes \in Nat, coming \in Nat, bad \in Nat, good \in Nat, late \in Nat :
           /\ failures = Failures /\ successes = Successes /\ coming = Cardinality(Unspanned)
           /\ bad = recorder.error /\ good = recorder.ok /\ late = unseen
    BY StoryNumbers
  <2>6. ASSUME clear = "not called"
        PROVE  /\ Story(failures + 1, successes, coming, bad + 1, good, late)
               /\ Story(failures, successes + 1, coming, bad, good + 1, late)
    <3>1. Story(failures, successes, coming, bad, good, late)
      BY <2>5, <2>6 DEF StoryInv
    <3> QED
      BY <3>1, StoryMoves
  <2>7. PICK wrong \in Nat, right \in Nat, err \in Nat, ok \in Nat :
           /\ wrong = Total("error") /\ right = Total("success")
           /\ err = Cardinality(Ended("error")) /\ ok = Cardinality(Ended("ok"))
    BY StoryTypes
  <2>8. failures = wrong + err /\ successes = right + ok
    BY <2>5, <2>7 DEF Failures, Successes
  <2>9. CASE status = "ok"
    <3>1. recorder'.ok = good + 1 /\ recorder'.error = bad
      BY <1>0, <1>1, <1>5, <2>5, <2>9
    <3>2. Cardinality(Ended("ok")') = ok + 1 /\ Cardinality(Ended("error")') = err
      BY <1>5, <2>1, <2>4, <2>7, <2>9
    <3>3. right + (ok + 1) = successes + 1
      BY <2>8
    <3>4. Failures' = failures /\ Successes' = successes + 1
      BY <1>2, <2>7, <2>8, <3>2, <3>3 DEF Failures, Successes
    <3> QED
      BY <1>1, <2>2, <2>4, <2>5, <2>6, <3>1, <3>4 DEF StoryInv
  <2>10. CASE status = "error"
    <3>1. recorder'.ok = good /\ recorder'.error = bad + 1
      BY <1>0, <1>1, <1>5, <2>5, <2>10
    <3>2. Cardinality(Ended("ok")') = ok /\ Cardinality(Ended("error")') = err + 1
      BY <1>5, <2>1, <2>4, <2>7, <2>10
    <3>3. wrong + (err + 1) = failures + 1
      BY <2>8
    <3>4. Failures' = failures + 1 /\ Successes' = successes
      BY <1>2, <2>7, <2>8, <3>2, <3>3 DEF Failures, Successes
    <3> QED
      BY <1>1, <2>2, <2>4, <2>5, <2>6, <3>1, <3>4 DEF StoryInv
  <2> QED
    BY <2>9, <2>10
<1>6. CASE span[t] # "open"
  <2>1. pc[t] = "running" /\ span[t] = "none" /\ span'[t] = "none" /\ otel_span[t] = "none"
    BY <1>1, <1>6 DEF SpansInv
  <2>2. SpansInv'
    BY <1>3, <1>4, <2>1, SpansKept
  <2>3. t \in Unspanned
    BY <2>1 DEF Unspanned
  <2>4. StoryInv'
    BY <1>0, <1>1, <1>2, <1>3, <1>6, <2>1, <2>3, StoryKept
  <2> QED
    BY <2>2, <2>4
<1> QED
  BY <1>5, <1>6

LEMMA ExportStory ==
    ASSUME Types, TypeInv, SpansInv, StoryInv, NEW t \in Threads, FinishOtelSpan(t)
    PROVE  SpansInv' /\ StoryInv'
<1>0. /\ span \in [Threads -> {"none", "open", "ok", "error"}]
      /\ otel_span \in [Threads -> {"none", "open", "ok", "error"}]
      /\ pc \in [Threads -> {"idle", "running", "chunk", "streaming", "finished", "exported", "hook"}]
      /\ recorder \in [open : Nat, ok : Nat, error : Nat]
      /\ unseen \in Nat /\ Total("success") \in Nat
  BY StoryTypes
<1>1. /\ pc[t] = "finished" /\ pc' = [pc EXCEPT ![t] = "exported"]
      /\ UNCHANGED <<recorder, span, unseen, ideal, clear>>
      /\ \E status \in IF otel_span[t] = "open" THEN {span[t], "open"} ELSE {otel_span[t]} :
            otel_span' = [otel_span EXCEPT ![t] = status]
  BY DEF FinishOtelSpan, Goto, Rest
<1>2. PICK status \in IF otel_span[t] = "open" THEN {span[t], "open"} ELSE {otel_span[t]} :
         otel_span' = [otel_span EXCEPT ![t] = status]
  BY <1>1
<1>3. /\ \A u \in Threads : u # t => pc'[u] = pc[u] /\ span'[u] = span[u] /\ otel_span'[u] = otel_span[u]
      /\ pc'[t] = "exported" /\ span'[t] = span[t] /\ otel_span'[t] = status
  BY <1>0, <1>1, <1>2
<1>4. /\ span[t] # "open"
      /\ status # "none" => span[t] # "none"
      /\ status \in {"ok", "error"} => span[t] = status
  <2>1. /\ span[t] # "open" /\ (otel_span[t] # "none" => span[t] # "none")
        /\ otel_span[t] \in {"ok", "error"} => span[t] = otel_span[t]
    BY <1>1 DEF SpansInv
  <2>2. CASE otel_span[t] = "open"
    <3>1. status = span[t] \/ status = "open"
      BY <1>2, <2>2
    <3> QED
      BY <2>1, <2>2, <3>1
  <2>3. CASE otel_span[t] # "open"
    <3>1. status = otel_span[t]
      BY <1>2, <2>3
    <3> QED
      BY <2>1, <3>1
  <2> QED
    BY <2>2, <2>3
<1>5. SpansInv'
  <2>1. pc'[t] \notin {"running", "chunk", "streaming"}
    BY <1>3
  <2> QED
    BY <1>3, <1>4, <2>1, SpansKept
<1>6. t \in Unspanned' => t \in Unspanned
  BY <1>1, <1>3 DEF Unspanned
<1>7. Total("error")' = Total("error") /\ Total("success")' = Total("success")
  BY <1>1 DEF Total
<1>8. StoryInv'
  <2>1. recorder'.ok = recorder.ok /\ recorder'.error = recorder.error /\ recorder.ok \in Nat
    BY <1>0, <1>1
  <2> QED
    BY <1>0, <1>1, <1>3, <1>6, <1>7, <2>1, StoryKept
<1> QED
  BY <1>5, <1>8

\* The hook counts the request as its span ended, or either way without one.
LEMMA CountedSo ==
    ASSUME ideal \in Ideals, NEW t \in Threads, BeginHook(t)
    PROVE  \/ span[t] # "error" /\ \E answer : ideal'.counters = Counted(operation[t], "success", answer)
           \/ span[t] # "ok" /\ \E answer : ideal'.counters = Counted(operation[t], "error", answer)
<1>1. \/ /\ span[t] # "error"
         /\ \E answer \in Answers, duration \in Durations :
              ideal' = [counters |-> Counted(operation[t], "success", answer),
                        histograms |-> [ideal.histograms EXCEPT
                            ![<<"uai_request_duration_seconds", operation[t]>>] = Observed(@, duration)]]
      \/ /\ span[t] \in {"none", "error"}
         /\ \E answer \in Answers :
              ideal' = [ideal EXCEPT !.counters = Counted(operation[t], "error", answer)]
  BY DEF BeginHook
<1>2. CASE /\ span[t] # "error"
           /\ \E answer \in Answers, duration \in Durations :
                ideal' = [counters |-> Counted(operation[t], "success", answer),
                          histograms |-> [ideal.histograms EXCEPT
                              ![<<"uai_request_duration_seconds", operation[t]>>] = Observed(@, duration)]]
  BY <1>2
<1>3. CASE /\ span[t] \in {"none", "error"}
           /\ \E answer \in Answers :
                ideal' = [ideal EXCEPT !.counters = Counted(operation[t], "error", answer)]
  <2>1. PICK answer \in Answers : ideal' = [ideal EXCEPT !.counters = Counted(operation[t], "error", answer)]
    BY <1>3
  <2>2. ideal'.counters = Counted(operation[t], "error", answer)
    BY <2>1 DEF Ideals
  <2> QED
    BY <1>3, <2>2
<1> QED
  BY <1>1, <1>2, <1>3

\* The metrics count the request, and its span is forgotten.
LEMMA CountStory ==
    ASSUME Types, TypeInv, SpansInv, StoryInv, NEW t \in Threads, BeginHook(t)
    PROVE  SpansInv' /\ StoryInv'
<1>0. /\ span \in [Threads -> {"none", "open", "ok", "error"}]
      /\ otel_span \in [Threads -> {"none", "open", "ok", "error"}]
      /\ pc \in [Threads -> {"idle", "running", "chunk", "streaming", "finished", "exported", "hook"}]
      /\ recorder \in [open : Nat, ok : Nat, error : Nat] /\ ideal \in Ideals
      /\ unseen \in Nat /\ Total("success") \in Nat /\ Total("error") \in Nat
      /\ operation[t] \in Operations
  BY StoryTypes DEF Types
<1>1. /\ pc[t] = "exported" /\ pc' = [pc EXCEPT ![t] = "hook"]
      /\ span' = [span EXCEPT ![t] = "none"] /\ otel_span' = [otel_span EXCEPT ![t] = "none"]
      /\ UNCHANGED <<recorder, unseen, clear>>
  BY DEF BeginHook, Goto, ForgetSpan, Rest
<1>2. /\ \A u \in Threads : u # t => pc'[u] = pc[u] /\ span'[u] = span[u] /\ otel_span'[u] = otel_span[u]
      /\ pc'[t] = "hook" /\ span'[t] = "none" /\ otel_span'[t] = "none"
  BY <1>0, <1>1
<1>3. SpansInv'
  <2>1. pc'[t] \notin {"running", "chunk", "streaming"} /\ pc'[t] \notin {"finished", "exported"}
    BY <1>2
  <2>2. otel_span'[t] \notin {"ok", "error"}
    BY <1>2
  <2> QED
    BY <1>2, <2>1, <2>2, SpansKept
<1>4. span[t] \in {"none", "ok", "error"}
  BY <1>0, <1>1 DEF SpansInv
<1>5. t \notin Unspanned' /\ (t \in Unspanned <=> span[t] = "none")
  BY <1>1, <1>2 DEF Unspanned
<1>6. /\ \A s \in {"ok", "error"} :
            /\ Cardinality(Ended(s)) \in Nat /\ Cardinality(Ended(s)') \in Nat
            /\ (span[t] = s <=> span'[t] = s) => Cardinality(Ended(s)') = Cardinality(Ended(s))
            /\ span[t] = s /\ span'[t] # s => Cardinality(Ended(s)') + 1 = Cardinality(Ended(s))
      /\ Cardinality(Unspanned) \in Nat /\ Cardinality(Unspanned') \in Nat
      /\ (t \in Unspanned <=> t \in Unspanned') => Cardinality(Unspanned') = Cardinality(Unspanned)
      /\ t \in Unspanned /\ t \notin Unspanned' => Cardinality(Unspanned') + 1 = Cardinality(Unspanned)
  BY <1>2, StorySets
<1>7. \/ span[t] # "error" /\ Total("success")' = Total("success") + 1 /\ Total("error")' = Total("error")
      \/ span[t] # "ok" /\ Total("error")' = Total("error") + 1 /\ Total("success")' = Total("success")
  <2>1. "success" \in Statuses /\ "error" \in Statuses /\ "error" # "success"
    BY DEF Statuses
  <2>2. \/ span[t] # "error" /\ \E answer : ideal'.counters = Counted(operation[t], "success", answer)
        \/ span[t] # "ok" /\ \E answer : ideal'.counters = Counted(operation[t], "error", answer)
    BY <1>0, CountedSo
  <2>3. CASE span[t] # "error" /\ \E answer : ideal'.counters = Counted(operation[t], "success", answer)
    <3>1. PICK answer : ideal'.counters = Counted(operation[t], "success", answer)
      BY <2>3
    <3> QED
      BY <1>0, <2>1, <2>3, <3>1, TotalsCounted
  <2>4. CASE span[t] # "ok" /\ \E answer : ideal'.counters = Counted(operation[t], "error", answer)
    <3>1. PICK answer : ideal'.counters = Counted(operation[t], "error", answer)
      BY <2>4
    <3> QED
      BY <1>0, <2>1, <2>4, <3>1, TotalsCounted
  <2> QED
    BY <2>2, <2>3, <2>4
<1>8. PICK failures \in Nat, successes \in Nat, coming \in Nat, bad \in Nat, good \in Nat, late \in Nat :
         /\ failures = Failures /\ successes = Successes /\ coming = Cardinality(Unspanned)
         /\ bad = recorder.error /\ good = recorder.ok /\ late = unseen
  BY StoryNumbers
<1>9. PICK wrong \in Nat, right \in Nat, err \in Nat, ok \in Nat, fewer \in Nat, less \in Nat, left \in Nat :
         /\ wrong = Total("error") /\ right = Total("success")
         /\ err = Cardinality(Ended("error")) /\ ok = Cardinality(Ended("ok"))
         /\ less = Cardinality(Ended("error")') /\ fewer = Cardinality(Ended("ok")')
         /\ left = Cardinality(Unspanned')
  BY <1>0, <1>6
<1>10. /\ failures = wrong + err /\ successes = right + ok
       /\ Failures' = Total("error")' + less /\ Successes' = Total("success")' + fewer
  BY <1>8, <1>9 DEF Failures, Successes
<1>11. CASE span[t] \in {"ok", "error"}
  <2>1. left = coming
    BY <1>2, <1>5, <1>6, <1>8, <1>9, <1>11
  <2>2. Failures' = failures /\ Successes' = successes
    <3>1. CASE span[t] = "error"
      <4>1. fewer = ok /\ less + 1 = err
        BY <1>2, <1>6, <1>9, <3>1
      <4>2. Total("error")' = wrong + 1 /\ Total("success")' = right
        BY <1>7, <1>9, <3>1
      <4>3. wrong + 1 + less = wrong + err
        BY <4>1
      <4> QED
        BY <1>10, <4>1, <4>2, <4>3
    <3>2. CASE span[t] = "ok"
      <4>1. fewer + 1 = ok /\ less = err
        BY <1>2, <1>6, <1>9, <3>2
      <4>2. Total("error")' = wrong /\ Total("success")' = right + 1
        BY <1>7, <1>9, <3>2
      <4>3. right + 1 + fewer = right + ok
        BY <4>1
      <4> QED
        BY <1>10, <4>1, <4>2, <4>3
    <3> QED
      BY <1>11, <3>1, <3>2
  <2> QED
    BY <1>1, <1>3, <1>8, <1>9, <2>1, <2>2 DEF StoryInv
<1>12. CASE span[t] = "none"
  <2>1. fewer = ok /\ less = err /\ left + 1 = coming
    BY <1>2, <1>5, <1>6, <1>8, <1>9, <1>12
  <2>2. \/ Failures' = failures /\ Successes' = successes + 1
        \/ Failures' = failures + 1 /\ Successes' = successes
    <3>1. wrong + 1 + err = failures + 1 /\ right + 1 + ok = successes + 1
      BY <1>10
    <3> QED
      BY <1>7, <1>9, <1>10, <2>1, <3>1
  <2>3. ASSUME clear = "not called"
        PROVE  /\ Story(failures + 1, successes, left, bad, good, late)
               /\ Story(failures, successes + 1, left, bad, good, late)
    <3>1. Story(failures, successes, coming, bad, good, late)
      BY <1>8, <2>3 DEF StoryInv
    <3> QED
      BY <2>1, <3>1, StoryMoves
  <2> QED
    BY <1>1, <1>3, <1>8, <1>9, <2>2, <2>3 DEF StoryInv
<1> QED
  BY <1>4, <1>11, <1>12

LEMMA StoryStep ==
    ASSUME Types, TypeInv, SpansInv, StoryInv, [Next]_vars PROVE SpansInv' /\ StoryInv'
<1>1. CASE \E t \in Threads : BeforeRequest(t) \/ HaltEarly(t) \/ OnTheWay(t)
  <2>1. PICK t \in Threads : BeforeRequest(t) \/ HaltEarly(t) \/ OnTheWay(t)
    BY <1>1
  <2>2. CASE BeforeRequest(t) \/ FirstChunk(t) \/ Lose(t)
    BY <2>2, SendStory
  <2>3. CASE HaltEarly(t)
    BY <2>3, HaltStory
  <2>4. CASE FinishSpan(t, "ok") \/ FinishSpan(t, "error")
    <3>1. PICK status \in {"ok", "error"} : FinishSpan(t, status)
      BY <2>4
    <3> QED
      BY <3>1, FinishStory
  <2>5. CASE FinishOtelSpan(t)
    BY <2>5, ExportStory
  <2>6. CASE BeginHook(t)
    BY <2>6, CountStory
  <2>7. CASE InHook(t)
    BY <2>7, HookStory
  <2> QED
    BY <2>1, <2>2, <2>3, <2>4, <2>5, <2>6, <2>7 DEF OnTheWay
<1>2. CASE ClearCounters \/ ClearHistograms
  <2>1. clear' # "not called" /\ UNCHANGED <<pc, span, otel_span>>
    BY <1>2 DEF ClearCounters, ClearHistograms, Clear, tracing
  <2> QED
    BY <2>1 DEF SpansInv, StoryInv, Ended, Unspanned
<1>3. CASE UNCHANGED vars
  BY <1>3 DEF vars, registry, tracing, locals, history, SpansInv, StoryInv, Failures, Successes, Ended, Unspanned, Total
<1> QED
  BY <1>1, <1>2, <1>3 DEF Next, Stop

LEMMA ViewsFollow ==
    ASSUME TypeInv, CountersInv, SpansInv, StoryInv PROVE ViewsAgree
<1>1. ASSUME Settled, clear = "not called"
      PROVE  /\ <<"uai_provider_requests_total", "error">> \notin raced =>
                   ProviderRequests("error") \in recorder.error..(recorder.error + unseen)
             /\ <<"uai_provider_requests_total", "success">> \notin raced =>
                   ProviderRequests("success") \in recorder.ok..(recorder.ok + unseen)
             /\ /\ <<"uai_provider_requests_total", "error">> \notin raced
                /\ <<"uai_provider_requests_total", "success">> \notin raced
                => ProviderRequests("error") + ProviderRequests("success")
                      \in (recorder.error + recorder.ok)..(recorder.error + recorder.ok + unseen)
  <2>1. ~torn /\ \A t \in Threads : pc[t] = "idle" /\ todo[t] = <<>> /\ span[t] = "none"
    BY <1>1 DEF Settled, TypeInv, Located, Traced
  <2>2. Ended("ok") = {} /\ Ended("error") = {} /\ Unspanned = {}
    BY <2>1 DEF Ended, Unspanned
  <2>3. IsFiniteSet({}) /\ Cardinality({}) = 0
    BY FS_EmptySet
  <2>4. \A status \in Statuses : <<"uai_provider_requests_total", status>> \in Counters
    BY DEF Counters
  <2>5. \A s : Cardinality(Due(todo, s)) = 0
    BY <2>1, NothingDue
  <2>6. counters \in [Counters -> Nat]
    BY DEF TypeInv, Registered
  <2>7. ASSUME NEW status \in Statuses, <<"uai_provider_requests_total", status>> \notin raced
        PROVE  ProviderRequests(status) = Total(status)
    <3>1. PICK s \in Counters : s = <<"uai_provider_requests_total", status>>
      BY <2>4
    <3>2. CounterBook(s)
      BY <2>1 DEF CountersInv
    <3>3. PICK n \in Nat : n = counters[s]
      BY <2>6
    <3>4. n + 0 = ideal.counters[s]
      BY <2>5, <2>7, <3>1, <3>2, <3>3 DEF CounterBook
    <3> QED
      BY <3>1, <3>3, <3>4 DEF ProviderRequests, Total
  <2>8. recorder \in [open : Nat, ok : Nat, error : Nat] /\ unseen \in Nat
    BY DEF TypeInv, Traced
  <2>9. \A status \in Statuses : Total(status) \in Nat
    BY <2>4 DEF TypeInv, Registered, Ideals, Total
  <2>10. "success" \in Statuses /\ "error" \in Statuses
    BY DEF Statuses
  <2>11. PICK all \in Nat, wrong \in Nat, good \in Nat, bad \in Nat, late \in Nat :
           /\ all = Total("success") /\ wrong = Total("error")
           /\ good = recorder.ok /\ bad = recorder.error /\ late = unseen
    BY <2>8, <2>9, <2>10
  <2>12. Failures = wrong /\ Successes = all
    BY <2>2, <2>3, <2>11 DEF Failures, Successes
  <2>13. Story(wrong, all, 0, bad, good, late)
    BY <1>1, <2>2, <2>3, <2>11, <2>12 DEF StoryInv
  <2>14. /\ wrong \in bad..(bad + late) /\ all \in good..(good + late)
         /\ wrong + all \in (bad + good)..(bad + good + late)
    BY <2>13 DEF Story
  <2> QED
    BY <2>7, <2>10, <2>11, <2>14
<1> QED
  BY <1>1 DEF ViewsAgree, SpansInv

(***************************************************************************)
(* However the tracing and the metrics interleave, for any number of       *)
(* threads and requests: in the end each span that ended in error was      *)
(* counted as an error and each that ended well as a success, what was     *)
(* counted beyond them is at most one count of each request that the       *)
(* tracing did not see, and an OpenTelemetry span that was ended has the   *)
(* status of the recorded span (middleware/tracing.py 171-305;             *)
(* middleware/metrics.py 208-260).                                         *)
(***************************************************************************)
THEOREM ViewsTellOneStory == Spec => []ViewsAgree
<1>1. IInv /\ TypeInv /\ SpansInv /\ StoryInv /\ [Next]_vars => SpansInv' /\ StoryInv'
  BY StoryStep DEF IInv
<1>2. TypeInv /\ CountersInv /\ SpansInv /\ StoryInv => ViewsAgree
  BY ViewsFollow
<1> QED
  BY CountersInvariant, StoryInit, <1>1, <1>2, PTL DEF Spec
-----------------------------------------------------------------------------
(* Sums and counts of the histograms.                                      *)

Middle(s) == {t \in Threads : Mid(t, s)}

Own(t) == Head(todo[t]).value

\* Threads that have yet to observe in s, or have yet to store what they observe.
Waiting(f, s) == {t \in Threads : s \in Named(f[t])}

\* What is stored, or held by a thread in the midst of adding its own to it,
\* is with what is due never more than it is worth, and just that in a fair game.
Book(stored, held, own, middle, due, worth, fair) ==
    /\ stored + due <= worth
    /\ \A t \in middle : held[t] + due <= worth + own[t]
    /\ fair => /\ stored + due = worth
               /\ \A t \in middle : held[t] = stored + own[t]

SumBook(s) ==
    Book(histograms[s].sum, total, [t \in Middle(s) |-> Own(t)], Middle(s),
         Cardinality(Due(todo, s)), ideal.histograms[s].sum, s \notin raced)

CountBook(s) ==
    Book(histograms[s].count, count, [t \in Middle(s) |-> 1], Middle(s),
         Cardinality(Waiting(todo, s)), ideal.histograms[s].count, s \notin raced)

SumsInv ==
    /\ \A s \in Histograms : IsFiniteSet(Waiting(todo, s))
    /\ ~torn => \A s \in Histograms : SumBook(s) /\ CountBook(s)

-----------------------------------------------------------------------------
(* Lists of buckets.                                                       *)

Before(s) ==
    IF s = TimeToFirstToken THEN {"running"} ELSE {"running", "chunk", "streaming", "finished", "exported"}

\* The request of t may yet make a list for s.
Pending(t, s) == pc[t] \in Before(s) \/ (s \in Named(todo[t]) /\ ~Mid(t, s))

Unused(s, r) == r > sent \/ \E t \in Threads : request[t] = r /\ Pending(t, s)

Live(s) ==
    {l \in Lists : \/ histograms[s] # NoHistogram /\ l = histograms[s].list
                   \/ \E t \in Middle(s) : buckets[t] = l}

\* Each request under way has a number of its own.
Numbered ==
    /\ \A t, u \in Threads : request[t] = request[u] /\ request[t] # 0 => t = u
    /\ \A t \in Threads : IF pc[t] = "idle" THEN request[t] = 0 ELSE request[t] \in 1..sent

Placed ==
    \A t \in Threads, s \in Histograms :
        s \in Named(todo[t]) => pc[t] = IF s = TimeToFirstToken THEN "chunk" ELSE "hook"

Started == \A s \in Histograms : \A t \in Middle(s) : count[t] > 0

Unspoilt(s) == \A r \in 1..MaxRequests : Unused(s, r) => lists[s][r] = NewList /\ r \notin Live(s)

\* A list is made once, by its request.
FreshInv == Numbered /\ Placed /\ Started /\ \A s \in Histograms : Unspoilt(s)

\* Threads that have yet to add to the bucket i of s.
Short(s, i) ==
    {t \in Threads : /\ s \in Named(todo[t]) /\ Amount(todo[t], s) <= Bounds[i]
                     /\ Mid(t, s) => at[t] <= i}

BucketBook(s, i) ==
    LET short == Cardinality(Short(s, i))
        worth == ideal.histograms[s].buckets[i]
    IN  /\ short <= worth
        /\ \A l \in Live(s) : lists[s][l][i] + short <= worth
        /\ \A t \in Middle(s) : step[t] = "bucket write" /\ at[t] = i => read[t] + short <= worth
        /\ s \notin raced =>
              /\ Live(s) = {} => short = worth
              /\ \A l \in Live(s) : lists[s][l][i] + short = worth
              /\ \A t \in Middle(s) : step[t] = "bucket write" /\ at[t] = i =>
                    read[t] = lists[s][buckets[t]][i]

\* Without a race a thread adds to the list that is stored.
Shared(s) ==
    s \notin raced /\ histograms[s] # NoHistogram => \A t \in Middle(s) : buckets[t] = histograms[s].list

\* Who is about to write a bucket belongs into it.
Aimed == \A t \in Threads : step[t] = "bucket write" => Own(t) <= Bounds[at[t]]

BucketsInv ==
    /\ Aimed
    /\ \A s \in Histograms : \A i \in Buckets :
          IsFiniteSet(Short(s, i)) /\ (~torn => BucketBook(s, i) /\ Shared(s))

-----------------------------------------------------------------------------
(* What the steps do to the updates under way.                             *)

LEMMA HeadNamed ==
    ASSUME NEW u \in Seq(Measured), u # <<>> PROVE Head(u).series \in Named(u)
<1>1. 1 \in DOMAIN u /\ Head(u) = u[1]
  OBVIOUS
<1> QED
  BY <1>1 DEF Named

\* An update begins.
LEMMA BeginEffect ==
    ASSUME Types, TypeInv, NEW t \in Threads, IncrementRead(t) \/ ObserveGet(t)
    PROVE  /\ Recording(t) /\ step[t] = "begin" /\ step'[t] # "begin" /\ Begins(t)
           /\ todo' = todo /\ \A u \in Threads : u # t => step'[u] = step[u]
           /\ Current(t) \in Named(todo[t])
           /\ \A s : ~Mid(t, s) /\ (Mid(t, s)' <=> s = Current(t))
           /\ \A u \in Threads : u # t => \A s : Mid(u, s)' <=> Mid(u, s)
<1>1. /\ Recording(t) /\ step[t] = "begin" /\ todo' = todo
      /\ \E to \in {"write", "bucket"} : step' = [step EXCEPT ![t] = to]
      /\ Begins(t)
  BY DEF IncrementRead, ObserveGet, Observes, At
<1>2. /\ todo \in [Threads -> Seq(Measured)]
      /\ step \in [Threads -> {"begin", "write", "bucket", "bucket write"}]
  BY DEF Types, TypeInv, Registered
<1>3. step'[t] # "begin" /\ \A u \in Threads : u # t => step'[u] = step[u]
  BY <1>1, <1>2
<1>4. Current(t) \in Named(todo[t])
  BY <1>1, <1>2, HeadNamed DEF Recording, Current
<1>5. \A s : ~Mid(t, s) /\ (Mid(t, s)' <=> s = Current(t))
  BY <1>1, <1>3 DEF Mid, Current
<1>6. \A u \in Threads : u # t => \A s : Mid(u, s)' <=> Mid(u, s)
  BY <1>1, <1>3 DEF Mid, Current
<1> QED
  BY <1>1, <1>3, <1>4, <1>5, <1>6

\* An update ends.
LEMMA EndEffect ==
    ASSUME Types, TypeInv, DueInv, NEW t \in Threads, IncrementWrite(t) \/ ObserveStore(t)
    PROVE  /\ Recording(t) /\ Current(t) \in Named(todo[t]) /\ Current(t) \in Series
           /\ Amount(todo[t], Current(t)) = Own(t) /\ Own(t) \in Nat
           /\ Named(todo'[t]) = Named(todo[t]) \ {Current(t)}
           /\ \A s : s # Current(t) => Amount(todo'[t], s) = Amount(todo[t], s)
           /\ Amount(todo'[t], Current(t)) = 0
           /\ \A u \in Threads : u # t => todo'[u] = todo[u] /\ step'[u] = step[u]
           /\ \A s : ~Mid(t, s)' /\ (Mid(t, s) <=> s = Current(t))
           /\ \A u \in Threads : u # t => \A s : Mid(u, s)' <=> Mid(u, s)
           /\ todo'[t] \in Seq(Measured) /\ Distinct(todo'[t])
           /\ todo' = [todo EXCEPT ![t] = todo'[t]] /\ step'[t] = "begin" /\ raced' = raced
<1>1. /\ Recording(t) /\ step[t] # "begin" /\ raced' = raced
      /\ todo' = [todo EXCEPT ![t] = Tail(@)] /\ step' = [step EXCEPT ![t] = "begin"]
  BY DEF IncrementWrite, ObserveStore, StoreThen, Recording, EndUpdate
<1>2. /\ todo \in [Threads -> Seq(Measured)]
      /\ step \in [Threads -> {"begin", "write", "bucket", "bucket write"}]
  BY DEF Types, TypeInv, Registered
<1>3. PICK v \in Seq(Measured) : v = todo[t] /\ v # <<>>
  BY <1>1, <1>2 DEF Recording
<1>3a. PICK w \in Seq(Measured) : w = Tail(v)
  <2>1. Tail(v) \in Seq(Measured)
    BY <1>3
  <2> QED
    BY <2>1
<1>4. /\ todo'[t] = w /\ todo' = [todo EXCEPT ![t] = todo'[t]] /\ step'[t] = "begin"
      /\ \A u \in Threads : u # t => todo'[u] = todo[u] /\ step'[u] = step[u]
  BY <1>1, <1>2, <1>3, <1>3a
<1>5. Distinct(v)
  BY <1>3 DEF DueInv
<1>6. /\ Distinct(w) /\ Named(w) = Named(v) \ {Head(v).series}
      /\ Amount(v, Head(v).series) = Head(v).value
      /\ \A s : Amount(w, s) = IF s = Head(v).series THEN 0 ELSE Amount(v, s)
  BY <1>3, <1>3a, <1>5, AmountTail
<1>7. Current(t) = Head(v).series /\ Own(t) = Head(v).value
  BY <1>3 DEF Current, Own
<1>8. Head(v).series \in Series /\ Head(v).value \in Nat /\ Head(v).series \in Named(v)
  BY <1>3, HeadMeasured, HeadNamed DEF Measured
<1>9. \A s : ~Mid(t, s)' /\ (Mid(t, s) <=> s = Current(t))
  BY <1>1, <1>4 DEF Mid
<1>10. \A u \in Threads : u # t => \A s : Mid(u, s)' <=> Mid(u, s)
  BY <1>4 DEF Mid, Current
<1> QED
  BY <1>1, <1>3, <1>4, <1>6, <1>7, <1>8, <1>9, <1>10

\* The loop of observe() goes on.
LEMMA LoopEffect ==
    ASSUME Types, TypeInv, NEW t \in Threads, BucketRead(t) \/ BucketWrite(t)
    PROVE  /\ Recording(t) /\ Current(t) \in Histograms /\ Current(t) \in Named(todo[t]) /\ todo' = todo
           /\ raced' = raced
           /\ \A s : Mid(t, s) <=> s = Current(t)
           /\ \A u \in Threads : \A s : Mid(u, s)' <=> Mid(u, s)
           /\ \A u \in Threads : u # t => step'[u] = step[u] /\ read'[u] = read[u] /\ at'[u] = at[u]
<1>1. /\ Recording(t) /\ step[t] \in {"bucket", "bucket write"} /\ todo' = todo /\ raced' = raced
      /\ \E to \in {"bucket", "bucket write"} : step' = [step EXCEPT ![t] = to]
  BY DEF BucketRead, BucketWrite, At
<1>2. /\ todo \in [Threads -> Seq(Measured)]
      /\ step \in [Threads -> {"begin", "write", "bucket", "bucket write"}]
      /\ read \in [Threads -> Nat] /\ at \in [Threads -> 1..(Len(Bounds) + 1)]
      /\ Current(t) \in Histograms
  BY <1>1 DEF Types, TypeInv, Registered, Located
<1>3. Current(t) \in Named(todo[t])
  BY <1>1, <1>2, HeadNamed DEF Recording, Current
<1>4. \A u \in Threads : u # t => step'[u] = step[u] /\ read'[u] = read[u] /\ at'[u] = at[u]
  BY <1>1, <1>2 DEF BucketRead, BucketWrite
<1>5. step'[t] # "begin" /\ step[t] # "begin"
  BY <1>1, <1>2
<1>6. \A s : (Mid(t, s) <=> s = Current(t)) /\ (Mid(t, s)' <=> s = Current(t))
  BY <1>1, <1>5 DEF Mid, Current
<1>7. \A u \in Threads : u # t => \A s : Mid(u, s)' <=> Mid(u, s)
  BY <1>1, <1>4 DEF Mid, Current
<1> QED
  BY <1>1, <1>2, <1>3, <1>4, <1>6, <1>7

\* What a request adds to the ideal histograms is what its hook will observe.
Announced(t, v) ==
    /\ v \in Seq(Measured) /\ Distinct(v)
    /\ todo[t] = <<>> /\ todo' = [todo EXCEPT ![t] = v]
    /\ \A s \in Histograms :
          IF s \in Named(v)
          THEN /\ pc'[t] = IF s = TimeToFirstToken THEN "chunk" ELSE "hook"
               /\ Amount(v, s) \in Durations
               /\ ideal'.histograms[s] = Observed(ideal.histograms[s], Amount(v, s))
          ELSE ideal'.histograms[s] = ideal.histograms[s]

LEMMA WayEffect ==
    ASSUME Types, TypeInv, NEW t \in Threads,
           \/ BeforeRequest(t) \/ HaltEarly(t) \/ FirstChunk(t) \/ Lose(t)
           \/ FinishSpan(t, "ok") \/ FinishSpan(t, "error")
           \/ FinishOtelSpan(t) \/ BeginHook(t)
    PROVE  /\ \E v : Announced(t, v)
           /\ UNCHANGED <<histograms, lists, step, read, total, count, buckets, at, raced, torn>>
           /\ \A u \in Threads : u # t => todo'[u] = todo[u]
           /\ \A u \in Threads : \A s : Mid(u, s)' <=> Mid(u, s)
           /\ \A s : ~Mid(t, s)
<1> USE DEF TypeInv
<1>0. /\ todo \in [Threads -> Seq(Measured)] /\ ideal \in Ideals /\ operation[t] \in Operations
      /\ ideal.histograms \in [Histograms -> [sum : Nat, count : Nat, buckets : [Buckets -> Nat]]]
  BY DEF Types, Registered, Ideals
<1>1. UNCHANGED <<histograms, lists, step, read, total, count, buckets, at, raced, torn>>
  BY DEF BeforeRequest, HaltEarly, Send, FirstChunk, Lose, FinishSpan, Finishes, FinishOtelSpan, BeginHook,
         Rest, registry, locals
<1>2. pc[t] \notin {"chunk", "hook"}
  BY DEF BeforeRequest, HaltEarly, Send, FirstChunk, Lose, FinishSpan, Finishes, FinishOtelSpan, BeginHook, Goto
<1>3. todo[t] = <<>> /\ step[t] = "begin"
  BY <1>2 DEF Located
<1>4. \E v : Announced(t, v)
  <2>1. CASE FirstChunk(t)
    <3>1. PICK d \in Durations :
            /\ todo' = [todo EXCEPT ![t] = <<Update(TimeToFirstToken, d)>>]
            /\ ideal' = [ideal EXCEPT !.histograms[TimeToFirstToken] = Observed(@, d)]
      BY <2>1 DEF FirstChunk
    <3>2. TimeToFirstToken \in Histograms
      BY DEF Histograms
    <3>3. PICK v : v = <<Update(TimeToFirstToken, d)>>
      OBVIOUS
    <3>4. v \in Seq(Measured)
      BY <3>2, <3>3, MeasuredDuration
    <3>5. Distinct(v) /\ Named(v) = {TimeToFirstToken} /\ Amount(v, TimeToFirstToken) = d
      BY <3>3, AmountOne
    <3>6. pc'[t] = "chunk"
      BY <2>1 DEF FirstChunk, Goto, Registered
    <3>7. /\ ideal'.histograms[TimeToFirstToken] = Observed(ideal.histograms[TimeToFirstToken], d)
          /\ \A s \in Histograms : s # TimeToFirstToken => ideal'.histograms[s] = ideal.histograms[s]
      BY <1>0, <3>1, <3>2 DEF Ideals
    <3> QED
      BY <1>3, <3>1, <3>3, <3>4, <3>5, <3>6, <3>7 DEF Announced
  <2>2. CASE /\ BeginHook(t)
             /\ \E answer \in Answers, d \in Durations :
                  /\ todo' = [todo EXCEPT ![t] = AfterResponse(operation[t], answer, d)]
                  /\ ideal' = [counters |-> Counted(operation[t], "success", answer),
                               histograms |-> [ideal.histograms EXCEPT
                                   ![<<"uai_request_duration_seconds", operation[t]>>] = Observed(@, d)]]
    <3>1. PICK answer \in Answers, d \in Durations :
            /\ todo' = [todo EXCEPT ![t] = AfterResponse(operation[t], answer, d)]
            /\ ideal' = [counters |-> Counted(operation[t], "success", answer),
                         histograms |-> [ideal.histograms EXCEPT
                             ![<<"uai_request_duration_seconds", operation[t]>>] = Observed(@, d)]]
      BY <2>2
    <3>2. PICK latency \in Histograms : latency = <<"uai_request_duration_seconds", operation[t]>>
      BY <1>0 DEF Histograms
    <3>3. PICK v \in Seq(Measured) : v = AfterResponse(operation[t], answer, d)
      BY <1>0, AfterResponseMeasured
    <3>4. /\ Distinct(AfterResponse(operation[t], answer, d))
          /\ Amount(AfterResponse(operation[t], answer, d), <<"uai_request_duration_seconds", operation[t]>>) = d
          /\ Named(AfterResponse(operation[t], answer, d)) \cap Histograms =
                {<<"uai_request_duration_seconds", operation[t]>>}
      BY <1>0, AfterResponseAmounts
    <3>5. Distinct(v) /\ Amount(v, latency) = d /\ Named(v) \cap Histograms = {latency}
      BY <3>2, <3>3, <3>4
    <3>6. pc'[t] = "hook" /\ latency # TimeToFirstToken
      BY <2>2, <3>2 DEF BeginHook, Goto, Registered, TimeToFirstToken
    <3>7. ideal'.histograms = [ideal.histograms EXCEPT ![latency] = Observed(@, d)]
      BY <3>1, <3>2
    <3>8. /\ ideal'.histograms[latency] = Observed(ideal.histograms[latency], d)
          /\ \A s \in Histograms : s # latency => ideal'.histograms[s] = ideal.histograms[s]
      BY <1>0, <3>7
    <3>9. ASSUME NEW s \in Histograms
          PROVE  IF s \in Named(v)
                 THEN /\ pc'[t] = IF s = TimeToFirstToken THEN "chunk" ELSE "hook"
                      /\ Amount(v, s) \in Durations
                      /\ ideal'.histograms[s] = Observed(ideal.histograms[s], Amount(v, s))
                 ELSE ideal'.histograms[s] = ideal.histograms[s]
      <4>1. CASE s = latency
        BY <3>5, <3>6, <3>8, <4>1
      <4>2. CASE s # latency
        BY <3>5, <3>8, <4>2
      <4> QED
        BY <4>1, <4>2
    <3> QED
      BY <1>3, <3>1, <3>3, <3>5, <3>9 DEF Announced
  <2>3. CASE /\ BeginHook(t)
             /\ \E answer \in Answers :
                  /\ todo' = [todo EXCEPT ![t] = OnError(operation[t])]
                  /\ ideal' = [ideal EXCEPT !.counters = Counted(operation[t], "error", answer)]
    <3>1. PICK answer \in Answers :
            /\ todo' = [todo EXCEPT ![t] = OnError(operation[t])]
            /\ ideal' = [ideal EXCEPT !.counters = Counted(operation[t], "error", answer)]
      BY <2>3
    <3>2. PICK v \in Seq(Measured) : v = OnError(operation[t])
      BY <1>0, OnErrorMeasured
    <3>3. Distinct(OnError(operation[t])) /\ Named(OnError(operation[t])) \cap Histograms = {}
      BY <1>0, OnErrorAmounts
    <3>4. ideal'.histograms = ideal.histograms
      BY <1>0, <3>1 DEF Ideals
    <3> QED
      BY <1>3, <3>1, <3>2, <3>3, <3>4 DEF Announced
  <2>4. CASE \/ BeforeRequest(t) \/ HaltEarly(t) \/ Lose(t)
             \/ FinishSpan(t, "ok") \/ FinishSpan(t, "error") \/ FinishOtelSpan(t)
    <3>1. todo' = todo /\ ideal' = ideal
      BY <2>4 DEF BeforeRequest, HaltEarly, Send, Lose, FinishSpan, Finishes, FinishOtelSpan
    <3>2. PICK v \in Seq(Measured) : v = <<>>
      <4>1. <<>> \in Seq(Measured)
        OBVIOUS
      <4> QED
        BY <4>1
    <3>3. Distinct(v) /\ Named(v) = {}
      BY <3>2, AmountEmpty
    <3>4. todo' = [todo EXCEPT ![t] = v]
      BY <1>0, <1>3, <3>1, <3>2
    <3> QED
      BY <1>3, <3>1, <3>3, <3>4 DEF Announced
  <2>5. ASSUME BeginHook(t)
        PROVE  \/ \E answer \in Answers, d \in Durations :
                    /\ todo' = [todo EXCEPT ![t] = AfterResponse(operation[t], answer, d)]
                    /\ ideal' = [counters |-> Counted(operation[t], "success", answer),
                                 histograms |-> [ideal.histograms EXCEPT
                                     ![<<"uai_request_duration_seconds", operation[t]>>] = Observed(@, d)]]
               \/ \E answer \in Answers :
                    /\ todo' = [todo EXCEPT ![t] = OnError(operation[t])]
                    /\ ideal' = [ideal EXCEPT !.counters = Counted(operation[t], "error", answer)]
    BY <2>5 DEF BeginHook
  <2> QED
    BY <2>1, <2>2, <2>3, <2>4, <2>5
<1>5. \A u \in Threads : u # t => todo'[u] = todo[u]
  BY <1>0, <1>4 DEF Announced
<1>6. \A s : ~Mid(t, s) /\ ~Mid(t, s)'
  BY <1>1, <1>3 DEF Mid
<1>7. \A u \in Threads : \A s : Mid(u, s)' <=> Mid(u, s)
  BY <1>1, <1>5, <1>6 DEF Mid, Current
<1> QED
  BY <1>1, <1>4, <1>5, <1>6, <1>7

-----------------------------------------------------------------------------
(* How the books of sums and counts are kept.                              *)

\* One more thread adds its own to what is stored.
LEMMA BookBegins ==
    ASSUME NEW stored \in Nat, NEW due \in Nat, NEW worth \in Nat, NEW held, NEW own, NEW middle, NEW fair,
           Book(stored, held, own, middle, due, worth, fair),
           NEW held2, NEW own2, NEW middle2, NEW fair2, NEW t, fair2 => fair,
           \A u \in middle2 : u # t => u \in middle /\ held2[u] = held[u] /\ own2[u] = own[u],
           own2[t] \in Nat, held2[t] = stored + own2[t]
    PROVE  Book(stored, held2, own2, middle2, due, worth, fair2)
<1>1. stored + due <= worth /\ (fair => stored + due = worth)
  BY DEF Book
<1>2. PICK n \in Nat : n = own2[t]
  OBVIOUS
<1>3. held2[t] + due <= worth + own2[t]
  <2>1. stored + n + due <= worth + n
    BY <1>1
  <2> QED
    BY <1>2, <2>1
<1>4. ASSUME NEW u \in middle2
      PROVE  held2[u] + due <= worth + own2[u] /\ (fair2 => held2[u] = stored + own2[u])
  <2>1. CASE u = t
    BY <1>3, <2>1
  <2>2. CASE u # t
    BY <2>2 DEF Book
  <2> QED
    BY <2>1, <2>2
<1> QED
  BY <1>1, <1>4 DEF Book

\* A thread stores what it holds.
LEMMA BookEnds ==
    ASSUME NEW stored \in Nat, NEW due \in Nat, NEW worth \in Nat, NEW held, NEW own, NEW middle, NEW fair,
           Book(stored, held, own, middle, due, worth, fair),
           NEW held2, NEW own2, NEW middle2, NEW fair2, NEW t \in middle, NEW due2 \in Nat, fair2 => fair,
           NEW h \in Nat, NEW n \in Nat, h = held[t], n = own[t], due2 + n = due,
           \A u \in middle : held[u] \in Nat /\ own[u] \in Nat,
           \A u \in middle2 : u \in middle /\ held2[u] = held[u] /\ own2[u] = own[u],
           fair2 => middle2 = {}
    PROVE  Book(h, held2, own2, middle2, due2, worth, fair2)
<1>1. n = own[t] /\ h = held[t]
  OBVIOUS
<1>2. h + due <= worth + n /\ due2 + n = due
  BY <1>1 DEF Book
<1>3. h + due2 <= worth
  BY <1>1, <1>2
<1>4. fair => stored + due = worth /\ h = stored + n
  BY <1>1 DEF Book
<1>5. ASSUME fair PROVE h + due2 = worth
  <2>1. stored + due = worth /\ h = stored + n
    BY <1>4, <1>5
  <2> QED
    BY <1>1, <1>2, <2>1
<1>6. ASSUME NEW u \in middle2 PROVE held2[u] + due2 <= worth + own2[u]
  <2>1. PICK m \in Nat, k \in Nat : m = own[u] /\ k = held[u]
    OBVIOUS
  <2>2. k + due <= worth + m
    BY <2>1 DEF Book
  <2>3. k + due2 <= worth + m
    BY <1>1, <1>2, <2>1, <2>2
  <2> QED
    BY <2>1, <2>3
<1> QED
  BY <1>1, <1>3, <1>5, <1>6 DEF Book

LEMMA BookKept ==
    ASSUME NEW stored \in Nat, NEW due \in Nat, NEW worth \in Nat, NEW held, NEW own, NEW middle, NEW fair,
           Book(stored, held, own, middle, due, worth, fair),
           NEW held2, NEW own2, NEW middle2, NEW fair2, fair2 => fair,
           \A u \in middle2 : u \in middle /\ held2[u] = held[u] /\ own2[u] = own[u]
    PROVE  Book(stored, held2, own2, middle2, due, worth, fair2)
BY DEF Book

\* What the books of a histogram are about.
LEMMA BookTypes ==
    ASSUME Types, TypeInv, DueInv, SumsInv, NEW s \in Histograms
    PROVE  /\ histograms[s].sum \in Nat /\ histograms[s].count \in Nat
           /\ ideal.histograms[s].sum \in Nat /\ ideal.histograms[s].count \in Nat
           /\ \A i \in Buckets : ideal.histograms[s].buckets[i] \in Nat
           /\ IsFiniteSet(Due(todo, s)) /\ Cardinality(Due(todo, s)) \in Nat
           /\ IsFiniteSet(Waiting(todo, s)) /\ Cardinality(Waiting(todo, s)) \in Nat
           /\ \A t \in Threads : total[t] \in Nat /\ count[t] \in Nat
           /\ \A t \in Middle(s) : t \in Threads /\ Own(t) \in Durations /\ Own(t) \in Nat
           /\ ~torn => SumBook(s) /\ CountBook(s)
<1>1. s \in Series
  BY DEF Series
<1>2. /\ histograms[s] \in [sum : Nat, count : Nat, list : Lists]
      /\ ideal.histograms[s] \in [sum : Nat, count : Nat, buckets : [Buckets -> Nat]]
  BY DEF Types, TypeInv, Registered, Ideals
<1>3. IsFiniteSet(Due(todo, s)) /\ IsFiniteSet(Waiting(todo, s))
  BY <1>1 DEF DueInv, SumsInv
<1>4. ASSUME NEW t \in Middle(s) PROVE t \in Threads /\ Own(t) \in Durations /\ Own(t) \in Nat
  <2>1. t \in Threads /\ step[t] # "begin" /\ Current(t) = s
    BY DEF Middle, Mid
  <2>2. todo[t] \in Seq(Measured) /\ todo[t] # <<>>
    BY <2>1 DEF Types, TypeInv, Located
  <2>3. Head(todo[t]) \in Measured /\ Head(todo[t]).series = s
    BY <2>1, <2>2, HeadMeasured DEF Current
  <2> QED
    BY <2>1, <2>3, TelemetryAssumption DEF Measured, Own
<1>5. \A t \in Threads : total[t] \in Nat /\ count[t] \in Nat
  BY DEF Types
<1> QED
  BY <1>2, <1>3, <1>4, <1>5, FS_CardinalityType DEF SumsInv

LEMMA SumsInit == Init => SumsInv
<1> SUFFICES ASSUME Init PROVE SumsInv
  OBVIOUS
<1>1. \A t \in Threads : todo[t] = <<>> /\ step[t] = "begin"
  BY DEF Init
<1>2. ASSUME NEW s \in Histograms
      PROVE  Waiting(todo, s) = {} /\ Middle(s) = {} /\ Cardinality(Due(todo, s)) = 0
  <2>1. Waiting(todo, s) = {} /\ Middle(s) = {}
    BY <1>1, AmountEmpty DEF Waiting, Middle, Mid
  <2> QED
    BY <1>1, <2>1, NothingDue
<1>3. \A s \in Histograms :
         /\ histograms[s].sum = ideal.histograms[s].sum /\ histograms[s].count = ideal.histograms[s].count
         /\ histograms[s].sum \in Nat /\ histograms[s].count \in Nat
  <2>1. \A s \in Histograms : histograms[s] \in [sum : Nat, count : Nat, list : Lists]
    BY IInvInit DEF IInv, Types
  <2> QED
    BY <2>1 DEF Init, InitRegistry
<1>4. IsFiniteSet({}) /\ Cardinality({}) = 0
  BY FS_EmptySet
<1>5. ASSUME NEW s \in Histograms PROVE SumBook(s) /\ CountBook(s)
  <2>1. PICK a \in Nat, b \in Nat : a = histograms[s].sum /\ b = histograms[s].count
    BY <1>3
  <2>2. a + 0 <= a /\ a + 0 = a /\ b + 0 <= b /\ b + 0 = b
    OBVIOUS
  <2>3. ideal.histograms[s].sum = a /\ ideal.histograms[s].count = b
    BY <1>3, <2>1
  <2>4. SumBook(s)
    BY <1>2, <2>1, <2>2, <2>3 DEF SumBook, Book
  <2>5. CountBook(s)
    BY <1>2, <1>4, <2>1, <2>2, <2>3 DEF CountBook, Book
  <2> QED
    BY <2>4, <2>5
<1> QED
  BY <1>2, <1>4, <1>5 DEF SumsInv

\* The books of s after a step: what the Books say of the new state.
LEMMA BooksAre ==
    ASSUME NEW s, NEW sum, NEW n, NEW due, NEW waiting, NEW all, NEW times, NEW middle, NEW own, NEW fair,
           NEW held, NEW counted,
           sum = histograms'[s].sum, n = histograms'[s].count,
           due = Cardinality(Due(todo', s)), waiting = Cardinality(Waiting(todo', s)),
           all = ideal'.histograms[s].sum, times = ideal'.histograms[s].count,
           middle = Middle(s)', own = [t \in middle |-> Own(t)'], fair = (s \notin raced'),
           held = total', counted = count',
           Book(sum, held, own, middle, due, all, fair),
           Book(n, counted, [t \in middle |-> 1], middle, waiting, times, fair)
    PROVE  SumBook(s)' /\ CountBook(s)'
BY DEF SumBook, CountBook, Due, Waiting

\* Nothing the books of s are about has changed, but for threads that left off.
LEMMA BooksKept ==
    ASSUME Types, TypeInv, DueInv, SumsInv, NEW s \in Histograms,
           ~torn, SumBook(s), CountBook(s),
           histograms'[s] = histograms[s], ideal'.histograms[s] = ideal.histograms[s], raced \subseteq raced',
           Cardinality(Due(todo', s)) = Cardinality(Due(todo, s)),
           Cardinality(Waiting(todo', s)) = Cardinality(Waiting(todo, s)),
           \A t \in Threads : Mid(t, s)' => Mid(t, s) /\ total'[t] = total[t] /\ count'[t] = count[t]
                                            /\ todo'[t] = todo[t]
    PROVE  SumBook(s)' /\ CountBook(s)'
<1> DEFINE own == [t \in Middle(s) |-> Own(t)]
           one == [t \in Middle(s) |-> 1]
<1>1. PICK middle2, own2, one2, held2, counted2 :
         /\ middle2 = Middle(s)' /\ own2 = [t \in middle2 |-> Own(t)'] /\ one2 = [t \in middle2 |-> 1]
         /\ held2 = total' /\ counted2 = count'
  OBVIOUS
<1>2. \A u \in middle2 : /\ u \in Middle(s) /\ held2[u] = total[u] /\ counted2[u] = count[u]
                         /\ own2[u] = own[u] /\ one2[u] = one[u]
  BY <1>1 DEF Middle, Own
<1>3. PICK sum \in Nat, n \in Nat, due \in Nat, waiting \in Nat, all \in Nat, times \in Nat :
         /\ sum = histograms[s].sum /\ n = histograms[s].count
         /\ due = Cardinality(Due(todo, s)) /\ waiting = Cardinality(Waiting(todo, s))
         /\ all = ideal.histograms[s].sum /\ times = ideal.histograms[s].count
  BY BookTypes
<1>4. PICK fair, fair2 : fair = (s \notin raced) /\ fair2 = (s \notin raced')
  OBVIOUS
<1>5. fair2 => fair
  BY <1>4
<1>6. /\ Book(sum, total, own, Middle(s), due, all, fair)
      /\ Book(n, count, one, Middle(s), waiting, times, fair)
  BY <1>3, <1>4 DEF SumBook, CountBook
<1> HIDE DEF own, one
<1>7. Book(sum, held2, own2, middle2, due, all, fair2)
  BY <1>2, <1>5, <1>6, BookKept
<1>8. Book(n, counted2, one2, middle2, waiting, times, fair2)
  BY <1>2, <1>5, <1>6, BookKept
<1>9. /\ sum = histograms'[s].sum /\ n = histograms'[s].count
      /\ due = Cardinality(Due(todo', s)) /\ waiting = Cardinality(Waiting(todo', s))
      /\ all = ideal'.histograms[s].sum /\ times = ideal'.histograms[s].count
  BY <1>3
<1> QED
  BY <1>1, <1>4, <1>7, <1>8, <1>9, BooksAre

\* How the set of those waiting changes with the updates of t.
LEMMA WaitingChange ==
    ASSUME NEW s, NEW t \in Threads, IsFiniteSet(Waiting(todo, s)),
           \A u \in Threads : u # t => todo'[u] = todo[u]
    PROVE  /\ IsFiniteSet(Waiting(todo', s))
           /\ Cardinality(Waiting(todo, s)) \in Nat /\ Cardinality(Waiting(todo', s)) \in Nat
           /\ (s \in Named(todo[t]) <=> s \in Named(todo'[t])) =>
                 Cardinality(Waiting(todo', s)) = Cardinality(Waiting(todo, s))
           /\ s \in Named(todo[t]) /\ s \notin Named(todo'[t]) =>
                 Cardinality(Waiting(todo', s)) + 1 = Cardinality(Waiting(todo, s))
           /\ s \notin Named(todo[t]) /\ s \in Named(todo'[t]) =>
                 Cardinality(Waiting(todo', s)) = Cardinality(Waiting(todo, s)) + 1
<1>1. PICK S, T : S = Waiting(todo, s) /\ T = Waiting(todo', s)
  OBVIOUS
<1>2. /\ t \in S <=> s \in Named(todo[t])
      /\ t \in T <=> s \in Named(todo'[t])
      /\ \A u : u # t => (u \in T <=> u \in S)
  BY <1>1 DEF Waiting
<1>3. /\ IsFiniteSet(T) /\ Cardinality(T) \in Nat /\ Cardinality(S) \in Nat
      /\ t \in S /\ t \in T => Cardinality(T) = Cardinality(S)
      /\ t \notin S /\ t \notin T => Cardinality(T) = Cardinality(S)
      /\ t \in S /\ t \notin T => Cardinality(T) + 1 = Cardinality(S)
      /\ t \notin S /\ t \in T => Cardinality(T) = Cardinality(S) + 1
  <2>1. IsFiniteSet(S) /\ \A u : u # t => (u \in T <=> u \in S)
    BY <1>1, <1>2
  <2> QED
    BY <2>1, SetChange
<1> QED
  BY <1>1, <1>2, <1>3

\* An observation begins.
LEMMA ObserveBooks ==
    ASSUME Types, TypeInv, DueInv, SumsInv, NEW t \in Threads, ObserveGet(t), ~torn
    PROVE  SumBook(Current(t))' /\ CountBook(Current(t))'
<1>1. PICK s \in Histograms : s = Current(t)
  BY DEF ObserveGet, Observes
<1> DEFINE own == [u \in Middle(s) |-> Own(u)]
           one == [u \in Middle(s) |-> 1]
<1>2. /\ Recording(t) /\ Begins(t) /\ todo' = todo
      /\ \A u \in Threads : u # t => (Mid(u, s)' <=> Mid(u, s))
      /\ Mid(t, s)'
  BY <1>1, BeginEffect
<1>3. PICK sum \in Nat, n \in Nat, due \in Nat, waiting \in Nat, all \in Nat, times \in Nat :
         /\ sum = histograms[s].sum /\ n = histograms[s].count
         /\ due = Cardinality(Due(todo, s)) /\ waiting = Cardinality(Waiting(todo, s))
         /\ all = ideal.histograms[s].sum /\ times = ideal.histograms[s].count
  BY BookTypes
<1>4. PICK middle2, own2, one2, held2, counted2 :
         /\ middle2 = Middle(s)' /\ own2 = [u \in middle2 |-> Own(u)'] /\ one2 = [u \in middle2 |-> 1]
         /\ held2 = total' /\ counted2 = count'
  OBVIOUS
<1>5. /\ held2 = [total EXCEPT ![t] = sum + Own(t)] /\ counted2 = [count EXCEPT ![t] = n + 1]
      /\ total \in [Threads -> Nat] /\ count \in [Threads -> Nat]
  BY <1>1, <1>3, <1>4 DEF ObserveGet, Observes, Own, Types
<1>6. \A u \in middle2 : u \in Threads /\ (u # t => /\ u \in Middle(s) /\ held2[u] = total[u] /\ counted2[u] = count[u]
                                                    /\ own2[u] = own[u] /\ one2[u] = one[u])
  BY <1>2, <1>4, <1>5 DEF Middle, Own
<1>7. Own(t) \in Nat
  <2>1. todo[t] # <<>>
    BY <1>2 DEF Recording
  <2> QED
    BY <2>1, HeadMeasured DEF Own
<1>8. t \in middle2 /\ own2[t] = Own(t) /\ one2[t] = 1 /\ held2[t] = sum + own2[t] /\ counted2[t] = n + one2[t]
  BY <1>2, <1>4, <1>5 DEF Middle, Own
<1>9. PICK fair, fair2 : fair = (s \notin raced) /\ fair2 = (s \notin raced')
  OBVIOUS
<1>10. fair2 => fair
  BY <1>2, <1>9 DEF Begins
<1>11. /\ Book(sum, total, own, Middle(s), due, all, fair)
       /\ Book(n, count, one, Middle(s), waiting, times, fair)
  BY <1>3, <1>9 DEF SumBook, CountBook, SumsInv
<1> HIDE DEF own, one
<1>12. Book(sum, held2, own2, middle2, due, all, fair2)
  <2>1. own2[t] \in Nat /\ held2[t] = sum + own2[t]
    BY <1>7, <1>8
  <2>2. \A u \in middle2 : u # t => u \in Middle(s) /\ held2[u] = total[u] /\ own2[u] = own[u]
    BY <1>6
  <2>3. Book(sum, total, own, Middle(s), due, all, fair)
    BY <1>11
  <2> QED
    BY <1>10, <2>1, <2>2, <2>3, BookBegins
<1>13. Book(n, counted2, one2, middle2, waiting, times, fair2)
  <2>1. one2[t] \in Nat /\ counted2[t] = n + one2[t]
    BY <1>8
  <2>2. \A u \in middle2 : u # t => u \in Middle(s) /\ counted2[u] = count[u] /\ one2[u] = one[u]
    BY <1>6
  <2>3. Book(n, count, one, Middle(s), waiting, times, fair)
    BY <1>11
  <2> QED
    BY <1>10, <2>1, <2>2, <2>3, BookBegins
<1>14. /\ sum = histograms'[s].sum /\ n = histograms'[s].count
       /\ due = Cardinality(Due(todo', s)) /\ waiting = Cardinality(Waiting(todo', s))
       /\ all = ideal'.histograms[s].sum /\ times = ideal'.histograms[s].count
  BY <1>2, <1>3 DEF ObserveGet, Observes, registry, Aside
<1>15. SumBook(s)' /\ CountBook(s)'
  BY <1>4, <1>9, <1>12, <1>13, <1>14, BooksAre
<1>16. Current(t)' = Current(t)
  BY <1>2 DEF Current
<1> QED
  BY <1>1, <1>15, <1>16 DEF SumBook, CountBook

\* An observation is stored.
LEMMA StoreBooks ==
    ASSUME Types, TypeInv, DueInv, SumsInv, NEW t \in Threads, ObserveStore(t), ~torn, NEW s, s = Current(t)
    PROVE  SumBook(s)' /\ CountBook(s)'
<1> DEFINE own == [u \in Middle(s) |-> Own(u)]
           one == [u \in Middle(s) |-> 1]
<1>0. /\ s \in Named(todo[t]) /\ Amount(todo[t], s) = Own(t) /\ Own(t) \in Nat
      /\ Named(todo'[t]) = Named(todo[t]) \ {s} /\ Amount(todo'[t], s) = 0
      /\ \A u \in Threads : u # t => todo'[u] = todo[u] /\ step'[u] = step[u]
      /\ ~Mid(t, s)' /\ Mid(t, s)
      /\ \A u \in Threads : u # t => (Mid(u, s)' <=> Mid(u, s))
      /\ todo'[t] \in Seq(Measured) /\ Distinct(todo'[t])
      /\ todo' = [todo EXCEPT ![t] = todo'[t]] /\ step'[t] = "begin" /\ raced' = raced
  BY EndEffect
<1>1. s \in Histograms /\ s \in Series
  <2>1. step[t] = "bucket"
    BY DEF ObserveStore, StoreThen
  <2> QED
    BY <2>1 DEF TypeInv, Located, Series
<1>2. /\ histograms'[s] = [sum |-> total[t], count |-> count[t], list |-> buckets[t]]
      /\ \A u \in Threads : u # t => total'[u] = total[u] /\ count'[u] = count[u]
      /\ ideal' = ideal
  BY <1>1 DEF ObserveStore, StoreThen, Types, Aside
<1>3. PICK sum \in Nat, n \in Nat, due \in Nat, waiting \in Nat, all \in Nat, times \in Nat :
         /\ sum = histograms[s].sum /\ n = histograms[s].count
         /\ due = Cardinality(Due(todo, s)) /\ waiting = Cardinality(Waiting(todo, s))
         /\ all = ideal.histograms[s].sum /\ times = ideal.histograms[s].count
  BY <1>1, BookTypes
<1>4. PICK middle2, own2, one2, held2, counted2 :
         /\ middle2 = Middle(s)' /\ own2 = [u \in middle2 |-> Own(u)'] /\ one2 = [u \in middle2 |-> 1]
         /\ held2 = total' /\ counted2 = count'
  OBVIOUS
<1>5. PICK due2 \in Nat : due2 = Cardinality(Due(todo', s)) /\ due2 + Own(t) = due
  <2>1. /\ Cardinality(Due(todo', s)) \in Nat
        /\ Cardinality(Due(todo', s)) + Amount(todo[t], s) = Cardinality(Due(todo, s)) + Amount(todo'[t], s)
    BY <1>0, <1>1, DueInvChange
  <2>2. PICK due2 \in Nat : due2 = Cardinality(Due(todo', s))
    BY <2>1
  <2>3. due2 + Own(t) = due + 0
    BY <1>0, <1>3, <2>1, <2>2
  <2> QED
    BY <2>2, <2>3
<1>6. PICK waiting2 \in Nat : waiting2 = Cardinality(Waiting(todo', s)) /\ waiting2 + 1 = waiting
  <2>1. IsFiniteSet(Waiting(todo, s)) /\ s \notin Named(todo'[t])
    BY <1>0, <1>1 DEF SumsInv
  <2>2. /\ Cardinality(Waiting(todo', s)) \in Nat
        /\ Cardinality(Waiting(todo', s)) + 1 = Cardinality(Waiting(todo, s))
    BY <1>0, <2>1, WaitingChange
  <2> QED
    BY <1>3, <2>2
<1>7. PICK fair, fair2 : fair = (s \notin raced) /\ fair2 = (s \notin raced')
  OBVIOUS
<1>8. t \in Middle(s) /\ own[t] = Own(t) /\ one[t] = 1 /\ own[t] \in Nat /\ one[t] \in Nat
  BY <1>0 DEF Middle
<1>9. \A u \in middle2 : /\ u \in Middle(s) /\ held2[u] = total[u] /\ counted2[u] = count[u]
                         /\ own2[u] = own[u] /\ one2[u] = one[u]
  <2> SUFFICES ASSUME NEW u \in middle2
               PROVE  /\ u \in Middle(s) /\ held2[u] = total[u] /\ counted2[u] = count[u]
                      /\ own2[u] = own[u] /\ one2[u] = one[u]
    OBVIOUS
  <2>1. u \in Threads /\ Mid(u, s)' /\ u # t
    BY <1>0, <1>4 DEF Middle
  <2>2. u \in Middle(s) /\ todo'[u] = todo[u]
    BY <1>0, <2>1 DEF Middle
  <2> QED
    BY <1>2, <1>4, <2>1, <2>2 DEF Own
<1>10. (fair2 => fair) /\ (fair2 => middle2 = {})
  <2>1. ASSUME fair2 PROVE \A u \in middle2 : FALSE
    <3>1. \A u \in Threads : Mid(u, s) => u = t
      BY <1>0, <1>1, <1>7, <2>1 DEF DueInv, Alone
    <3> QED
      BY <1>0, <1>4, <3>1 DEF Middle
  <2> QED
    BY <1>0, <1>7, <2>1
<1>11. \A u \in Middle(s) : total[u] \in Nat /\ count[u] \in Nat /\ own[u] \in Nat /\ one[u] \in Nat
  BY <1>1, BookTypes
<1>12. /\ Book(sum, total, own, Middle(s), due, all, fair)
       /\ Book(n, count, one, Middle(s), waiting, times, fair)
  BY <1>1, <1>3, <1>7 DEF SumBook, CountBook, SumsInv
<1>12a. PICK sum2 \in Nat, n2 \in Nat, d \in Nat, unit \in Nat :
           sum2 = total[t] /\ n2 = count[t] /\ d = own[t] /\ unit = one[t]
  BY <1>8, <1>11
<1> HIDE DEF own, one
<1>13. Book(sum2, held2, own2, middle2, due2, all, fair2)
  <2>1. sum2 = total[t] /\ d = own[t] /\ due2 + d = due
    BY <1>5, <1>8, <1>12a
  <2>2. \A u \in Middle(s) : total[u] \in Nat /\ own[u] \in Nat
    BY <1>11
  <2>3. \A u \in middle2 : u \in Middle(s) /\ held2[u] = total[u] /\ own2[u] = own[u]
    BY <1>9
  <2>4. Book(sum, total, own, Middle(s), due, all, fair)
    BY <1>12
  <2>5. t \in Middle(s) /\ (fair2 => fair) /\ (fair2 => middle2 = {})
    BY <1>8, <1>10
  <2> QED
    BY <2>1, <2>2, <2>3, <2>4, <2>5, BookEnds, SMTT(60)
<1>14. Book(n2, counted2, one2, middle2, waiting2, times, fair2)
  <2>1. n2 = count[t] /\ unit = one[t] /\ waiting2 + unit = waiting
    BY <1>6, <1>8, <1>12a
  <2>2. \A u \in Middle(s) : count[u] \in Nat /\ one[u] \in Nat
    BY <1>11
  <2>3. \A u \in middle2 : u \in Middle(s) /\ counted2[u] = count[u] /\ one2[u] = one[u]
    BY <1>9
  <2>4. Book(n, count, one, Middle(s), waiting, times, fair)
    BY <1>12
  <2>5. t \in Middle(s) /\ (fair2 => fair) /\ (fair2 => middle2 = {})
    BY <1>8, <1>10
  <2> QED
    BY <2>1, <2>2, <2>3, <2>4, <2>5, BookEnds, SMTT(60)
<1>16. sum2 = histograms'[s].sum /\ n2 = histograms'[s].count /\ all = ideal'.histograms[s].sum
       /\ times = ideal'.histograms[s].count
  BY <1>2, <1>3, <1>12a
<1> QED
  BY <1>4, <1>5, <1>6, <1>7, <1>13, <1>14, <1>16, BooksAre

\* A request comes, or goes.
LEMMA WayBooks ==
    ASSUME Types, TypeInv, DueInv, SumsInv, NEW t \in Threads, NEW v, Announced(t, v), ~torn,
           UNCHANGED <<histograms, step, total, count, raced>>,
           \A u \in Threads : \A q : Mid(u, q)' <=> Mid(u, q), \A q : ~Mid(t, q),
           NEW s \in Histograms
    PROVE  IsFiniteSet(Waiting(todo', s)) /\ SumBook(s)' /\ CountBook(s)'
<1> DEFINE own == [u \in Middle(s) |-> Own(u)]
           one == [u \in Middle(s) |-> 1]
<1>0. /\ todo \in [Threads -> Seq(Measured)] /\ s \in Series
      /\ v \in Seq(Measured) /\ Distinct(v) /\ todo' = [todo EXCEPT ![t] = v] /\ todo[t] = <<>>
      /\ step[t] = "begin"
  BY DEF Types, Announced, Series, TypeInv, Located, Registered
<1>1. todo'[t] = v /\ \A u \in Threads : u # t => todo'[u] = todo[u]
  BY <1>0
<1>2. PICK sum \in Nat, n \in Nat, due \in Nat, waiting \in Nat, all \in Nat, times \in Nat :
         /\ sum = histograms[s].sum /\ n = histograms[s].count
         /\ due = Cardinality(Due(todo, s)) /\ waiting = Cardinality(Waiting(todo, s))
         /\ all = ideal.histograms[s].sum /\ times = ideal.histograms[s].count
  BY BookTypes
<1>3. PICK d \in Nat, one3 \in Nat : d = Amount(v, s) /\ one3 = IF s \in Named(v) THEN 1 ELSE 0
  BY <1>0, AmountType
<1>4. Cardinality(Due(todo', s)) = due + d
  <2>1. step'[t] = "begin" /\ \A u \in Threads : u # t => step'[u] = step[u]
    BY <1>0
  <2>2. /\ Cardinality(Due(todo', s)) \in Nat
        /\ Cardinality(Due(todo', s)) + Amount(todo[t], s) = Cardinality(Due(todo, s)) + Amount(v, s)
    BY <1>0, <2>1, DueInvChange
  <2>3. PICK more \in Nat : more = Cardinality(Due(todo', s))
    BY <2>2
  <2>4. Amount(todo[t], s) = 0
    BY <1>0, AmountEmpty
  <2>5. more + 0 = due + d
    BY <1>2, <1>3, <2>2, <2>3, <2>4
  <2> QED
    BY <2>3, <2>5
<1>5. IsFiniteSet(Waiting(todo', s)) /\ Cardinality(Waiting(todo', s)) = waiting + one3
  <2>1. s \notin Named(todo[t])
    BY <1>0, AmountEmpty
  <2>2. IsFiniteSet(Waiting(todo, s))
    BY DEF SumsInv
  <2>3. /\ IsFiniteSet(Waiting(todo', s))
        /\ (s \in Named(todo[t]) <=> s \in Named(todo'[t])) =>
              Cardinality(Waiting(todo', s)) = Cardinality(Waiting(todo, s))
        /\ s \notin Named(todo[t]) /\ s \in Named(todo'[t]) =>
              Cardinality(Waiting(todo', s)) = Cardinality(Waiting(todo, s)) + 1
    BY <1>1, <2>2, WaitingChange
  <2>4. CASE s \in Named(v)
    BY <1>1, <1>2, <1>3, <2>1, <2>3, <2>4
  <2>5. CASE s \notin Named(v)
    <3>1. Cardinality(Waiting(todo', s)) = waiting /\ one3 = 0
      BY <1>1, <1>2, <1>3, <2>1, <2>3, <2>5
    <3> QED
      BY <2>3, <3>1
  <2> QED
    BY <2>4, <2>5
<1>6. ideal'.histograms[s].sum = all + d /\ ideal'.histograms[s].count = times + one3
  <2>1. CASE s \in Named(v)
    <3>1. ideal'.histograms[s] = Observed(ideal.histograms[s], d)
      BY <1>3, <2>1 DEF Announced
    <3> QED
      BY <1>2, <1>3, <2>1, <3>1 DEF Observed
  <2>2. CASE s \notin Named(v)
    <3>1. d = 0 /\ one3 = 0 /\ ideal'.histograms[s] = ideal.histograms[s]
      BY <1>3, <2>2 DEF Announced, Amount
    <3> QED
      BY <1>2, <3>1
  <2> QED
    BY <2>1, <2>2
<1>7. PICK middle2, own2, one2, held2, counted2 :
         /\ middle2 = Middle(s)' /\ own2 = [u \in middle2 |-> Own(u)'] /\ one2 = [u \in middle2 |-> 1]
         /\ held2 = total' /\ counted2 = count'
  OBVIOUS
<1>8. \A u \in middle2 : /\ u \in Middle(s) /\ held2[u] = total[u] /\ counted2[u] = count[u]
                         /\ own2[u] = own[u] /\ one2[u] = one[u]
  <2> SUFFICES ASSUME NEW u \in middle2
               PROVE  /\ u \in Middle(s) /\ held2[u] = total[u] /\ counted2[u] = count[u]
                      /\ own2[u] = own[u] /\ one2[u] = one[u]
    OBVIOUS
  <2>1. u \in Middle(s) /\ u # t
    BY <1>7 DEF Middle
  <2>2. u \in Threads /\ todo'[u] = todo[u]
    BY <1>1, <2>1 DEF Middle
  <2> QED
    BY <1>7, <2>1, <2>2 DEF Own
<1>9. PICK fair, fair2 : fair = (s \notin raced) /\ fair2 = (s \notin raced')
  OBVIOUS
<1>10. fair2 => fair
  BY <1>9
<1>11. \A u \in Middle(s) : total[u] \in Nat /\ count[u] \in Nat /\ own[u] \in Nat /\ one[u] \in Nat
  BY BookTypes
<1>12. /\ Book(sum, total, own, Middle(s), due, all, fair)
       /\ Book(n, count, one, Middle(s), waiting, times, fair)
  BY <1>2, <1>9 DEF SumBook, CountBook, SumsInv
<1> HIDE DEF own, one
<1>13. PICK due2, waiting2, all2, times2 :
          due2 = due + d /\ waiting2 = waiting + one3 /\ all2 = all + d /\ times2 = times + one3
  OBVIOUS
<1>14. Book(sum, held2, own2, middle2, due2, all2, fair2)
  <2>1. \A u \in Middle(s) : total[u] \in Nat /\ own[u] \in Nat
    BY <1>11
  <2>2. \A u \in middle2 : u \in Middle(s) /\ held2[u] = total[u] /\ own2[u] = own[u]
    BY <1>8
  <2>3. Book(sum, total, own, Middle(s), due, all, fair)
    BY <1>12
  <2>4. sum + due <= all /\ (fair => sum + due = all)
    BY <2>3 DEF Book
  <2>5. sum + due2 <= all2 /\ (fair2 => sum + due2 = all2)
    BY <1>10, <1>13, <2>4
  <2>6. ASSUME NEW u \in middle2
        PROVE  /\ held2[u] + due2 <= all2 + own2[u]
               /\ fair2 => held2[u] = sum + own2[u]
    <3>1. PICK i \in Nat, k \in Nat : i = own[u] /\ k = total[u]
      BY <2>1, <2>2
    <3>2. k + due <= all + i /\ (fair => k = sum + i)
      BY <2>2, <2>3, <3>1 DEF Book
    <3>3. k + due2 <= all2 + i
      BY <1>13, <3>2
    <3> QED
      BY <1>10, <2>2, <3>1, <3>2, <3>3
  <2> QED
    BY <2>5, <2>6 DEF Book
<1>15. Book(n, counted2, one2, middle2, waiting2, times2, fair2)
  <2>1. \A u \in Middle(s) : count[u] \in Nat /\ one[u] \in Nat
    BY <1>11
  <2>2. \A u \in middle2 : u \in Middle(s) /\ counted2[u] = count[u] /\ one2[u] = one[u]
    BY <1>8
  <2>3. Book(n, count, one, Middle(s), waiting, times, fair)
    BY <1>12
  <2>4. n + waiting <= times /\ (fair => n + waiting = times)
    BY <2>3 DEF Book
  <2>5. n + waiting2 <= times2 /\ (fair2 => n + waiting2 = times2)
    BY <1>10, <1>13, <2>4
  <2>6. ASSUME NEW u \in middle2
        PROVE  /\ counted2[u] + waiting2 <= times2 + one2[u]
               /\ fair2 => counted2[u] = n + one2[u]
    <3>1. PICK i \in Nat, k \in Nat : i = one[u] /\ k = count[u]
      BY <2>1, <2>2
    <3>2. k + waiting <= times + i /\ (fair => k = n + i)
      BY <2>2, <2>3, <3>1 DEF Book
    <3>3. k + waiting2 <= times2 + i
      BY <1>13, <3>2
    <3> QED
      BY <1>10, <2>2, <3>1, <3>2, <3>3
  <2> QED
    BY <2>5, <2>6 DEF Book
<1>16. /\ sum = histograms'[s].sum /\ n = histograms'[s].count
       /\ due2 = Cardinality(Due(todo', s)) /\ waiting2 = Cardinality(Waiting(todo', s))
       /\ all2 = ideal'.histograms[s].sum /\ times2 = ideal'.histograms[s].count
  BY <1>2, <1>4, <1>5, <1>6, <1>13
<1>17. SumBook(s)' /\ CountBook(s)'
  BY <1>7, <1>9, <1>14, <1>15, <1>16, BooksAre
<1> QED
  BY <1>5, <1>17

\* Updates of other series leave the books of s alone.
LEMMA OtherBooks ==
    ASSUME Types, TypeInv, DueInv, SumsInv, NEW t \in Threads, InHook(t), NEW s \in Histograms,
           (ObserveGet(t) \/ ObserveStore(t)) => s # Current(t)
    PROVE  /\ IsFiniteSet(Waiting(todo', s))
           /\ ~torn => SumBook(s)' /\ CountBook(s)'
<1>0. /\ IsFiniteSet(Waiting(todo, s)) /\ s \in Series
      /\ Cardinality(Due(todo, s)) \in Nat
      /\ ~torn => SumBook(s) /\ CountBook(s)
      /\ todo \in [Threads -> Seq(Measured)]
      /\ total \in [Threads -> Nat] /\ count \in [Threads -> Nat]
      /\ histograms \in [Histograms -> [sum : Nat, count : Nat, list : Lists]]
  BY BookTypes DEF Series, Types
<1>1. ideal' = ideal
  BY DEF InHook, IncrementRead, IncrementWrite, ObserveGet, Observes, BucketRead, BucketWrite, ObserveStore,
         StoreThen, Return, Aside, history
<1>2. CASE IncrementRead(t) \/ ObserveGet(t)
  <2>1. /\ todo' = todo /\ Begins(t)
        /\ Mid(t, s)' <=> s = Current(t)
        /\ \A u \in Threads : u # t => (Mid(u, s)' <=> Mid(u, s))
    BY <1>2, BeginEffect
  <2>2. s # Current(t)
    BY <1>2, CountersApart DEF IncrementRead
  <2>3. raced \subseteq raced' /\ histograms'[s] = histograms[s]
    BY <1>2, <2>1 DEF Begins, IncrementRead, ObserveGet, Observes, registry
  <2>4. \A u \in Threads : u # t => total'[u] = total[u] /\ count'[u] = count[u]
    BY <1>0, <1>2 DEF IncrementRead, ObserveGet, Observes
  <2>5. \A u \in Threads : Mid(u, s)' => Mid(u, s) /\ total'[u] = total[u] /\ count'[u] = count[u]
                                         /\ todo'[u] = todo[u]
    BY <2>1, <2>2, <2>4
  <2> QED
    BY <1>0, <1>1, <2>1, <2>3, <2>5, BooksKept
<1>3. CASE IncrementWrite(t) \/ ObserveStore(t)
  <2>1. /\ \A q : q # Current(t) => Amount(todo'[t], q) = Amount(todo[t], q)
        /\ Named(todo'[t]) = Named(todo[t]) \ {Current(t)}
        /\ \A u \in Threads : u # t => todo'[u] = todo[u] /\ step'[u] = step[u]
        /\ ~Mid(t, s)' /\ Recording(t)
        /\ \A u \in Threads : u # t => (Mid(u, s)' <=> Mid(u, s))
        /\ todo'[t] \in Seq(Measured) /\ Distinct(todo'[t])
        /\ todo' = [todo EXCEPT ![t] = todo'[t]] /\ step'[t] = "begin" /\ raced' = raced
    BY <1>3, EndEffect
  <2>2. s # Current(t)
    BY <1>3, CountersApart DEF IncrementWrite, TypeInv, Located
  <2>3. Cardinality(Due(todo', s)) = Cardinality(Due(todo, s))
    <3>1. /\ Cardinality(Due(todo', s)) \in Nat
          /\ Cardinality(Due(todo', s)) + Amount(todo[t], s) = Cardinality(Due(todo, s)) + Amount(todo'[t], s)
      BY <1>0, <2>1, DueInvChange, ZenonT(30)
    <3>2. PICK a \in Nat, b \in Nat, d \in Nat :
             a = Cardinality(Due(todo', s)) /\ b = Cardinality(Due(todo, s)) /\ d = Amount(todo[t], s)
      BY <1>0, <3>1, AmountType
    <3>3. a + d = b + d
      BY <2>1, <2>2, <3>1, <3>2
    <3> QED
      BY <3>2, <3>3
  <2>4. IsFiniteSet(Waiting(todo', s)) /\ Cardinality(Waiting(todo', s)) = Cardinality(Waiting(todo, s))
    BY <1>0, <2>1, <2>2, WaitingChange
  <2>5. histograms'[s] = histograms[s] /\ \A u \in Threads : u # t => total'[u] = total[u] /\ count'[u] = count[u]
    BY <1>0, <1>3, <2>2 DEF IncrementWrite, ObserveStore, StoreThen
  <2>6. \A u \in Threads : Mid(u, s)' => Mid(u, s) /\ total'[u] = total[u] /\ count'[u] = count[u]
                                         /\ todo'[u] = todo[u]
    BY <2>1, <2>5
  <2> QED
    BY <1>0, <1>1, <2>1, <2>3, <2>4, <2>5, <2>6, BooksKept
<1>4. CASE BucketRead(t) \/ BucketWrite(t)
  <2>1. todo' = todo /\ raced' = raced /\ \A u \in Threads : Mid(u, s)' <=> Mid(u, s)
    BY <1>4, LoopEffect
  <2>2. histograms' = histograms /\ total' = total /\ count' = count
    BY <1>4 DEF BucketRead, BucketWrite, registry
  <2> QED
    BY <1>0, <1>1, <2>1, <2>2, BooksKept
<1>5. CASE Return(t)
  <2>1. UNCHANGED <<todo, step, histograms, total, count, raced>>
    BY <1>5 DEF Return, registry, locals, history
  <2>2. \A u \in Threads : Mid(u, s)' <=> Mid(u, s)
    BY <2>1 DEF Mid, Current
  <2> QED
    BY <1>0, <1>1, <2>1, <2>2, BooksKept
<1> QED
  BY <1>2, <1>3, <1>4, <1>5 DEF InHook

LEMMA SumsStep ==
    ASSUME Types, TypeInv, DueInv, SumsInv, [Next]_vars PROVE SumsInv'
<1>1. ASSUME NEW t \in Threads, InHook(t) PROVE SumsInv'
  <2>1. torn' = torn
    BY <1>1 DEF InHook, IncrementRead, IncrementWrite, ObserveGet, Observes, BucketRead, BucketWrite, ObserveStore,
         StoreThen, Return, Aside, history
  <2>2. ASSUME NEW s \in Histograms
        PROVE  IsFiniteSet(Waiting(todo', s)) /\ (~torn => SumBook(s)' /\ CountBook(s)')
    <3>1. CASE ObserveGet(t) /\ s = Current(t)
      <4>1. todo' = todo
        BY <3>1, BeginEffect
      <4>2. IsFiniteSet(Waiting(todo', s))
        BY <4>1 DEF SumsInv
      <4>3. Current(t)' = s
        BY <3>1, <4>1 DEF Current
      <4>4. ASSUME ~torn PROVE SumBook(Current(t))' /\ CountBook(Current(t))'
        BY <3>1, <4>4, ObserveBooks
      <4>5. ASSUME ~torn PROVE SumBook(s)' /\ CountBook(s)'
        BY <4>3, <4>4, <4>5 DEF SumBook, CountBook
      <4> QED
        BY <4>2, <4>5
    <3>2. CASE ObserveStore(t) /\ s = Current(t)
      <4>1. /\ Named(todo'[t]) = Named(todo[t]) \ {Current(t)}
            /\ \A u \in Threads : u # t => todo'[u] = todo[u] /\ step'[u] = step[u]
        BY <3>2, EndEffect
      <4>2. IsFiniteSet(Waiting(todo', s))
        BY <4>1, WaitingChange DEF SumsInv
      <4> QED
        BY <3>2, <4>2, StoreBooks
    <3> QED
      BY <1>1, <3>1, <3>2, OtherBooks
  <2> QED
    BY <2>1, <2>2 DEF SumsInv, Waiting
<1>2. ASSUME NEW t \in Threads,
             \/ BeforeRequest(t) \/ HaltEarly(t) \/ FirstChunk(t) \/ Lose(t)
             \/ FinishSpan(t, "ok") \/ FinishSpan(t, "error")
             \/ FinishOtelSpan(t) \/ BeginHook(t)
      PROVE  SumsInv'
  <2>1. /\ \E v : Announced(t, v)
        /\ UNCHANGED <<histograms, step, total, count, raced, torn>>
        /\ \A u \in Threads : \A s : Mid(u, s)' <=> Mid(u, s)
        /\ \A s : ~Mid(t, s)
    BY <1>2, WayEffect
  <2>2. PICK v : Announced(t, v)
    BY <2>1
  <2>3. \A s \in Histograms : IsFiniteSet(Waiting(todo', s))
    <3>1. \A u \in Threads : u # t => todo'[u] = todo[u]
      BY <2>2 DEF Announced, Types
    <3> QED
      BY <3>1, WaitingChange DEF SumsInv
  <2>4. ASSUME NEW s \in Histograms, ~torn PROVE SumBook(s)' /\ CountBook(s)'
    BY <2>1, <2>2, <2>4, WayBooks
  <2> QED
    BY <2>1, <2>3, <2>4 DEF SumsInv, Waiting
<1>3. CASE ClearCounters \/ ClearHistograms
  <2>1. /\ torn' = (torn \/ AtWork)
        /\ UNCHANGED <<todo, step, total, count, raced>>
    BY <1>3 DEF ClearCounters, ClearHistograms, Clear, locals
  <2>2. ASSUME ~torn', NEW s \in Histograms PROVE SumBook(s)' /\ CountBook(s)'
    <3>1. ~torn /\ ~AtWork
      BY <2>1, <2>2
    <3>2. \A q : Cardinality(Due(todo, q)) = 0
      BY <3>1, NothingAtWork DEF TypeInv
    <3>3. \A t \in Threads : todo[t] = <<>> /\ step[t] = "begin"
      BY <3>1, NothingAtWork DEF TypeInv
    <3>4. Middle(s)' = {} /\ Middle(s) = {}
      BY <2>1, <3>3 DEF Middle, Mid
    <3>5. Waiting(todo, s) = {} /\ Cardinality(Waiting(todo, s)) = 0
      <4>1. Waiting(todo, s) = {}
        BY <3>3, AmountEmpty DEF Waiting
      <4> QED
        BY <4>1, FS_EmptySet
    <3>6. ideal \in Ideals
      BY DEF TypeInv, Registered
    <3>7. CASE ClearCounters
      <4>1. histograms' = histograms /\ ideal'.histograms = ideal.histograms
        BY <3>6, <3>7 DEF ClearCounters, Ideals
      <4>2. \A u \in Threads : ~Mid(u, s)'
        BY <3>4 DEF Middle
      <4>3. SumBook(s) /\ CountBook(s)
        BY <3>1 DEF SumsInv
      <4> QED
        BY <2>1, <3>1, <4>1, <4>2, <4>3, BooksKept
    <3>8. CASE ClearHistograms
      <4>1. /\ histograms'[s] = NoHistogram
            /\ ideal'.histograms[s] = [sum |-> 0, count |-> 0, buckets |-> NewList]
        BY <3>6, <3>8 DEF ClearHistograms, NoHistograms, NoMetrics, Ideals
      <4>2. /\ histograms'[s].sum = 0 /\ histograms'[s].count = 0
            /\ ideal'.histograms[s].sum = 0 /\ ideal'.histograms[s].count = 0
        BY <4>1 DEF NoHistogram
      <4>3. /\ Cardinality(Due(todo', s)) = 0 /\ Cardinality(Waiting(todo', s)) = 0
        BY <2>1, <3>2, <3>5
      <4>4. \A held, own, fair : Book(0, held, own, {}, 0, 0, fair)
        BY DEF Book
      <4> QED
        BY <3>4, <4>2, <4>3, <4>4 DEF SumBook, CountBook, Due, Waiting
    <3> QED
      BY <1>3, <3>7, <3>8
  <2> QED
    BY <2>1, <2>2 DEF SumsInv, Waiting
<1>4. CASE UNCHANGED vars
  <2>1. UNCHANGED <<todo, step, histograms, total, count, raced, ideal, torn>>
    BY <1>4 DEF vars, registry, locals, history
  <2> QED
    BY <2>1 DEF SumsInv, SumBook, CountBook, Waiting, Due, Middle, Mid, Current, Own
<1> QED
  BY <1>1, <1>2, <1>3, <1>4 DEF Next, Stop, OnTheWay

-----------------------------------------------------------------------------
(* How the lists of buckets are told apart.                                *)

LEMMA FreshInit == Init => FreshInv
<1> SUFFICES ASSUME Init PROVE FreshInv
  OBVIOUS
<1>1. /\ \A t \in Threads : todo[t] = <<>> /\ step[t] = "begin" /\ pc[t] = "idle" /\ request[t] = 0
      /\ sent = 0
  BY DEF Init
<1>2. \A t \in Threads : Named(todo[t]) = {}
  BY <1>1, AmountEmpty
<1>3. \A s : Middle(s) = {}
  BY <1>1 DEF Middle, Mid
<1>4. ASSUME NEW s \in Histograms, NEW r \in 1..MaxRequests PROVE lists[s][r] = NewList /\ r \notin Live(s)
  <2>1. r \in Lists /\ r # 0
    BY DEF Lists
  <2>2. lists[s][r] = NewList /\ histograms[s].list = 0
    BY <2>1 DEF Init, InitRegistry
  <2> QED
    BY <1>3, <2>1, <2>2 DEF Live
<1> QED
  BY <1>1, <1>2, <1>3, <1>4 DEF FreshInv, Numbered, Placed, Started, Unspoilt

\* The lists of s stay as they are told apart, if nothing new may be made of them.
LEMMA UnspoiltKept ==
    ASSUME NEW s, Unspoilt(s),
           \A r \in 1..MaxRequests : Unused(s, r)' => Unused(s, r),
           \A r \in 1..MaxRequests : Unused(s, r) => lists'[s][r] = lists[s][r],
           Live(s)' \subseteq Live(s)
    PROVE  Unspoilt(s)'
BY DEF Unspoilt

\* No thread comes to have a list to make.
LEMMA UnusedKept ==
    ASSUME NEW s, sent <= sent', sent \in Nat, sent' \in Nat,
           \A t \in Threads : Pending(t, s)' /\ request'[t] # 0 =>
              \/ request'[t] = request[t] /\ Pending(t, s)
              \/ request'[t] > sent
    PROVE  \A r \in 1..MaxRequests : Unused(s, r)' => Unused(s, r)
<1> SUFFICES ASSUME NEW r \in 1..MaxRequests, Unused(s, r)' PROVE Unused(s, r)
  OBVIOUS
<1>0. r \in Nat /\ r # 0
  BY TelemetryAssumption
<1>1. CASE r > sent'
  BY <1>0, <1>1 DEF Unused
<1>2. CASE \E t \in Threads : request'[t] = r /\ Pending(t, s)'
  BY <1>0, <1>2 DEF Unused
<1> QED
  BY <1>1, <1>2 DEF Unused

\* What FreshInv is about.
LEMMA FreshTypes ==
    ASSUME Types, TypeInv
    PROVE  /\ sent \in Nat /\ sent <= MaxRequests /\ MaxRequests \in Nat
           /\ request \in [Threads -> 0..MaxRequests] /\ \A t \in Threads : request[t] \in Nat
           /\ pc \in [Threads -> {"idle", "running", "chunk", "streaming", "finished", "exported", "hook"}]
           /\ todo \in [Threads -> Seq(Measured)]
           /\ step \in [Threads -> {"begin", "write", "bucket", "bucket write"}]
           /\ total \in [Threads -> Nat] /\ count \in [Threads -> Nat] /\ buckets \in [Threads -> Lists]
           /\ histograms \in [Histograms -> [sum : Nat, count : Nat, list : Lists]]
           /\ lists \in [Histograms -> [Lists -> [Buckets -> Nat]]]
<1>1. MaxRequests \in Nat /\ sent \in 0..MaxRequests /\ request \in [Threads -> 0..MaxRequests]
  BY TelemetryAssumption DEF Types
<1>2. sent \in Nat /\ sent <= MaxRequests /\ \A t \in Threads : request[t] \in Nat
  BY <1>1
<1> QED
  BY <1>1, <1>2 DEF Types, TypeInv, Registered

\* Steps of an update other than the first and the last of observe().
LEMMA UpdateFresh ==
    ASSUME Types, TypeInv, DueInv, FreshInv, NEW t \in Threads,
           IncrementRead(t) \/ IncrementWrite(t) \/ BucketRead(t) \/ BucketWrite(t)
    PROVE  FreshInv'
<1>0. /\ sent \in Nat /\ todo \in [Threads -> Seq(Measured)]
      /\ lists \in [Histograms -> [Lists -> [Buckets -> Nat]]]
  BY FreshTypes
<1>1. UNCHANGED <<histograms, total, count, buckets, sent, pc, request>>
  BY DEF IncrementRead, IncrementWrite, BucketRead, BucketWrite, registry, Aside
<1>2. /\ \A s \in Histograms, u \in Threads : Mid(u, s)' <=> Mid(u, s)
      /\ \A s \in Histograms, u \in Threads : s \in Named(todo'[u]) <=> s \in Named(todo[u])
  <2>1. CASE IncrementRead(t)
    <3>1. Current(t) \in Counters
      BY <2>1 DEF IncrementRead
    <3> QED
      BY <2>1, <3>1, CountersApart, BeginEffect
  <2>2. CASE IncrementWrite(t)
    <3>1. Current(t) \in Counters
      BY <2>2 DEF IncrementWrite, TypeInv, Located
    <3> QED
      BY <2>2, <3>1, CountersApart, EndEffect
  <2>3. CASE BucketRead(t) \/ BucketWrite(t)
    BY <2>3, LoopEffect
  <2> QED
    BY <2>1, <2>2, <2>3
<1>3. \A s \in Histograms : Middle(s)' = Middle(s)
  BY <1>2 DEF Middle
<1>4. \A s \in Histograms : Live(s)' = Live(s)
  BY <1>1, <1>3 DEF Live
<1>5. \A s \in Histograms : \A r \in 1..MaxRequests : Unused(s, r)' <=> Unused(s, r)
  BY <1>1, <1>2 DEF Unused, Pending
<1>6. ASSUME NEW s \in Histograms PROVE \A r \in 1..MaxRequests : Unused(s, r) => lists'[s][r] = lists[s][r]
  <2>1. CASE ~BucketWrite(t)
    <3>1. lists' = lists
      BY <2>1 DEF IncrementRead, IncrementWrite, BucketRead, registry
    <3> QED
      BY <3>1
  <2>2. CASE BucketWrite(t)
    <3>1. lists' = [lists EXCEPT ![Current(t)][buckets[t]][at[t]] = read[t] + 1]
      BY <2>2 DEF BucketWrite
    <3>2. CASE s # Current(t)
      BY <1>0, <3>1, <3>2
    <3>3. CASE s = Current(t)
      <4>1. t \in Middle(s) /\ buckets[t] \in Lists
        BY <2>2, <3>3, LoopEffect DEF Middle, Types
      <4>2. buckets[t] \in Live(s)
        BY <4>1 DEF Live
      <4>3. \A r \in 1..MaxRequests : Unused(s, r) => r # buckets[t]
        BY <4>2 DEF FreshInv, Unspoilt
      <4> QED
        BY <1>0, <3>1, <3>3, <4>3
    <3> QED
      BY <3>2, <3>3
  <2> QED
    BY <2>1, <2>2
<1>7. \A s \in Histograms : Unspoilt(s)'
  BY <1>4, <1>5, <1>6, UnspoiltKept DEF FreshInv
<1>8. Numbered' /\ Started' /\ Placed'
  BY <1>1, <1>2, <1>3 DEF FreshInv, Numbered, Started, Placed
<1> QED
  BY <1>7, <1>8 DEF FreshInv

\* observe() finds a histogram, or makes a list under the number of its request.
LEMMA GetFresh ==
    ASSUME Types, TypeInv, DueInv, FreshInv, NEW t \in Threads, ObserveGet(t)
    PROVE  /\ FreshInv'
           /\ request[t] \in 1..MaxRequests
           /\ lists[Current(t)][request[t]] = NewList /\ request[t] \notin Live(Current(t))
<1>0. /\ sent \in Nat /\ sent <= MaxRequests /\ MaxRequests \in Nat
      /\ todo \in [Threads -> Seq(Measured)] /\ \A u \in Threads : request[u] \in Nat
      /\ count \in [Threads -> Nat] /\ buckets \in [Threads -> Lists]
      /\ histograms \in [Histograms -> [sum : Nat, count : Nat, list : Lists]]
  BY FreshTypes
<1>1. PICK c \in Histograms : c = Current(t)
  BY DEF ObserveGet, Observes
<1>2. /\ c \in Named(todo[t]) /\ todo' = todo
      /\ \A s : ~Mid(t, s) /\ (Mid(t, s)' <=> s = c)
      /\ \A u \in Threads : u # t => \A s : Mid(u, s)' <=> Mid(u, s)
  BY <1>1, BeginEffect
<1>3. UNCHANGED <<histograms, lists, sent, pc, request>>
  BY DEF ObserveGet, Observes, registry, Aside
<1>4. /\ count' = [count EXCEPT ![t] = histograms[c].count + 1]
      /\ buckets' = [buckets EXCEPT ![t] = IF histograms[c] = NoHistogram THEN request[t] ELSE histograms[c].list]
  BY <1>1 DEF ObserveGet, Observes
<1>5. pc[t] = IF c = TimeToFirstToken THEN "chunk" ELSE "hook"
  BY <1>2 DEF FreshInv, Placed
<1>6. request[t] \in 1..sent /\ request[t] \in 1..MaxRequests /\ request[t] # 0
  <2>1. request[t] \in 1..sent
    BY <1>5 DEF FreshInv, Numbered
  <2> QED
    BY <1>0, <2>1
<1>7. lists[c][request[t]] = NewList /\ request[t] \notin Live(c)
  <2>1. Pending(t, c)
    BY <1>2 DEF Pending
  <2>2. Unused(c, request[t])
    BY <2>1 DEF Unused
  <2> QED
    BY <1>6, <2>2 DEF FreshInv, Unspoilt
<1>8. ~Pending(t, c)'
  <2>1. pc[t] \notin Before(c)
    BY <1>5 DEF Before
  <2> QED
    BY <1>2, <1>3, <2>1 DEF Pending, Before
<1>9. \A u \in Threads, s \in Histograms : Pending(u, s)' => Pending(u, s)
  BY <1>2, <1>3, <1>8 DEF Pending, Before
<1>10. ASSUME NEW s \in Histograms, s # c PROVE Unspoilt(s)'
  <2>1. Middle(s)' = Middle(s) /\ t \notin Middle(s)
    BY <1>2, <1>10 DEF Middle
  <2>2. Live(s)' \subseteq Live(s)
    BY <1>0, <1>3, <1>4, <2>1 DEF Live, Middle
  <2>3. \A r \in 1..MaxRequests : Unused(s, r)' => Unused(s, r)
    BY <1>3, <1>9 DEF Unused
  <2> QED
    BY <1>3, <2>2, <2>3, UnspoiltKept DEF FreshInv
<1>11. Unspoilt(c)'
  <2> SUFFICES ASSUME NEW r \in 1..MaxRequests, Unused(c, r)' PROVE lists'[c][r] = NewList /\ r \notin Live(c)'
    BY DEF Unspoilt
  <2>1. Unused(c, r)
    BY <1>3, <1>9 DEF Unused
  <2>2. r # request[t]
    <3>1. CASE r > sent'
      BY <1>0, <1>3, <1>6, <3>1
    <3>2. CASE \E u \in Threads : request'[u] = r /\ Pending(u, c)'
      <4>1. PICK u \in Threads : request[u] = r /\ Pending(u, c)'
        BY <1>3, <3>2
      <4>2. u # t
        BY <1>8, <4>1
      <4> QED
        BY <1>6, <4>1, <4>2 DEF FreshInv, Numbered
    <3> QED
      BY <3>1, <3>2 DEF Unused
  <2>3. lists[c][r] = NewList /\ r \notin Live(c)
    BY <2>1 DEF FreshInv, Unspoilt
  <2>4. Live(c)' \subseteq Live(c) \cup {request[t]}
    <3> SUFFICES ASSUME NEW l \in Live(c)', l # request[t] PROVE l \in Live(c)
      OBVIOUS
    <3>1. l \in Lists
      BY DEF Live
    <3>2. CASE histograms'[c] # NoHistogram /\ l = histograms'[c].list
      BY <1>3, <3>1, <3>2 DEF Live
    <3>3. CASE \E u \in Middle(c)' : buckets'[u] = l
      <4>1. PICK u \in Threads : Mid(u, c)' /\ buckets'[u] = l
        BY <3>3 DEF Middle
      <4>2. CASE u = t
        BY <1>0, <1>4, <3>1, <4>1, <4>2 DEF Live
      <4>3. CASE u # t
        BY <1>0, <1>2, <1>4, <3>1, <4>1, <4>3 DEF Live, Middle
      <4> QED
        BY <4>2, <4>3
    <3> QED
      BY <3>2, <3>3 DEF Live
  <2> QED
    BY <1>3, <2>2, <2>3, <2>4
<1>12. Started'
  <2> SUFFICES ASSUME NEW s \in Histograms, NEW u \in Threads, Mid(u, s)' PROVE count'[u] > 0
    BY DEF Started, Middle
  <2>1. CASE u = t
    <3>1. PICK n \in Nat : n = histograms[c].count
      BY <1>0
    <3> QED
      BY <1>0, <1>4, <2>1, <3>1
  <2>2. CASE u # t
    BY <1>0, <1>2, <1>4, <2>2 DEF FreshInv, Started, Middle
  <2> QED
    BY <2>1, <2>2
<1>13. Numbered' /\ Placed'
  BY <1>2, <1>3 DEF FreshInv, Numbered, Placed
<1> QED
  BY <1>1, <1>6, <1>7, <1>10, <1>11, <1>12, <1>13 DEF FreshInv

\* observe() stores the list it has found or made.
LEMMA StoreFresh ==
    ASSUME Types, TypeInv, DueInv, FreshInv, NEW t \in Threads, ObserveStore(t)
    PROVE  FreshInv'
<1>0. /\ sent \in Nat /\ todo \in [Threads -> Seq(Measured)]
      /\ total \in [Threads -> Nat] /\ count \in [Threads -> Nat] /\ buckets \in [Threads -> Lists]
      /\ histograms \in [Histograms -> [sum : Nat, count : Nat, list : Lists]]
  BY FreshTypes
<1>1. PICK c \in Histograms : c = Current(t)
  <2>1. step[t] = "bucket"
    BY DEF ObserveStore, StoreThen
  <2> QED
    BY <2>1 DEF TypeInv, Located
<1>2. /\ Named(todo'[t]) = Named(todo[t]) \ {c} /\ c \in Named(todo[t])
      /\ \A u \in Threads : u # t => todo'[u] = todo[u]
      /\ \A s : ~Mid(t, s)' /\ (Mid(t, s) <=> s = c)
      /\ \A u \in Threads : u # t => \A s : Mid(u, s)' <=> Mid(u, s)
  BY <1>1, EndEffect
<1>3. UNCHANGED <<lists, sent, pc, request>>
  BY DEF ObserveStore, StoreThen, Aside
<1>4. /\ histograms' = [histograms EXCEPT ![c] = [sum |-> total[t], count |-> count[t], list |-> buckets[t]]]
      /\ \A u \in Threads : u # t => count'[u] = count[u] /\ buckets'[u] = buckets[u]
  BY <1>0, <1>1 DEF ObserveStore, StoreThen
<1>5. \A u \in Threads : \A s : Mid(u, s)' => Mid(u, s) /\ u # t
  BY <1>2
<1>6. \A s \in Histograms : Live(s)' \subseteq Live(s)
  <2> SUFFICES ASSUME NEW s \in Histograms, NEW l \in Live(s)' PROVE l \in Live(s)
    OBVIOUS
  <2>1. l \in Lists
    BY DEF Live
  <2>2. CASE \E u \in Middle(s)' : buckets'[u] = l
    BY <1>4, <1>5, <2>1, <2>2 DEF Live, Middle
  <2>3. CASE histograms'[s] # NoHistogram /\ l = histograms'[s].list
    <3>1. CASE s = c
      <4>1. l = buckets[t] /\ t \in Middle(c)
        BY <1>0, <1>2, <1>4, <2>3, <3>1 DEF Middle
      <4> QED
        BY <2>1, <3>1, <4>1 DEF Live
    <3>2. CASE s # c
      BY <1>0, <1>4, <2>1, <2>3, <3>2 DEF Live
    <3> QED
      BY <3>1, <3>2
  <2> QED
    BY <2>2, <2>3 DEF Live
<1>7. pc[t] = IF c = TimeToFirstToken THEN "chunk" ELSE "hook"
  BY <1>2 DEF FreshInv, Placed
<1>8. ASSUME NEW s \in Histograms PROVE \A r \in 1..MaxRequests : Unused(s, r)' => Unused(s, r)
  <2>1. ASSUME NEW u \in Threads, Pending(u, s)' PROVE Pending(u, s)
    <3>1. CASE u # t
      BY <1>2, <1>3, <2>1, <3>1 DEF Pending
    <3>2. CASE u = t
      <4>1. CASE pc[t] \in Before(s)
        BY <3>2, <4>1 DEF Pending
      <4>2. CASE pc[t] \notin Before(s)
        <5>1. s \in Named(todo'[t])
          BY <1>3, <2>1, <3>2, <4>2 DEF Pending, Before
        <5> QED
          BY <1>2, <3>2, <5>1 DEF Pending
      <4> QED
        BY <4>1, <4>2
    <3> QED
      BY <3>1, <3>2
  <2> QED
    BY <1>3, <2>1 DEF Unused
<1>9. \A s \in Histograms : Unspoilt(s)'
  BY <1>3, <1>6, <1>8, UnspoiltKept DEF FreshInv
<1>10. Started'
  BY <1>4, <1>5 DEF FreshInv, Started, Middle
<1>11. Placed'
  <2> SUFFICES ASSUME NEW u \in Threads, NEW s \in Histograms, s \in Named(todo'[u])
               PROVE  pc'[u] = IF s = TimeToFirstToken THEN "chunk" ELSE "hook"
    BY DEF Placed
  <2>1. s \in Named(todo[u])
    BY <1>2
  <2> QED
    BY <1>3, <2>1 DEF FreshInv, Placed
<1>12. Numbered'
  BY <1>3 DEF FreshInv, Numbered
<1> QED
  BY <1>9, <1>10, <1>11, <1>12 DEF FreshInv

\* A hook returns, or the observation of a chunk.
LEMMA ReturnFresh ==
    ASSUME Types, TypeInv, FreshInv, NEW t \in Threads, Return(t)
    PROVE  FreshInv'
<1>0. /\ sent \in Nat /\ request \in [Threads -> 0..MaxRequests] /\ \A u \in Threads : request[u] \in Nat
      /\ pc \in [Threads -> {"idle", "running", "chunk", "streaming", "finished", "exported", "hook"}]
  BY FreshTypes
<1>1. /\ UNCHANGED <<histograms, lists, sent, todo, step, count, buckets>>
      /\ todo[t] = <<>>
  BY DEF Return, registry, locals
<1>2. \/ pc[t] = "chunk" /\ pc' = [pc EXCEPT ![t] = "streaming"] /\ request' = request
      \/ pc[t] = "hook" /\ pc' = [pc EXCEPT ![t] = "idle"] /\ request' = [request EXCEPT ![t] = 0]
  BY DEF Return, Goto
<1>3. \A u \in Threads : \A s : Mid(u, s)' <=> Mid(u, s)
  BY <1>1 DEF Mid, Current
<1>4. \A s : Middle(s)' = Middle(s) /\ Live(s)' = Live(s)
  BY <1>1, <1>3 DEF Middle, Live
<1>5. Named(todo[t]) = {}
  BY <1>1, AmountEmpty
<1>6. \A u \in Threads : u # t => pc'[u] = pc[u] /\ request'[u] = request[u]
  BY <1>0, <1>2
<1>7. ASSUME NEW s \in Histograms PROVE \A r \in 1..MaxRequests : Unused(s, r)' => Unused(s, r)
  <2>1. ASSUME NEW u \in Threads, Pending(u, s)', request'[u] # 0
        PROVE  request'[u] = request[u] /\ Pending(u, s)
    <3>1. CASE u # t
      BY <1>1, <1>3, <1>6, <2>1, <3>1 DEF Pending, Before
    <3>2. CASE u = t
      <4>1. pc[t] = "chunk" /\ pc'[t] = "streaming" /\ request'[t] = request[t]
        BY <1>0, <1>2, <2>1, <3>2
      <4> QED
        BY <1>1, <1>5, <2>1, <3>2, <4>1 DEF Pending, Before
    <3> QED
      BY <3>1, <3>2
  <2>2. sent' = sent /\ sent <= sent' /\ sent' \in Nat
    BY <1>0, <1>1
  <2> QED
    BY <1>0, <2>1, <2>2, UnusedKept
<1>8. \A s \in Histograms : Unspoilt(s)'
  BY <1>1, <1>4, <1>7, UnspoiltKept DEF FreshInv
<1>9. Started'
  BY <1>1, <1>4 DEF FreshInv, Started
<1>10. Placed'
  <2> SUFFICES ASSUME NEW u \in Threads, NEW s \in Histograms, s \in Named(todo'[u])
               PROVE  pc'[u] = IF s = TimeToFirstToken THEN "chunk" ELSE "hook"
    BY DEF Placed
  <2>1. s \in Named(todo[u]) /\ u # t
    BY <1>1, <1>5
  <2> QED
    BY <1>6, <2>1 DEF FreshInv, Placed
<1>11. Numbered'
  <2>1. \/ pc'[t] = "streaming" /\ request'[t] = request[t] /\ pc[t] = "chunk"
        \/ pc'[t] = "idle" /\ request'[t] = 0
    BY <1>0, <1>2
  <2>2. ASSUME NEW u \in Threads, NEW v \in Threads, request'[u] = request'[v], request'[u] # 0 PROVE u = v
    <3>1. request'[u] = request[u] /\ request'[v] = request[v]
      BY <1>6, <2>1, <2>2
    <3> QED
      BY <2>2, <3>1 DEF FreshInv, Numbered
  <2>3. ASSUME NEW u \in Threads PROVE IF pc'[u] = "idle" THEN request'[u] = 0 ELSE request'[u] \in 1..sent'
    <3>1. IF pc[u] = "idle" THEN request[u] = 0 ELSE request[u] \in 1..sent
      BY DEF FreshInv, Numbered
    <3> QED
      BY <1>1, <1>6, <2>1, <3>1
  <2> QED
    BY <2>2, <2>3 DEF Numbered
<1> QED
  BY <1>8, <1>9, <1>10, <1>11 DEF FreshInv

\* A request goes its way.
LEMMA WayFresh ==
    ASSUME Types, TypeInv, FreshInv, NEW t \in Threads,
           \/ BeforeRequest(t) \/ HaltEarly(t) \/ FirstChunk(t) \/ Lose(t)
           \/ FinishSpan(t, "ok") \/ FinishSpan(t, "error")
           \/ FinishOtelSpan(t) \/ BeginHook(t)
    PROVE  FreshInv'
<1>0. /\ sent \in Nat /\ sent <= MaxRequests /\ MaxRequests \in Nat
      /\ request \in [Threads -> 0..MaxRequests] /\ \A u \in Threads : request[u] \in Nat
      /\ pc \in [Threads -> {"idle", "running", "chunk", "streaming", "finished", "exported", "hook"}]
      /\ todo \in [Threads -> Seq(Measured)]
  BY FreshTypes
<1>1. /\ \E v : Announced(t, v)
      /\ UNCHANGED <<histograms, lists, step, count, buckets>>
      /\ \A u \in Threads : u # t => todo'[u] = todo[u]
      /\ \A u \in Threads : \A s : Mid(u, s)' <=> Mid(u, s)
  BY WayEffect
<1>2. PICK v : Announced(t, v)
  BY <1>1
<1>3. todo'[t] = v /\ todo[t] = <<>> /\ Named(todo[t]) = {}
  BY <1>0, <1>2, AmountEmpty DEF Announced
<1>4. \A s : Middle(s)' = Middle(s) /\ Live(s)' = Live(s)
  BY <1>1 DEF Middle, Live
<1>5. \/ pc[t] = "idle" /\ pc'[t] = "running" /\ request'[t] = sent + 1 /\ sent' = sent + 1 /\ sent < MaxRequests
      \/ pc[t] = "running" /\ pc'[t] = "idle" /\ request'[t] = 0 /\ sent' = sent
      \/ /\ request'[t] = request[t] /\ sent' = sent
         /\ \/ pc[t] = "running" /\ pc'[t] = "chunk"
            \/ pc[t] \in {"running", "streaming"} /\ pc'[t] = "finished"
            \/ pc[t] = "finished" /\ pc'[t] = "exported"
            \/ pc[t] = "exported" /\ pc'[t] = "hook"
  BY <1>0 DEF BeforeRequest, HaltEarly, Send, FirstChunk, Lose, FinishSpan, Finishes, FinishOtelSpan, BeginHook,
              Goto
<1>6. \A u \in Threads : u # t => pc'[u] = pc[u] /\ request'[u] = request[u]
  BY <1>0 DEF BeforeRequest, HaltEarly, Send, FirstChunk, Lose, FinishSpan, Finishes, FinishOtelSpan, BeginHook,
              Goto
<1>7. sent <= sent' /\ sent' \in Nat
  BY <1>0, <1>5
<1>8. ASSUME NEW s \in Histograms PROVE \A r \in 1..MaxRequests : Unused(s, r)' => Unused(s, r)
  <2>1. ASSUME NEW u \in Threads, Pending(u, s)', request'[u] # 0
        PROVE  \/ request'[u] = request[u] /\ Pending(u, s)
               \/ request'[u] > sent
    <3>1. CASE u # t
      BY <1>1, <1>6, <2>1, <3>1 DEF Pending, Before
    <3>2. CASE u = t
      <4>1. CASE request'[t] = sent + 1
        BY <1>0, <3>2, <4>1
      <4>2. CASE /\ request'[t] = request[t]
                 /\ \/ pc[t] = "running" /\ pc'[t] = "chunk"
                    \/ pc[t] \in {"running", "streaming"} /\ pc'[t] = "finished"
                    \/ pc[t] = "finished" /\ pc'[t] = "exported"
                    \/ pc[t] = "exported" /\ pc'[t] = "hook"
        <5>1. pc'[t] \in Before(s) => pc[t] \in Before(s)
          BY <4>2 DEF Before
        <5>2. s \in Named(v) => pc[t] \in Before(s)
          <6>1. s \in Named(v) => pc'[t] = IF s = TimeToFirstToken THEN "chunk" ELSE "hook"
            BY <1>2 DEF Announced
          <6> QED
            BY <4>2, <6>1 DEF Before
        <5>3. pc'[t] \in Before(s) \/ s \in Named(v)
          BY <1>3, <2>1, <3>2 DEF Pending, Before
        <5> QED
          BY <3>2, <4>2, <5>1, <5>2, <5>3 DEF Pending
      <4> QED
        BY <1>5, <2>1, <3>2, <4>1, <4>2
    <3> QED
      BY <3>1, <3>2
  <2> QED
    BY <1>0, <1>7, <2>1, UnusedKept
<1>9. \A s \in Histograms : Unspoilt(s)'
  BY <1>1, <1>4, <1>8, UnspoiltKept DEF FreshInv
<1>10. Started'
  BY <1>1, <1>4 DEF FreshInv, Started
<1>11. Placed'
  <2> SUFFICES ASSUME NEW u \in Threads, NEW s \in Histograms, s \in Named(todo'[u])
               PROVE  pc'[u] = IF s = TimeToFirstToken THEN "chunk" ELSE "hook"
    BY DEF Placed
  <2>1. CASE u = t
    BY <1>2, <1>3, <2>1 DEF Announced
  <2>2. CASE u # t
    BY <1>1, <1>6, <2>2 DEF FreshInv, Placed
  <2> QED
    BY <2>1, <2>2
<1>12. Numbered'
  <2>1. ASSUME NEW u \in Threads PROVE IF pc[u] = "idle" THEN request[u] = 0 ELSE request[u] \in 1..sent
    BY DEF FreshInv, Numbered
  <2>2. ASSUME NEW u \in Threads PROVE IF pc'[u] = "idle" THEN request'[u] = 0 ELSE request'[u] \in 1..sent'
    <3>1. CASE u # t
      BY <1>0, <1>6, <1>7, <2>1, <3>1
    <3>2. CASE u = t
      <4>1. CASE pc[t] = "idle" /\ pc'[t] = "running" /\ request'[t] = sent + 1 /\ sent' = sent + 1
        BY <1>0, <3>2, <4>1
      <4>2. CASE pc'[t] = "idle" /\ request'[t] = 0
        BY <3>2, <4>2
      <4>3. CASE request'[t] = request[t] /\ sent' = sent /\ pc[t] # "idle" /\ pc'[t] # "idle"
        BY <2>1, <3>2, <4>3
      <4> QED
        BY <1>5, <4>1, <4>2, <4>3
    <3> QED
      BY <3>1, <3>2
  <2>3. ASSUME NEW u \in Threads, NEW w \in Threads, request'[u] = request'[w], request'[u] # 0 PROVE u = w
    <3>1. ASSUME NEW x \in Threads PROVE request[x] # sent + 1
      <4>1. PICK last \in Nat : last = sent
        BY <1>0
      <4>2. PICK n \in Nat : n = request[x]
        BY <1>0, <2>1
      <4>3. IF pc[x] = "idle" THEN n = 0 ELSE n \in 1..last
        BY <2>1, <4>1, <4>2
      <4>4. n <= last
        BY <4>1, <4>2, <4>3
      <4> QED
        BY <4>1, <4>2, <4>4
    <3>2. request'[t] = request[t] \/ request'[t] = sent + 1 \/ request'[t] = 0
      BY <1>5
    <3>3. CASE u = t /\ w # t
      BY <1>6, <2>3, <3>1, <3>2, <3>3 DEF FreshInv, Numbered
    <3>4. CASE u # t /\ w = t
      BY <1>6, <2>3, <3>1, <3>2, <3>4 DEF FreshInv, Numbered
    <3>5. CASE u # t /\ w # t
      BY <1>6, <2>3, <3>5 DEF FreshInv, Numbered
    <3> QED
      BY <3>3, <3>4, <3>5
  <2> QED
    BY <2>2, <2>3 DEF Numbered
<1> QED
  BY <1>9, <1>10, <1>11, <1>12 DEF FreshInv

LEMMA FreshStep ==
    ASSUME Types, TypeInv, DueInv, FreshInv, [Next]_vars PROVE FreshInv'
<1>1. CASE \E t \in Threads : BeforeRequest(t) \/ HaltEarly(t) \/ OnTheWay(t)
  BY <1>1, UpdateFresh, GetFresh, StoreFresh, ReturnFresh, WayFresh DEF OnTheWay, InHook
<1>2. CASE ClearCounters \/ ClearHistograms
  <2>1. /\ UNCHANGED <<lists, sent, pc, request, todo, step, count, buckets>>
        /\ histograms' = histograms \/ histograms' = NoHistograms
    BY <1>2 DEF ClearCounters, ClearHistograms, Clear, locals
  <2>2. \A u \in Threads : \A s : Mid(u, s)' <=> Mid(u, s)
    BY <2>1 DEF Mid, Current
  <2>3. \A s : Middle(s)' = Middle(s)
    BY <2>2 DEF Middle
  <2>4. \A s \in Histograms : Live(s)' \subseteq Live(s)
    BY <2>1, <2>3 DEF Live, NoHistograms
  <2>5. \A s \in Histograms : \A r \in 1..MaxRequests : Unused(s, r)' => Unused(s, r)
    BY <2>1, <2>2 DEF Unused, Pending, Before
  <2>6. \A s \in Histograms : Unspoilt(s)'
    BY <2>1, <2>4, <2>5, UnspoiltKept DEF FreshInv
  <2>7. Numbered' /\ Started' /\ Placed'
    BY <2>1, <2>3 DEF FreshInv, Numbered, Started, Placed
  <2> QED
    BY <2>6, <2>7 DEF FreshInv
<1>3. CASE UNCHANGED vars
  <2>1. UNCHANGED <<histograms, lists, sent, pc, request, todo, step, count, buckets>>
    BY <1>3 DEF vars, registry, locals
  <2> QED
    BY <2>1 DEF FreshInv, Numbered, Started, Placed, Unspoilt, Unused, Pending, Before, Live, Middle, Mid, Current
<1> QED
  BY <1>1, <1>2, <1>3 DEF Next, Stop
-----------------------------------------------------------------------------
(* How the books of the buckets are kept.                                  *)

LEMMA OwnAmount ==
    ASSUME Types, TypeInv, DueInv, NEW t \in Threads, NEW s \in Histograms, Mid(t, s)
    PROVE  /\ s \in Named(todo[t]) /\ Amount(todo[t], s) = Own(t) /\ Own(t) \in Nat /\ Current(t) = s
           /\ step[t] = "bucket write" => at[t] \in Buckets
<1>1. PICK v \in Seq(Measured) : v = todo[t] /\ v # <<>>
  BY DEF Types, TypeInv, Located, Mid
<1>2. Distinct(v)
  BY <1>1 DEF DueInv
<1>3. Amount(v, Head(v).series) = Head(v).value
  BY <1>1, <1>2, AmountTail
<1>4. Head(v).series = s /\ Head(v).value = Own(t) /\ Current(t) = s
  BY <1>1 DEF Mid, Current, Own
<1>5. Head(v).value \in Nat
  BY <1>1, HeadMeasured DEF Measured
<1>6. step[t] = "bucket write" => at[t] \in Buckets
  BY DEF TypeInv, Located
<1> QED
  BY <1>1, <1>3, <1>4, <1>5, <1>6, HeadNamed

\* What the books of a bucket are about.
LEMMA BucketTypes ==
    ASSUME Types, TypeInv, BucketsInv, NEW s \in Histograms, NEW i \in Buckets
    PROVE  /\ i \in Nat /\ i \in 1..Len(Bounds) /\ Bounds[i] \in Nat
           /\ IsFiniteSet(Short(s, i)) /\ Cardinality(Short(s, i)) \in Nat
           /\ ideal.histograms[s].buckets[i] \in Nat
           /\ Live(s) \subseteq Lists
           /\ \A l \in Lists : lists[s][l][i] \in Nat
           /\ \A t \in Threads : read[t] \in Nat /\ at[t] \in Nat
           /\ \A t \in Middle(s) : t \in Threads /\ buckets[t] \in Live(s)
           /\ ~torn => BucketBook(s, i) /\ Shared(s)
<1>1. i \in Nat /\ i \in 1..Len(Bounds) /\ Bounds[i] \in Nat
  BY BoundsType DEF Buckets
<1>2. ideal.histograms[s].buckets[i] \in Nat
  <2>1. ideal \in Ideals
    BY DEF TypeInv, Registered
  <2>2. ideal.histograms[s] \in [sum : Nat, count : Nat, buckets : [Buckets -> Nat]]
    BY <2>1 DEF Ideals
  <2>3. ideal.histograms[s].buckets \in [Buckets -> Nat]
    BY <2>2
  <2> QED
    BY <2>3
<1>3. ASSUME NEW l \in Lists PROVE lists[s][l][i] \in Nat
  <2>1. lists \in [Histograms -> [Lists -> [Buckets -> Nat]]]
    BY DEF TypeInv, Registered
  <2>2. lists[s] \in [Lists -> [Buckets -> Nat]]
    BY <2>1
  <2>3. lists[s][l] \in [Buckets -> Nat]
    BY <2>2
  <2> QED
    BY <2>3
<1>4. ASSUME NEW t \in Threads PROVE read[t] \in Nat /\ at[t] \in Nat
  <2>1. read \in [Threads -> Nat] /\ at \in [Threads -> 1..(Len(Bounds) + 1)]
    BY DEF TypeInv, Registered
  <2>2. at[t] \in 1..(Len(Bounds) + 1)
    BY <2>1
  <2>3. at[t] \in Nat
    BY <2>2, BoundsType
  <2> QED
    BY <2>1, <2>3
<1>5. \A t \in Middle(s) : t \in Threads /\ buckets[t] \in Live(s)
  BY DEF Middle, Live, Types
<1>6. IsFiniteSet(Short(s, i)) /\ Live(s) \subseteq Lists
  BY DEF BucketsInv, Live
<1> QED
  BY <1>1, <1>2, <1>3, <1>4, <1>5, <1>6, FS_CardinalityType DEF BucketsInv

\* Nothing the book of a bucket is about has changed, but for threads that left off.
LEMMA BucketKept ==
    ASSUME NEW s, NEW i, BucketBook(s, i),
           Short(s, i)' = Short(s, i),
           ideal'.histograms[s].buckets[i] = ideal.histograms[s].buckets[i],
           raced \subseteq raced',
           Live(s)' \subseteq Live(s), s \notin raced' /\ Live(s)' = {} => Live(s) = {},
           \A l \in Live(s)' : lists'[s][l][i] = lists[s][l][i],
           \A u \in Middle(s)' : step'[u] = "bucket write" /\ at'[u] = i =>
              /\ u \in Middle(s) /\ step[u] = "bucket write" /\ at[u] = i
              /\ read'[u] = read[u] /\ buckets'[u] = buckets[u] /\ buckets'[u] \in Live(s)'
    PROVE  BucketBook(s, i)'
<1>1. PICK n, worth, live : n = Cardinality(Short(s, i)) /\ worth = ideal.histograms[s].buckets[i] /\ live = Live(s)
  OBVIOUS
<1>2. PICK live2 : live2 = Live(s)'
  OBVIOUS
<1>3. n = Cardinality(Short(s, i))' /\ worth = ideal'.histograms[s].buckets[i]
  BY <1>1
<1>4. /\ n <= worth
      /\ \A l \in live : lists[s][l][i] + n <= worth
      /\ \A u \in Middle(s) : step[u] = "bucket write" /\ at[u] = i => read[u] + n <= worth
      /\ s \notin raced =>
            /\ live = {} => n = worth
            /\ \A l \in live : lists[s][l][i] + n = worth
            /\ \A u \in Middle(s) : step[u] = "bucket write" /\ at[u] = i => read[u] = lists[s][buckets[u]][i]
  BY <1>1 DEF BucketBook
<1>5. \A l \in live2 : lists'[s][l][i] + n <= worth
  BY <1>1, <1>2, <1>4
<1>6. \A u \in Middle(s)' : step'[u] = "bucket write" /\ at'[u] = i => read'[u] + n <= worth
  BY <1>4
<1>7. ASSUME s \notin raced'
      PROVE  /\ live2 = {} => n = worth
             /\ \A l \in live2 : lists'[s][l][i] + n = worth
             /\ \A u \in Middle(s)' : step'[u] = "bucket write" /\ at'[u] = i => read'[u] = lists'[s][buckets'[u]][i]
  <2>1. s \notin raced
    BY <1>7
  <2>2. live2 = {} => n = worth
    BY <1>1, <1>2, <1>4, <1>7, <2>1
  <2>3. \A l \in live2 : lists'[s][l][i] + n = worth
    BY <1>1, <1>2, <1>4, <2>1
  <2>4. ASSUME NEW u \in Middle(s)', step'[u] = "bucket write" /\ at'[u] = i PROVE read'[u] = lists'[s][buckets'[u]][i]
    <3>1. read[u] = lists[s][buckets[u]][i]
      BY <1>4, <2>1, <2>4
    <3> QED
      BY <2>4, <3>1
  <2> QED
    BY <2>2, <2>3, <2>4
<1> QED
  BY <1>2, <1>3, <1>4, <1>5, <1>6, <1>7 DEF BucketBook
\* Threads go on in s as they were.
LEMMA BucketsStay ==
    ASSUME Types, TypeInv, DueInv, BucketsInv, NEW s \in Histograms, NEW i \in Buckets,
           histograms'[s] = histograms[s], lists'[s] = lists[s], raced \subseteq raced',
           ideal'.histograms[s].buckets[i] = ideal.histograms[s].buckets[i],
           \A u \in Threads : /\ Mid(u, s)' <=> Mid(u, s)
                              /\ s \in Named(todo'[u]) <=> s \in Named(todo[u])
                              /\ Amount(todo'[u], s) = Amount(todo[u], s)
                              /\ Mid(u, s) => /\ step'[u] = step[u] /\ at'[u] = at[u]
                                              /\ read'[u] = read[u] /\ buckets'[u] = buckets[u]
    PROVE  /\ Short(s, i)' = Short(s, i)
           /\ ~torn => BucketBook(s, i)' /\ Shared(s)'
<1>1. Middle(s)' = Middle(s)
  BY DEF Middle
<1>2. \A u \in Middle(s) : /\ u \in Threads /\ step'[u] = step[u] /\ at'[u] = at[u]
                           /\ read'[u] = read[u] /\ buckets'[u] = buckets[u] /\ buckets[u] \in Live(s)
  BY BucketTypes DEF Middle
<1>3. Live(s)' = Live(s)
  BY <1>1, <1>2 DEF Live
<1>4. Short(s, i)' = Short(s, i)
  BY DEF Short
<1>5. ASSUME ~torn PROVE BucketBook(s, i)'
  <2>1. BucketBook(s, i)
    BY <1>5, BucketTypes
  <2>2. \A l \in Live(s)' : lists'[s][l][i] = lists[s][l][i]
    OBVIOUS
  <2>3. \A u \in Middle(s)' : step'[u] = "bucket write" /\ at'[u] = i =>
           /\ u \in Middle(s) /\ step[u] = "bucket write" /\ at[u] = i
           /\ read'[u] = read[u] /\ buckets'[u] = buckets[u] /\ buckets'[u] \in Live(s)'
    BY <1>1, <1>2, <1>3
  <2>4. Live(s)' \subseteq Live(s) /\ (s \notin raced' /\ Live(s)' = {} => Live(s) = {})
    BY <1>3
  <2> QED
    BY <1>4, <2>1, <2>2, <2>3, <2>4, BucketKept
<1>6. ASSUME ~torn PROVE Shared(s)'
  BY <1>1, <1>2, <1>6, BucketTypes DEF Shared
<1> QED
  BY <1>4, <1>5, <1>6

\* Updates of other series leave the buckets of s alone.
LEMMA OtherBuckets ==
    ASSUME Types, TypeInv, DueInv, BucketsInv, NEW t \in Threads, InHook(t), NEW s \in Histograms, NEW i \in Buckets,
           (ObserveGet(t) \/ BucketRead(t) \/ BucketWrite(t) \/ ObserveStore(t)) => s # Current(t)
    PROVE  /\ Short(s, i)' = Short(s, i)
           /\ ~torn => BucketBook(s, i)' /\ Shared(s)'
<1>0. /\ todo \in [Threads -> Seq(Measured)]
      /\ lists \in [Histograms -> [Lists -> [Buckets -> Nat]]]
      /\ histograms \in [Histograms -> [sum : Nat, count : Nat, list : Lists]]
      /\ step \in [Threads -> {"begin", "write", "bucket", "bucket write"}]
      /\ buckets \in [Threads -> Lists]
      /\ read \in [Threads -> Nat] /\ at \in [Threads -> 1..(Len(Bounds) + 1)]
  BY DEF Types, TypeInv, Registered
<1>1. ideal' = ideal
  BY DEF InHook, IncrementRead, IncrementWrite, ObserveGet, Observes, BucketRead, BucketWrite, ObserveStore,
         StoreThen, Return, Aside, history
<1>2. CASE Return(t)
  <2>1. UNCHANGED <<todo, step, read, at, buckets, histograms, lists, raced>>
    BY <1>2 DEF Return, registry, locals, history
  <2>2. \A u \in Threads : Mid(u, s)' <=> Mid(u, s)
    BY <2>1 DEF Mid, Current
  <2> QED
    BY <1>1, <2>1, <2>2, BucketsStay
<1>3. CASE ~Return(t)
  <2>1. s # Current(t)
    <3>1. IncrementRead(t) \/ IncrementWrite(t) => Current(t) \in Counters
      BY DEF IncrementRead, IncrementWrite, TypeInv, Located
    <3> QED
      BY <1>3, <3>1, CountersApart DEF InHook
  <2>2. /\ \A u \in Threads : Mid(u, s)' <=> Mid(u, s)
        /\ ~Mid(t, s)
        /\ \A u \in Threads : s \in Named(todo'[u]) <=> s \in Named(todo[u])
        /\ \A u \in Threads : Amount(todo'[u], s) = Amount(todo[u], s)
        /\ raced \subseteq raced'
    <3>1. CASE IncrementRead(t) \/ ObserveGet(t)
      <4>1. /\ Begins(t) /\ todo' = todo
            /\ ~Mid(t, s) /\ (Mid(t, s)' <=> s = Current(t))
            /\ \A u \in Threads : u # t => (Mid(u, s)' <=> Mid(u, s))
        BY <3>1, BeginEffect
      <4> QED
        BY <2>1, <4>1 DEF Begins
    <3>2. CASE IncrementWrite(t) \/ ObserveStore(t)
      <4>1. /\ Named(todo'[t]) = Named(todo[t]) \ {Current(t)}
            /\ \A q : q # Current(t) => Amount(todo'[t], q) = Amount(todo[t], q)
            /\ \A u \in Threads : u # t => todo'[u] = todo[u]
            /\ ~Mid(t, s)' /\ (Mid(t, s) <=> s = Current(t))
            /\ \A u \in Threads : u # t => (Mid(u, s)' <=> Mid(u, s))
            /\ raced' = raced
        BY <3>2, EndEffect
      <4> QED
        BY <2>1, <4>1
    <3>3. CASE BucketRead(t) \/ BucketWrite(t)
      BY <2>1, <3>3, LoopEffect
    <3> QED
      BY <1>3, <3>1, <3>2, <3>3 DEF InHook
  <2>3. \A u \in Threads : u # t => /\ step'[u] = step[u] /\ at'[u] = at[u]
                                    /\ read'[u] = read[u] /\ buckets'[u] = buckets[u]
    BY <1>0, <1>3 DEF InHook, IncrementRead, IncrementWrite, ObserveGet, Observes, BucketRead, BucketWrite, ObserveStore,
         StoreThen, At, EndUpdate
  <2>4. histograms'[s] = histograms[s] /\ lists'[s] = lists[s]
    BY <1>0, <1>3, <2>1 DEF InHook, IncrementRead, IncrementWrite, ObserveGet, Observes, BucketRead, BucketWrite,
         ObserveStore, StoreThen, registry
  <2> QED
    BY <1>1, <2>2, <2>3, <2>4, BucketsStay
<1> QED
  BY <1>2, <1>3
\* An observation begins, on the list that is stored or on one of its own.
LEMMA GetBuckets ==
    ASSUME Types, TypeInv, DueInv, FreshInv, BucketsInv, NEW t \in Threads, ObserveGet(t),
           NEW s \in Histograms, s = Current(t), NEW i \in Buckets
    PROVE  /\ Short(s, i)' = Short(s, i)
           /\ ~torn => BucketBook(s, i)' /\ Shared(s)'
<1>0. /\ todo \in [Threads -> Seq(Measured)]
      /\ histograms \in [Histograms -> [sum : Nat, count : Nat, list : Lists]]
      /\ step \in [Threads -> {"begin", "write", "bucket", "bucket write"}]
      /\ buckets \in [Threads -> Lists] /\ at \in [Threads -> 1..(Len(Bounds) + 1)]
  BY DEF Types, TypeInv, Registered
<1>1. /\ Recording(t) /\ Begins(t) /\ todo' = todo
      /\ s \in Named(todo[t])
      /\ ~Mid(t, s) /\ Mid(t, s)'
      /\ \A u \in Threads : u # t => (Mid(u, s)' <=> Mid(u, s))
      /\ \A u \in Threads : u # t => step'[u] = step[u]
  BY BeginEffect
<1>2. /\ UNCHANGED <<histograms, lists, ideal, read>>
      /\ step'[t] = "bucket" /\ at'[t] = 1
      /\ \A u \in Threads : u # t => at'[u] = at[u] /\ buckets'[u] = buckets[u]
      /\ buckets'[t] = IF histograms[s] = NoHistogram THEN request[t] ELSE histograms[s].list
  BY <1>0 DEF ObserveGet, Observes, At, registry, Aside
<1>3. /\ request[t] \in 1..MaxRequests /\ lists[s][request[t]] = NewList /\ request[t] \notin Live(s)
  BY GetFresh
<1>4. Middle(s)' = Middle(s) \cup {t} /\ t \notin Middle(s)
  BY <1>1 DEF Middle
<1>5. Live(s)' = Live(s) \cup {buckets'[t]} /\ buckets'[t] \in Lists
  <2>1. request[t] \in Lists
    BY <1>3 DEF Types, Lists
  <2>1a. histograms[s].list \in Lists
    <3>1. histograms[s] \in [sum : Nat, count : Nat, list : Lists]
      BY <1>0
    <3> QED
      BY <3>1
  <2>2. buckets'[t] \in Lists
    BY <1>2, <2>1, <2>1a
  <2> QED
    BY <1>2, <1>4, <2>2 DEF Live, Middle
<1>6. Short(s, i)' = Short(s, i)
  <2>1. at'[t] <= i
    BY <1>2, BoundsType
  <2> QED
    BY <1>1, <1>2, <2>1 DEF Short
<1>7. s \notin raced' => s \notin raced /\ Middle(s) = {}
  <2>1. s \notin raced' => \A u \in Threads : Mid(u, s) => u = t
    <3>1. Alone(s) /\ Located
      BY DEF DueInv, TypeInv, Series
    <3>2. \A u \in Threads : Mid(u, s) => Recording(u) /\ step[u] # "begin" /\ Current(u) = s
      BY <3>1 DEF Located, Mid, Recording
    <3> QED
      BY <1>1, <3>2 DEF Begins
  <2> QED
    BY <1>1, <2>1 DEF Begins, Middle
<1>8. ASSUME ~torn PROVE BucketBook(s, i)'
  <2>1. PICK n \in Nat, worth \in Nat : n = Cardinality(Short(s, i)) /\ worth = ideal.histograms[s].buckets[i]
    BY BucketTypes
  <2>2. n = Cardinality(Short(s, i))' /\ worth = ideal'.histograms[s].buckets[i]
    BY <1>2, <1>6, <2>1
  <2>3. BucketBook(s, i)
    BY <1>8, BucketTypes
  <2>4. /\ n <= worth
        /\ \A l \in Live(s) : lists[s][l][i] + n <= worth
        /\ \A u \in Middle(s) : step[u] = "bucket write" /\ at[u] = i => read[u] + n <= worth
    BY <2>1, <2>3 DEF BucketBook
  <2>5. s \notin raced => (Live(s) = {} => n = worth) /\ \A l \in Live(s) : lists[s][l][i] + n = worth
    BY <2>1, <2>3 DEF BucketBook
  <2>6. buckets'[t] \in Live(s) \/ (histograms[s] = NoHistogram /\ lists[s][buckets'[t]][i] = 0)
    <3>1. CASE histograms[s] = NoHistogram
      BY <1>2, <1>3, <3>1 DEF NewList
    <3>2. CASE histograms[s] # NoHistogram
      BY <1>0, <1>2, <3>2 DEF Live
    <3> QED
      BY <3>1, <3>2
  <2>7. \A l \in Live(s)' : lists'[s][l][i] + n <= worth
    <3>1. \A l \in Live(s) : lists'[s][l][i] + n <= worth
      BY <1>2, <2>4
    <3>2. lists[s][buckets'[t]][i] = 0 => lists'[s][buckets'[t]][i] + n <= worth
      <4>1. n \in Nat /\ 0 + n = n
        BY <2>1
      <4>2. 0 + n <= worth
        BY <2>4, <4>1
      <4> QED
        BY <1>2, <4>2
    <3> QED
      BY <1>5, <2>6, <3>1, <3>2
  <2>8. \A u \in Middle(s)' : step'[u] = "bucket write" /\ at'[u] = i => u # t /\ u \in Middle(s) /\ read'[u] + n <= worth
    BY <1>1, <1>2, <1>4, <2>4 DEF Middle
  <2>9. ASSUME s \notin raced' PROVE \A l \in Live(s)' : lists'[s][l][i] + n = worth
    <3>1. s \notin raced /\ Middle(s) = {}
      BY <1>7, <2>9
    <3>2. \A l \in Live(s) : lists'[s][l][i] + n = worth
      BY <1>2, <2>5, <3>1
    <3>3. CASE buckets'[t] \in Live(s)
      BY <1>5, <3>2, <3>3
    <3>4. CASE histograms[s] = NoHistogram /\ lists[s][buckets'[t]][i] = 0
      <4>1. Live(s) = {}
        BY <3>1, <3>4 DEF Live
      <4>2. lists'[s][buckets'[t]][i] + n = worth
        BY <1>2, <2>1, <2>5, <3>1, <3>4, <4>1
      <4> QED
        BY <1>5, <3>2, <4>2
    <3> QED
      BY <2>6, <3>3, <3>4
  <2>10. Live(s)' # {}
    BY <1>5
  <2>11. s \notin raced' => \A u \in Middle(s)' : ~(step'[u] = "bucket write" /\ at'[u] = i)
    BY <1>7, <2>8
  <2> QED
    BY <2>1, <2>2, <2>4, <2>7, <2>8, <2>9, <2>10, <2>11 DEF BucketBook
<1>9. Shared(s)'
  <2> SUFFICES ASSUME s \notin raced', histograms'[s] # NoHistogram, NEW u \in Middle(s)'
               PROVE  buckets'[u] = histograms'[s].list
    BY DEF Shared
  <2>1. u = t
    BY <1>4, <1>7
  <2> QED
    BY <1>2, <2>1
<1> QED
  BY <1>6, <1>8, <1>9

\* The loop of observe() comes to a bucket and reads it.
LEMMA ReadBuckets ==
    ASSUME Types, TypeInv, DueInv, BucketsInv, NEW t \in Threads, BucketRead(t),
           NEW s \in Histograms, s = Current(t), NEW i \in Buckets
    PROVE  /\ Short(s, i)' = Short(s, i)
           /\ ~torn => BucketBook(s, i)' /\ Shared(s)'
<1>0. /\ todo \in [Threads -> Seq(Measured)]
      /\ step \in [Threads -> {"begin", "write", "bucket", "bucket write"}]
      /\ read \in [Threads -> Nat] /\ at \in [Threads -> 1..(Len(Bounds) + 1)]
  BY DEF Types, TypeInv, Registered
<1>1. /\ s \in Named(todo[t]) /\ todo' = todo /\ raced' = raced
      /\ Mid(t, s)
      /\ \A u \in Threads : Mid(u, s)' <=> Mid(u, s)
      /\ \A u \in Threads : u # t => step'[u] = step[u] /\ read'[u] = read[u] /\ at'[u] = at[u]
  BY LoopEffect
<1>2. UNCHANGED <<histograms, lists, ideal, buckets>> /\ step[t] = "bucket"
  BY DEF BucketRead, At, registry, Aside
<1>3. Amount(todo[t], s) = Own(t) /\ Own(t) \in Nat
  BY <1>1, OwnAmount
<1>4. PICK m \in Belongs(t) : /\ \A j \in Belongs(t) : m <= j
                              /\ at'[t] = m /\ read'[t] = lists[s][buckets[t]][m]
  BY <1>0 DEF BucketRead
<1>5. m \in Nat /\ at[t] \in Nat /\ at[t] <= m
  BY <1>4, BucketTypes, BoundsType DEF Belongs
<1>6. Short(s, i)' = Short(s, i)
  <2>1. PICK k \in Nat : k = i
    BY BucketTypes
  <2>2. k \in 1..Len(Bounds)
    BY <2>1, BucketTypes
  <2>3. Own(t) <= Bounds[k] => (m <= k <=> at[t] <= k)
    <3>1. Own(t) <= Bounds[k] /\ at[t] <= k => k \in Belongs(t)
      BY <1>5, <2>1, <2>2 DEF Belongs, Own
    <3>2. m <= k => at[t] <= k
      BY <1>5
    <3> QED
      BY <1>4, <3>1, <3>2
  <2>4. t \in Short(s, i)' <=> t \in Short(s, i)
    BY <1>1, <1>3, <1>4, <2>1, <2>3 DEF Short
  <2>5. \A u \in Threads : u # t => (u \in Short(s, i)' <=> u \in Short(s, i))
    BY <1>1 DEF Short
  <2> QED
    BY <2>4, <2>5 DEF Short
<1>7. Middle(s)' = Middle(s) /\ t \in Middle(s)
  BY <1>1 DEF Middle
<1>8. Live(s)' = Live(s) /\ buckets[t] \in Live(s)
  BY <1>2, <1>7, BucketTypes DEF Live
<1>9. ASSUME ~torn PROVE BucketBook(s, i)'
  <2>1. PICK n \in Nat, worth \in Nat : n = Cardinality(Short(s, i)) /\ worth = ideal.histograms[s].buckets[i]
    BY BucketTypes
  <2>2. n = Cardinality(Short(s, i))' /\ worth = ideal'.histograms[s].buckets[i]
    BY <1>2, <1>6, <2>1
  <2>3. BucketBook(s, i)
    BY <1>9, BucketTypes
  <2>4. /\ n <= worth
        /\ \A l \in Live(s) : lists[s][l][i] + n <= worth
        /\ \A u \in Middle(s) : step[u] = "bucket write" /\ at[u] = i => read[u] + n <= worth
    BY <2>1, <2>3 DEF BucketBook
  <2>5. s \notin raced => /\ (Live(s) = {} => n = worth) /\ (\A l \in Live(s) : lists[s][l][i] + n = worth)
                          /\ \A u \in Middle(s) : step[u] = "bucket write" /\ at[u] = i => read[u] = lists[s][buckets[u]][i]
    BY <2>1, <2>3 DEF BucketBook
  <2>6. \A u \in Middle(s)' : step'[u] = "bucket write" /\ at'[u] = i =>
           \/ u = t /\ read'[u] = lists[s][buckets[t]][i]
           \/ u \in Middle(s) /\ step[u] = "bucket write" /\ at[u] = i /\ read'[u] = read[u]
    BY <1>1, <1>4, <1>7 DEF Middle
  <2>7. \A u \in Middle(s)' : step'[u] = "bucket write" /\ at'[u] = i => read'[u] + n <= worth
    BY <1>8, <2>4, <2>6
  <2>8. s \notin raced' => \A u \in Middle(s)' : step'[u] = "bucket write" /\ at'[u] = i =>
           read'[u] = lists'[s][buckets'[u]][i]
    BY <1>1, <1>2, <2>5, <2>6, ZenonT(30)
  <2> QED
    <3>1. PICK count2, worth2 :
            count2 = Cardinality(Short(s, i))' /\ worth2 = ideal'.histograms[s].buckets[i]
      OBVIOUS
    <3>2. count2 = n /\ worth2 = worth
      BY <2>2, <3>1
    <3>3. \A l \in Live(s)' : lists'[s][l][i] + count2 <= worth2
      BY <1>2, <1>8, <2>4, <3>2
    <3>4. s \notin raced' => /\ Live(s)' = {} => count2 = worth2
                            /\ \A l \in Live(s)' : lists'[s][l][i] + count2 = worth2
      BY <1>1, <1>2, <1>8, <2>5, <3>2
    <3>5. \A u \in Middle(s)' : step'[u] = "bucket write" /\ at'[u] = i => read'[u] + count2 <= worth2
      BY <2>7, <3>2
    <3>6. count2 <= worth2
      BY <2>4, <3>2
    <3> QED
      BY <2>8, <3>1, <3>3, <3>4, <3>5, <3>6 DEF BucketBook
<1>10. ASSUME ~torn PROVE Shared(s)'
  BY <1>1, <1>2, <1>7, <1>10, BucketTypes DEF Shared
<1> QED
  BY <1>6, <1>9, <1>10
\* The loop of observe() writes the bucket that it read, and goes on.
LEMMA WriteBuckets ==
    ASSUME Types, TypeInv, DueInv, FreshInv, BucketsInv, NEW t \in Threads, BucketWrite(t),
           NEW s \in Histograms, s = Current(t), NEW i \in Buckets
    PROVE  /\ IsFiniteSet(Short(s, i))'
           /\ ~torn => BucketBook(s, i)' /\ Shared(s)'
<1>0. /\ todo \in [Threads -> Seq(Measured)]
      /\ step \in [Threads -> {"begin", "write", "bucket", "bucket write"}]
      /\ read \in [Threads -> Nat] /\ at \in [Threads -> 1..(Len(Bounds) + 1)]
      /\ lists \in [Histograms -> [Lists -> [Buckets -> Nat]]]
      /\ buckets \in [Threads -> Lists]
  BY DEF Types, TypeInv, Registered
<1>1. /\ s \in Named(todo[t]) /\ todo' = todo /\ raced' = raced
      /\ Mid(t, s)
      /\ \A u \in Threads : Mid(u, s)' <=> Mid(u, s)
      /\ \A u \in Threads : u # t => step'[u] = step[u] /\ read'[u] = read[u] /\ at'[u] = at[u]
  BY LoopEffect
<1>2. /\ UNCHANGED <<histograms, ideal, buckets>> /\ step[t] = "bucket write" /\ step'[t] = "bucket"
      /\ lists' = [lists EXCEPT ![s][buckets[t]][at[t]] = read[t] + 1]
      /\ at'[t] = at[t] + 1
  BY <1>0 DEF BucketWrite, At, Aside
<1>3. Amount(todo[t], s) = Own(t) /\ Own(t) \in Nat /\ at[t] \in Buckets
  BY <1>1, <1>2, OwnAmount
<1>4. PICK k \in Nat, j \in Nat : k = i /\ j = at[t] /\ at'[t] = j + 1
  BY <1>2, <1>3, BucketTypes
<1>5. Middle(s)' = Middle(s) /\ t \in Middle(s)
  BY <1>1 DEF Middle
<1>6. Live(s)' = Live(s) /\ buckets[t] \in Live(s) /\ Live(s) \subseteq Lists
  BY <1>2, <1>5, BucketTypes DEF Live
<1>7. \A u \in Threads : u # t => (u \in Short(s, i)' <=> u \in Short(s, i))
  BY <1>1 DEF Short
<1>8. ASSUME ~torn PROVE Shared(s)'
  BY <1>1, <1>2, <1>5, <1>8, BucketTypes DEF Shared
<1>9. CASE k # j
  <2>1. j + 1 <= k <=> j <= k
    BY <1>9
  <2>2. t \in Short(s, i)' <=> t \in Short(s, i)
    BY <1>1, <1>4, <2>1 DEF Short
  <2>3. Short(s, i)' = Short(s, i)
    BY <1>7, <2>2 DEF Short
  <2>4. ASSUME NEW l \in Lists PROVE lists'[s][l][i] = lists[s][l][i]
    <3>1. lists[s] \in [Lists -> [Buckets -> Nat]]
      BY <1>0
    <3>2. lists'[s] = [lists[s] EXCEPT ![buckets[t]] = [@ EXCEPT ![at[t]] = read[t] + 1]]
      BY <1>0, <1>2
    <3>3. lists'[s][l] = IF l = buckets[t] THEN [lists[s][l] EXCEPT ![at[t]] = read[t] + 1] ELSE lists[s][l]
      BY <3>1, <3>2
    <3>4. lists[s][l] \in [Buckets -> Nat] /\ i # at[t]
      BY <1>4, <1>9, <3>1
    <3> QED
      BY <3>3, <3>4
  <2>5. IsFiniteSet(Short(s, i))'
    BY <2>3, BucketTypes
  <2>6. \A u \in Middle(s)' : step'[u] = "bucket write" /\ at'[u] = i =>
           /\ u \in Middle(s) /\ step[u] = "bucket write" /\ at[u] = i
           /\ read'[u] = read[u] /\ buckets'[u] = buckets[u] /\ buckets'[u] \in Live(s)'
    BY <1>1, <1>2, <1>5, <1>6, BucketTypes
  <2>7. \A l \in Live(s)' : lists'[s][l][i] = lists[s][l][i]
    BY <1>6, <2>4
  <2>8. ASSUME ~torn PROVE BucketBook(s, i)'
    <3>1. BucketBook(s, i)
      BY <2>8, BucketTypes
    <3>2. raced \subseteq raced' /\ ideal'.histograms[s].buckets[i] = ideal.histograms[s].buckets[i]
      BY <1>1, <1>2
    <3>3. Live(s)' \subseteq Live(s) /\ (s \notin raced' /\ Live(s)' = {} => Live(s) = {})
      BY <1>6
    <3> QED
      BY <2>3, <2>6, <2>7, <3>1, <3>2, <3>3, BucketKept
  <2> QED
    BY <1>8, <2>5, <2>8
<1>10. CASE k = j
  <2>1. t \in Short(s, i)
    <3>1. Own(t) <= Bounds[i]
      BY <1>2, <1>4, <1>10 DEF BucketsInv, Aimed
    <3> QED
      BY <1>1, <1>3, <1>4, <1>10, <3>1 DEF Short
  <2>2. t \notin Short(s, i)'
    <3>1. ~(j + 1 <= k)
      BY <1>10
    <3> QED
      BY <1>1, <1>4, <3>1 DEF Short
  <2>3. PICK n \in Nat, n2 \in Nat, worth \in Nat, seen \in Nat :
           /\ n = Cardinality(Short(s, i)) /\ n2 = Cardinality(Short(s, i))' /\ n2 + 1 = n
           /\ worth = ideal.histograms[s].buckets[i] /\ seen = read[t]
    <3>1. PICK S, T : S = Short(s, i) /\ T = Short(s, i)'
      OBVIOUS
    <3>2. IsFiniteSet(S) /\ \A u : u # t => (u \in T <=> u \in S)
      BY <1>7, <3>1, BucketTypes DEF Short
    <3>3. Cardinality(T) + 1 = Cardinality(S) /\ Cardinality(T) \in Nat /\ Cardinality(S) \in Nat
      BY <2>1, <2>2, <3>1, <3>2, SetChange
    <3> QED
      BY <1>0, <3>1, <3>3, BucketTypes
  <2>4. IsFiniteSet(Short(s, i))'
    <3>1. Short(s, i)' \subseteq Short(s, i)
      BY <1>7, <2>2 DEF Short
    <3> QED
      BY <3>1, BucketTypes, FS_Subset
  <2>5. /\ lists'[s][buckets[t]][i] = seen + 1
        /\ \A l \in Lists : l # buckets[t] => lists'[s][l][i] = lists[s][l][i]
    <3>1. lists[s] \in [Lists -> [Buckets -> Nat]] /\ buckets[t] \in Lists
      BY <1>0, <1>6
    <3>2. lists'[s] = [lists[s] EXCEPT ![buckets[t]] = [@ EXCEPT ![at[t]] = read[t] + 1]]
      BY <1>0, <1>2
    <3>3. at[t] = i /\ seen = read[t]
      BY <1>4, <1>10, <2>3
    <3>4. /\ lists'[s][buckets[t]] = [lists[s][buckets[t]] EXCEPT ![i] = seen + 1]
          /\ \A l \in Lists : l # buckets[t] => lists'[s][l] = lists[s][l]
      BY <3>1, <3>2, <3>3
    <3>5. lists[s][buckets[t]] \in [Buckets -> Nat] /\ i \in Buckets
      BY <1>3, <3>1, <3>3
    <3> QED
      BY <3>4, <3>5
  <2>6. ASSUME ~torn PROVE BucketBook(s, i)'
    <3>1. BucketBook(s, i) /\ Shared(s)
      BY <2>6, BucketTypes
    <3>2. /\ n <= worth
          /\ \A l \in Live(s) : lists[s][l][i] + n <= worth
          /\ \A u \in Middle(s) : step[u] = "bucket write" /\ at[u] = i => read[u] + n <= worth
      BY <2>3, <3>1 DEF BucketBook
    <3>3. s \notin raced => /\ \A l \in Live(s) : lists[s][l][i] + n = worth
                            /\ \A u \in Middle(s) : step[u] = "bucket write" /\ at[u] = i =>
                                  read[u] = lists[s][buckets[u]][i]
      BY <2>3, <3>1 DEF BucketBook
    <3>4. seen + n <= worth
      BY <1>2, <1>4, <1>5, <1>10, <2>3, <3>2
    <3>5. (seen + 1) + n2 = seen + n
      BY <2>3
    <3>6. \A m \in Nat : m + n <= worth => m + n2 <= worth
      BY <2>3
    <3>7. \A l \in Live(s)' : lists'[s][l][i] + n2 <= worth
      <4>1. \A l \in Lists : lists[s][l][i] \in Nat
        BY BucketTypes
      <4>2. \A l \in Live(s) : l # buckets[t] => lists'[s][l][i] + n2 <= worth
        BY <1>6, <2>5, <3>2, <3>6, <4>1
      <4>3. lists'[s][buckets[t]][i] + n2 <= worth
        BY <2>5, <3>4, <3>5
      <4> QED
        BY <1>6, <4>2, <4>3
    <3>8. \A u \in Middle(s)' : step'[u] = "bucket write" /\ at'[u] = i => u # t /\ read'[u] + n2 <= worth
      <4>1. \A u \in Threads : read[u] \in Nat
        BY BucketTypes
      <4>2. \A u \in Middle(s) : u \in Threads
        BY DEF Middle
      <4> QED
        BY <1>1, <1>2, <1>5, <3>2, <3>6, <4>1, <4>2
    <3>9. ASSUME s \notin raced'
          PROVE  /\ \A l \in Live(s)' : lists'[s][l][i] + n2 = worth
                 /\ \A u \in Middle(s)' : ~(step'[u] = "bucket write" /\ at'[u] = i)
      <4>1. \A u \in Middle(s) : u = t
        BY <1>1, <3>9 DEF DueInv, Alone, Middle, Series
      <4>2. Live(s) = {buckets[t]}
        <5>1. histograms[s] # NoHistogram => buckets[t] = histograms[s].list
          BY <1>1, <1>5, <3>1, <3>9 DEF Shared
        <5> QED
          BY <1>6, <4>1, <5>1 DEF Live
      <4>3. seen + n = worth
        BY <1>1, <1>2, <1>4, <1>5, <1>6, <1>10, <2>3, <3>3, <3>9
      <4>4. lists'[s][buckets[t]][i] + n2 = worth
        BY <2>5, <3>5, <4>3
      <4> QED
        BY <1>5, <1>6, <3>8, <4>1, <4>2, <4>4
    <3>10. Live(s)' # {} /\ n2 <= worth
      <4>1. n <= worth
        BY <3>2
      <4>2. n2 <= worth
        BY <2>3, <4>1
      <4> QED
        BY <1>6, <4>2
    <3>11. n2 = Cardinality(Short(s, i))' /\ worth = ideal'.histograms[s].buckets[i]
      BY <1>2, <2>3
    <3> QED
      BY <3>7, <3>8, <3>9, <3>10, <3>11 DEF BucketBook
  <2> QED
    BY <1>8, <2>4, <2>6
<1> QED
  BY <1>9, <1>10

\* An observation is stored: all buckets have been seen to.
LEMMA StoreBuckets ==
    ASSUME Types, TypeInv, DueInv, FreshInv, BucketsInv, NEW t \in Threads, ObserveStore(t),
           NEW s \in Histograms, s = Current(t), NEW i \in Buckets
    PROVE  /\ Short(s, i)' = Short(s, i)
           /\ ~torn => BucketBook(s, i)' /\ Shared(s)'
<1>0. /\ todo \in [Threads -> Seq(Measured)]
      /\ histograms \in [Histograms -> [sum : Nat, count : Nat, list : Lists]]
      /\ total \in [Threads -> Nat] /\ count \in [Threads -> Nat] /\ buckets \in [Threads -> Lists]
      /\ step \in [Threads -> {"begin", "write", "bucket", "bucket write"}]
      /\ read \in [Threads -> Nat] /\ at \in [Threads -> 1..(Len(Bounds) + 1)]
  BY DEF Types, TypeInv, Registered
<1>1. /\ s \in Named(todo[t]) /\ s \notin Named(todo'[t])
      /\ \A u \in Threads : u # t => todo'[u] = todo[u] /\ step'[u] = step[u]
      /\ Mid(t, s) /\ ~Mid(t, s)'
      /\ \A u \in Threads : u # t => (Mid(u, s)' <=> Mid(u, s))
      /\ raced' = raced
  BY EndEffect
<1>2. /\ UNCHANGED <<lists, ideal, read>> /\ Belongs(t) = {}
      /\ histograms'[s] = [sum |-> total[t], count |-> count[t], list |-> buckets[t]]
      /\ \A u \in Threads : u # t => at'[u] = at[u] /\ buckets'[u] = buckets[u]
  BY <1>0 DEF ObserveStore, StoreThen, Aside
<1>3. Amount(todo[t], s) = Own(t)
  BY <1>1, OwnAmount
<1>4. t \in Middle(s) /\ Middle(s)' = Middle(s) \ {t}
  BY <1>1 DEF Middle
<1>5. count[t] > 0
  BY <1>4 DEF FreshInv, Started
<1>6. histograms'[s] # NoHistogram /\ histograms'[s].list = buckets[t]
  <2>1. PICK h : h = histograms'[s]
    OBVIOUS
  <2>2. h.count = count[t] /\ h.list = buckets[t]
    BY <1>2, <2>1
  <2>3. count[t] # 0
    <3>1. PICK n \in Nat : n = count[t]
      BY <1>0
    <3>2. n > 0
      BY <1>5, <3>1
    <3> QED
      BY <3>1, <3>2
  <2>4. NoHistogram.count = 0
    BY DEF NoHistogram
  <2> QED
    BY <2>1, <2>2, <2>3, <2>4
<1>7. buckets[t] \in Live(s)' /\ Live(s)' \subseteq Live(s)
  <2>1. buckets[t] \in Live(s) /\ buckets[t] \in Lists
    BY <1>0, <1>4, BucketTypes
  <2>2. \A u \in Middle(s)' : u \in Middle(s) /\ buckets'[u] = buckets[u]
    BY <1>2, <1>4 DEF Middle
  <2> QED
    BY <1>6, <2>1, <2>2 DEF Live
<1>8. Short(s, i)' = Short(s, i)
  <2>1. t \notin Short(s, i)
    <3>1. i \in 1..Len(Bounds) /\ i \in Nat /\ at[t] \in Nat
      BY BucketTypes
    <3>2. Own(t) <= Bounds[i] /\ at[t] <= i => i \in Belongs(t)
      BY <3>1 DEF Belongs, Own
    <3> QED
      BY <1>1, <1>2, <1>3, <3>2 DEF Short
  <2>2. t \notin Short(s, i)'
    BY <1>1 DEF Short
  <2>3. \A u \in Threads : u # t => (u \in Short(s, i)' <=> u \in Short(s, i))
    BY <1>1, <1>2 DEF Short
  <2> QED
    BY <2>1, <2>2, <2>3 DEF Short
<1>9. ASSUME ~torn PROVE BucketBook(s, i)'
  <2>1. BucketBook(s, i)
    BY <1>9, BucketTypes
  <2>2. ASSUME NEW u \in Middle(s)' PROVE u \in Middle(s) /\ u # t /\ u \in Threads /\ buckets'[u] \in Live(s)'
    BY <1>0, <1>2, <1>4, <2>2 DEF Live, Middle
  <2>3. \A u \in Middle(s)' : step'[u] = "bucket write" /\ at'[u] = i =>
           /\ u \in Middle(s) /\ step[u] = "bucket write" /\ at[u] = i
           /\ read'[u] = read[u] /\ buckets'[u] = buckets[u] /\ buckets'[u] \in Live(s)'
    BY <1>1, <1>2, <2>2
  <2> QED
    BY <1>1, <1>2, <1>7, <1>8, <2>1, <2>3, BucketKept
<1>10. Shared(s)'
  <2>1. s \notin raced => \A u \in Middle(s) : u = t
    BY <1>1 DEF DueInv, Alone, Middle, Series
  <2> QED
    BY <1>1, <1>4, <2>1 DEF Shared
<1> QED
  BY <1>8, <1>9, <1>10
\* A request comes, or goes.
LEMMA WayBuckets ==
    ASSUME Types, TypeInv, DueInv, BucketsInv, NEW t \in Threads, NEW v, Announced(t, v),
           UNCHANGED <<histograms, lists, step, read, buckets, at, raced>>,
           \A u \in Threads : \A q : Mid(u, q)' <=> Mid(u, q), \A q : ~Mid(t, q),
           NEW s \in Histograms, NEW i \in Buckets
    PROVE  /\ IsFiniteSet(Short(s, i))'
           /\ ~torn => BucketBook(s, i)' /\ Shared(s)'
<1>1. /\ todo'[t] = v /\ \A u \in Threads : u # t => todo'[u] = todo[u]
      /\ s \notin Named(todo[t])
  BY AmountEmpty DEF Types, Announced
<1>2. Middle(s)' = Middle(s)
  BY DEF Middle
<1>3. Live(s)' = Live(s)
  BY <1>2 DEF Live
<1>4. ASSUME ~torn PROVE Shared(s)'
  BY <1>2, <1>4, BucketTypes DEF Shared
<1>5. /\ \A u \in Threads : u # t => (u \in Short(s, i)' <=> u \in Short(s, i))
      /\ t \notin Short(s, i)
      /\ t \in Short(s, i)' <=> s \in Named(v) /\ Amount(v, s) <= Bounds[i]
  BY <1>1 DEF Short
<1>6. CASE ~(s \in Named(v) /\ Amount(v, s) <= Bounds[i])
  <2>1. Short(s, i)' = Short(s, i)
    BY <1>5, <1>6 DEF Short
  <2>2. ideal'.histograms[s].buckets[i] = ideal.histograms[s].buckets[i]
    <3>1. CASE s \notin Named(v)
      BY <3>1 DEF Announced
    <3>2. CASE s \in Named(v) /\ ~(Amount(v, s) <= Bounds[i])
      <4>1. ideal'.histograms[s] = Observed(ideal.histograms[s], Amount(v, s))
        BY <3>2 DEF Announced
      <4>2. ideal'.histograms[s].buckets[i] = ideal.histograms[s].buckets[i] + 0
        BY <3>2, <4>1 DEF Observed
      <4>3. PICK worth \in Nat : worth = ideal.histograms[s].buckets[i]
        BY BucketTypes
      <4> QED
        BY <4>2, <4>3
    <3> QED
      BY <1>6, <3>1, <3>2
  <2>3. ASSUME ~torn PROVE BucketBook(s, i)'
    <3>1. BucketBook(s, i)
      BY <2>3, BucketTypes
    <3>2. \A u \in Middle(s)' : step'[u] = "bucket write" /\ at'[u] = i =>
             /\ u \in Middle(s) /\ step[u] = "bucket write" /\ at[u] = i
             /\ read'[u] = read[u] /\ buckets'[u] = buckets[u] /\ buckets'[u] \in Live(s)'
      BY <1>2, <1>3, BucketTypes
    <3>3. \A l \in Live(s)' : lists'[s][l][i] = lists[s][l][i]
      OBVIOUS
    <3>4. raced \subseteq raced' /\ Live(s)' \subseteq Live(s) /\ (s \notin raced' /\ Live(s)' = {} => Live(s) = {})
      BY <1>3
    <3> QED
      BY <2>1, <2>2, <3>1, <3>2, <3>3, <3>4, BucketKept
  <2> QED
    BY <1>4, <2>1, <2>3, BucketTypes
<1>7. CASE s \in Named(v) /\ Amount(v, s) <= Bounds[i]
  <2>1. PICK n \in Nat, n2 \in Nat : n = Cardinality(Short(s, i)) /\ n2 = Cardinality(Short(s, i))' /\ n2 = n + 1
    <3>1. PICK S, T : S = Short(s, i) /\ T = Short(s, i)'
      OBVIOUS
    <3>2. IsFiniteSet(S) /\ \A u : u # t => (u \in T <=> u \in S)
      BY <1>5, <3>1, BucketTypes DEF Short
    <3>3. Cardinality(T) = Cardinality(S) + 1 /\ Cardinality(T) \in Nat /\ Cardinality(S) \in Nat
      BY <1>5, <1>7, <3>1, <3>2, SetChange
    <3> QED
      BY <3>1, <3>3
  <2>2. IsFiniteSet(Short(s, i))'
    <3>1. Short(s, i)' = Short(s, i) \cup {t}
      BY <1>5, <1>7 DEF Short
    <3> QED
      BY <3>1, BucketTypes, FS_AddElement
  <2>3. PICK worth \in Nat : worth = ideal.histograms[s].buckets[i] /\ ideal'.histograms[s].buckets[i] = worth + 1
    <3>1. ideal'.histograms[s] = Observed(ideal.histograms[s], Amount(v, s))
      BY <1>7 DEF Announced
    <3>2. ideal'.histograms[s].buckets[i] = ideal.histograms[s].buckets[i] + 1
      BY <1>7, <3>1 DEF Observed
    <3> QED
      BY <3>2, BucketTypes
  <2>4. ASSUME ~torn PROVE BucketBook(s, i)'
    <3>1. BucketBook(s, i)
      BY <2>4, BucketTypes
    <3>2. /\ n <= worth
          /\ \A l \in Live(s) : lists[s][l][i] + n <= worth
          /\ \A u \in Middle(s) : step[u] = "bucket write" /\ at[u] = i => read[u] + n <= worth
          /\ s \notin raced => /\ Live(s) = {} => n = worth
                               /\ \A l \in Live(s) : lists[s][l][i] + n = worth
                               /\ \A u \in Middle(s) : step[u] = "bucket write" /\ at[u] = i =>
                                     read[u] = lists[s][buckets[u]][i]
      BY <2>1, <2>3, <3>1 DEF BucketBook
    <3>3. /\ \A m \in Nat : m + n <= worth => m + n2 <= worth + 1
          /\ \A m \in Nat : m + n = worth => m + n2 = worth + 1
          /\ n2 <= worth + 1 /\ (n = worth => n2 = worth + 1)
      <4>1. n2 = n + 1 /\ n <= worth
        BY <2>1, <3>2
      <4> QED
        BY <4>1
    <3>4. \A l \in Live(s) : lists[s][l][i] \in Nat
      BY BucketTypes
    <3>5. \A u \in Middle(s) : read[u] \in Nat
      BY BucketTypes DEF Middle
    <3>6. \A l \in Live(s)' : lists'[s][l][i] + n2 <= worth + 1
      BY <1>3, <3>2, <3>3, <3>4
    <3>7. \A u \in Middle(s)' : step'[u] = "bucket write" /\ at'[u] = i => read'[u] + n2 <= worth + 1
      BY <1>2, <3>2, <3>3, <3>5
    <3>8. ASSUME s \notin raced'
          PROVE  /\ Live(s)' = {} => n2 = worth + 1
                 /\ \A l \in Live(s)' : lists'[s][l][i] + n2 = worth + 1
                 /\ \A u \in Middle(s)' : step'[u] = "bucket write" /\ at'[u] = i => read'[u] = lists'[s][buckets'[u]][i]
      <4>1. s \notin raced
        BY <3>8
      <4>2. Live(s)' = {} => n2 = worth + 1
        BY <1>3, <3>2, <3>3, <4>1
      <4>3. \A l \in Live(s)' : lists'[s][l][i] + n2 = worth + 1
        BY <1>3, <3>2, <3>3, <3>4, <4>1
      <4>4. \A u \in Middle(s)' : step'[u] = "bucket write" /\ at'[u] = i => read'[u] = lists'[s][buckets'[u]][i]
        BY <1>2, <3>2, <4>1
      <4> QED
        BY <4>2, <4>3, <4>4
    <3>9. PICK worth2 : worth2 = worth + 1 /\ worth2 = ideal'.histograms[s].buckets[i]
      BY <2>3
    <3> QED
      BY <2>1, <3>3, <3>6, <3>7, <3>8, <3>9 DEF BucketBook
  <2> QED
    BY <1>4, <2>2, <2>4
<1> QED
  BY <1>6, <1>7

LEMMA BucketsInit == Init => BucketsInv
<1> SUFFICES ASSUME Init PROVE BucketsInv
  OBVIOUS
<1>0. TypeInv
  BY TypeInvInit
<1>1. \A t \in Threads : todo[t] = <<>> /\ step[t] = "begin"
  BY DEF Init
<1>2. \A s : Middle(s) = {}
  BY <1>1 DEF Middle, Mid
<1>3. ASSUME NEW s \in Histograms, NEW i \in Buckets
      PROVE  IsFiniteSet(Short(s, i)) /\ BucketBook(s, i)
  <2>1. \A t \in Threads : Named(todo[t]) = {}
    BY <1>1, AmountEmpty
  <2>2. Short(s, i) = {} /\ IsFiniteSet(Short(s, i)) /\ Cardinality(Short(s, i)) = 0
    <3>1. Short(s, i) = {}
      BY <2>1 DEF Short
    <3> QED
      BY <3>1, FS_EmptySet
  <2>3. /\ histograms[s].list = 0
        /\ histograms[s].count = ideal.histograms[s].count /\ histograms[s].sum = ideal.histograms[s].sum
        /\ lists[s][0] = ideal.histograms[s].buckets
    <3>1. 0 \in Lists
      BY TelemetryAssumption DEF Lists
    <3>2. lists = [q \in Histograms |-> [r \in Lists |-> IF r = 0 THEN ideal.histograms[q].buckets ELSE NewList]]
      BY DEF Init, InitRegistry
    <3>3. histograms = [q \in Histograms |->
             [sum |-> ideal.histograms[q].sum, count |-> ideal.histograms[q].count, list |-> 0]]
      BY DEF Init, InitRegistry
    <3> QED
      BY <3>1, <3>2, <3>3
  <2>4. ideal.histograms[s].buckets[i] \in Nat
    <3>1. ideal.histograms[s] \in [sum : Nat, count : Nat, buckets : [Buckets -> Nat]]
      BY <1>0 DEF TypeInv, Registered, Ideals
    <3>2. ideal.histograms[s].buckets \in [Buckets -> Nat]
      BY <3>1
    <3> QED
      BY <3>2
  <2>5. \A l \in Live(s) : l = 0
    BY <1>2, <2>3 DEF Live
  <2>6. ideal.histograms[s].count = 0 => ideal.histograms[s].buckets[i] = 0
    <3>1. CASE ideal = NoMetrics
      BY <3>1 DEF NoMetrics, NewList
    <3>2. CASE \E op \in Operations, answer \in Answers, duration \in Durations :
                  ideal = OneEarlier(op, answer, duration)
      <4>1. PICK op \in Operations, duration \in Durations :
               ideal.histograms = [NoMetrics.histograms EXCEPT
                   ![<<"uai_request_duration_seconds", op>>] = Observed(@, duration)]
        BY <3>2 DEF OneEarlier
      <4>2. PICK latency : latency = <<"uai_request_duration_seconds", op>>
        OBVIOUS
      <4>3. CASE s = latency
        <5>1. ideal.histograms[s] = Observed(NoMetrics.histograms[s], duration)
          BY <4>1, <4>2, <4>3 DEF NoMetrics
        <5>2. ideal.histograms[s].count = NoMetrics.histograms[s].count + 1
          BY <5>1 DEF Observed
        <5>3. NoMetrics.histograms[s].count = 0
          BY DEF NoMetrics
        <5> QED
          BY <5>2, <5>3
      <4>4. CASE s # latency
        BY <4>1, <4>2, <4>4 DEF NoMetrics, NewList
      <4> QED
        BY <4>3, <4>4
    <3> QED
      BY <3>1, <3>2 DEF Init, InitRegistry
  <2>7. Live(s) = {} => ideal.histograms[s].buckets[i] = 0
    <3>1. histograms[s].count # 0 => histograms[s] # NoHistogram
      BY DEF NoHistogram
    <3>2. histograms[s] # NoHistogram => 0 \in Live(s)
      BY <2>3, TelemetryAssumption DEF Live, Lists
    <3> QED
      BY <2>3, <2>6, <3>1, <3>2
  <2>8. PICK worth \in Nat : worth = ideal.histograms[s].buckets[i]
    BY <2>4
  <2>9. \A l \in Live(s) : lists[s][l][i] = worth
    BY <2>3, <2>5, <2>8
  <2>10. BucketBook(s, i)
    <3>1. 0 <= worth /\ worth + 0 <= worth /\ worth + 0 = worth
      BY <2>8
    <3> QED
      BY <1>2, <2>2, <2>7, <2>8, <2>9, <3>1 DEF BucketBook
  <2> QED
    BY <2>2, <2>10
<1>4. Aimed
  BY <1>1 DEF Aimed
<1>5. \A s : Shared(s)
  BY <1>2 DEF Shared
<1> QED
  BY <1>3, <1>4, <1>5 DEF BucketsInv
LEMMA AimedKept ==
    ASSUME Types, TypeInv, Aimed, [Next]_vars PROVE Aimed'
<1>0. /\ todo \in [Threads -> Seq(Measured)]
      /\ step \in [Threads -> {"begin", "write", "bucket", "bucket write"}]
      /\ at \in [Threads -> 1..(Len(Bounds) + 1)]
  BY DEF Types, TypeInv, Registered
<1>1. ASSUME NEW t \in Threads, InHook(t) PROVE Aimed'
  <2>1. \A u \in Threads : u # t => step'[u] = step[u] /\ at'[u] = at[u] /\ todo'[u] = todo[u]
    BY <1>0, <1>1 DEF InHook, IncrementRead, IncrementWrite, ObserveGet, Observes, BucketRead, BucketWrite,
         ObserveStore, StoreThen, At, EndUpdate, Return, locals
  <2>2. step'[t] = "bucket write" => Own(t)' <= Bounds[at'[t]]
    <3>1. CASE BucketRead(t)
      <4>1. todo' = todo /\ \E i \in Belongs(t) : at' = [at EXCEPT ![t] = i]
        BY <3>1 DEF BucketRead, At
      <4> QED
        BY <1>0, <4>1 DEF Belongs, Own
    <3>2. CASE Return(t)
      <4>1. UNCHANGED <<todo, step, at>>
        BY <3>2 DEF Return, locals
      <4> QED
        BY <4>1 DEF Aimed, Own
    <3>3. CASE IncrementRead(t) \/ IncrementWrite(t) \/ ObserveGet(t) \/ BucketWrite(t) \/ ObserveStore(t)
      BY <1>0, <3>3 DEF IncrementRead, IncrementWrite, ObserveGet, Observes, BucketWrite, ObserveStore, StoreThen, At,
           EndUpdate
    <3> QED
      BY <1>1, <3>1, <3>2, <3>3 DEF InHook
  <2> QED
    BY <2>1, <2>2 DEF Aimed, Own
<1>2. ASSUME NEW t \in Threads,
             \/ BeforeRequest(t) \/ HaltEarly(t) \/ FirstChunk(t) \/ Lose(t)
             \/ FinishSpan(t, "ok") \/ FinishSpan(t, "error")
             \/ FinishOtelSpan(t) \/ BeginHook(t)
      PROVE  Aimed'
  <2>1. UNCHANGED <<step, at>> /\ \A u \in Threads : u # t => todo'[u] = todo[u]
    BY <1>2, WayEffect
  <2>2. step[t] = "begin"
    <3>1. PICK v : Announced(t, v)
      BY <1>2, WayEffect
    <3> QED
      BY <1>0, <3>1 DEF Announced, TypeInv, Located
  <2> QED
    BY <2>1, <2>2 DEF Aimed, Own
<1>3. CASE ClearCounters \/ ClearHistograms \/ UNCHANGED vars
  <2>1. UNCHANGED <<todo, step, at>>
    BY <1>3 DEF ClearCounters, ClearHistograms, Clear, vars, locals
  <2> QED
    BY <2>1 DEF Aimed, Own
<1> QED
  BY <1>1, <1>2, <1>3 DEF Next, Stop, OnTheWay

LEMMA ClearBuckets ==
    ASSUME Types, TypeInv, DueInv, BucketsInv, ClearCounters \/ ClearHistograms, ~torn',
           NEW s \in Histograms, NEW i \in Buckets
    PROVE  BucketBook(s, i)' /\ Shared(s)'
<1>1. /\ ~torn /\ ~AtWork
      /\ UNCHANGED <<lists, todo, step, read, buckets, at, raced>>
  BY DEF ClearCounters, ClearHistograms, Clear, locals
<1>2. \A t \in Threads : todo[t] = <<>> /\ step[t] = "begin"
  BY <1>1, NothingAtWork DEF TypeInv
<1>3. ideal \in Ideals
  BY DEF TypeInv, Registered
<1>4. CASE ClearCounters
  <2>1. histograms' = histograms /\ ideal'.histograms = ideal.histograms
    BY <1>3, <1>4 DEF ClearCounters, Ideals
  <2>2. \A u \in Threads : Mid(u, s)' <=> Mid(u, s)
    BY <1>1 DEF Mid, Current
  <2> QED
    BY <1>1, <2>1, <2>2, BucketsStay
<1>5. CASE ClearHistograms
  <2>1. /\ histograms'[s] = NoHistogram
        /\ ideal'.histograms[s] = [sum |-> 0, count |-> 0, buckets |-> NewList]
    BY <1>3, <1>5 DEF ClearHistograms, NoHistograms, NoMetrics, Ideals
  <2>2. Middle(s)' = {}
    BY <1>1, <1>2 DEF Middle, Mid
  <2>3. Live(s)' = {}
    BY <2>1, <2>2 DEF Live
  <2>4. Short(s, i)' = {}
    <3>1. \A t \in Threads : Named(todo'[t]) = {}
      BY <1>1, <1>2, AmountEmpty
    <3> QED
      BY <3>1 DEF Short
  <2>5. Cardinality(Short(s, i))' = 0
    BY <2>4, FS_EmptySet
  <2>6. ideal'.histograms[s].buckets[i] = 0
    BY <2>1 DEF NewList
  <2> QED
    BY <2>2, <2>3, <2>5, <2>6 DEF BucketBook, Shared
<1> QED
  BY <1>4, <1>5

LEMMA BucketsStep ==
    ASSUME Types, TypeInv, DueInv, FreshInv, BucketsInv, [Next]_vars PROVE BucketsInv'
<1>0. Aimed'
  BY AimedKept DEF BucketsInv
<1>1. ASSUME NEW t \in Threads, InHook(t) PROVE BucketsInv'
  <2>1. torn' = torn
    BY <1>1 DEF InHook, IncrementRead, IncrementWrite, ObserveGet, Observes, BucketRead, BucketWrite, ObserveStore,
         StoreThen, Return, Aside, history
  <2>2. ASSUME NEW s \in Histograms, NEW i \in Buckets
        PROVE  IsFiniteSet(Short(s, i))' /\ (~torn => BucketBook(s, i)' /\ Shared(s)')
    <3>1. CASE BucketWrite(t) /\ s = Current(t)
      BY <3>1, WriteBuckets
    <3>2. CASE ~(BucketWrite(t) /\ s = Current(t))
      <4>1. Short(s, i)' = Short(s, i) /\ (~torn => BucketBook(s, i)' /\ Shared(s)')
        BY <1>1, <3>2, GetBuckets, ReadBuckets, StoreBuckets, OtherBuckets
      <4>2. IsFiniteSet(Short(s, i))'
        BY <4>1, BucketTypes
      <4> QED
        BY <4>1, <4>2
    <3> QED
      BY <3>1, <3>2
  <2> QED
    BY <1>0, <2>1, <2>2 DEF BucketsInv, Short
<1>2. ASSUME NEW t \in Threads,
             \/ BeforeRequest(t) \/ HaltEarly(t) \/ FirstChunk(t) \/ Lose(t)
             \/ FinishSpan(t, "ok") \/ FinishSpan(t, "error")
             \/ FinishOtelSpan(t) \/ BeginHook(t)
      PROVE  BucketsInv'
  <2>1. /\ \E v : Announced(t, v)
        /\ UNCHANGED <<histograms, lists, step, read, buckets, at, raced>> /\ torn' = torn
        /\ \A u \in Threads : \A s : Mid(u, s)' <=> Mid(u, s)
        /\ \A s : ~Mid(t, s)
    BY <1>2, WayEffect
  <2>2. PICK v : Announced(t, v)
    BY <2>1
  <2>3. ASSUME NEW s \in Histograms, NEW i \in Buckets
        PROVE  IsFiniteSet(Short(s, i))' /\ (~torn => BucketBook(s, i)' /\ Shared(s)')
    BY <2>1, <2>2, WayBuckets
  <2> QED
    BY <1>0, <2>1, <2>3 DEF BucketsInv, Short
<1>3. CASE ClearCounters \/ ClearHistograms
  <2>1. ASSUME NEW s \in Histograms, NEW i \in Buckets PROVE IsFiniteSet(Short(s, i))'
    <3>1. UNCHANGED <<todo, step, at>>
      BY <1>3 DEF ClearCounters, ClearHistograms, Clear, locals
    <3>2. Short(s, i)' = Short(s, i)
      BY <3>1 DEF Short, Mid, Current
    <3> QED
      BY <3>2, BucketTypes
  <2>2. ASSUME NEW s \in Histograms, NEW i \in Buckets, ~torn' PROVE BucketBook(s, i)' /\ Shared(s)'
    BY <1>3, <2>2, ClearBuckets
  <2> QED
    BY <1>0, <2>1, <2>2 DEF BucketsInv, Short
<1>4. CASE UNCHANGED vars
  <2>1. UNCHANGED <<histograms, lists, ideal, todo, step, read, buckets, at, raced, torn>>
    BY <1>4 DEF vars, registry, locals, history
  <2>2. \A u \in Threads : \A s : Mid(u, s)' <=> Mid(u, s)
    BY <2>1 DEF Mid, Current
  <2>3. ASSUME NEW s \in Histograms, NEW i \in Buckets
        PROVE  IsFiniteSet(Short(s, i))' /\ (~torn => BucketBook(s, i)' /\ Shared(s)')
    <3>1. Short(s, i)' = Short(s, i) /\ (~torn => BucketBook(s, i)' /\ Shared(s)')
      BY <2>1, <2>2, BucketsStay
    <3> QED
      BY <3>1, BucketTypes
  <2> QED
    BY <1>0, <2>1, <2>3 DEF BucketsInv, Short
<1> QED
  BY <1>1, <1>2, <1>3, <1>4 DEF Next, Stop, OnTheWay
-----------------------------------------------------------------------------
(* What the registry shows.                                                *)

LEMMA ShownAtMost ==
    ASSUME Types, TypeInv, DueInv, CountersInv, SumsInv, BucketsInv, ~torn
    PROVE  /\ \A s \in Counters : counters[s] <= ideal.counters[s]
           /\ \A s \in Histograms :
                 /\ Shown(s).sum <= ideal.histograms[s].sum /\ Shown(s).count <= ideal.histograms[s].count
                 /\ \A i \in Buckets : Shown(s).buckets[i] <= ideal.histograms[s].buckets[i]
<1>1. \A n \in Nat, m \in Nat, d \in Nat : n + d <= m => n <= m
  OBVIOUS
<1>2. ASSUME NEW s \in Counters PROVE counters[s] <= ideal.counters[s]
  <2>1. s \in Series /\ counters[s] \in Nat /\ ideal.counters[s] \in Nat
    BY DEF Series, TypeInv, Registered, Ideals
  <2>2. Cardinality(Due(todo, s)) \in Nat
    BY <2>1, FS_CardinalityType DEF DueInv
  <2>3. counters[s] + Cardinality(Due(todo, s)) <= ideal.counters[s]
    BY DEF CountersInv, CounterBook
  <2> QED
    BY <1>1, <2>1, <2>2, <2>3
<1>3. ASSUME NEW s \in Histograms
      PROVE  Shown(s).sum <= ideal.histograms[s].sum /\ Shown(s).count <= ideal.histograms[s].count
  <2>1. PICK sum \in Nat, n \in Nat, due \in Nat, waiting \in Nat, all \in Nat, times \in Nat :
           /\ sum = histograms[s].sum /\ n = histograms[s].count
           /\ due = Cardinality(Due(todo, s)) /\ waiting = Cardinality(Waiting(todo, s))
           /\ all = ideal.histograms[s].sum /\ times = ideal.histograms[s].count
    BY BookTypes
  <2>2. SumBook(s) /\ CountBook(s)
    BY DEF SumsInv
  <2>3. sum + due <= all
    BY <2>1, <2>2 DEF SumBook, Book
  <2>4. n + waiting <= times
    BY <2>1, <2>2 DEF CountBook, Book
  <2>5. Shown(s).sum = sum /\ Shown(s).count = n
    BY <2>1 DEF Shown
  <2>6. sum <= all
    BY <1>1, <2>1, <2>3
  <2>7. n <= times
    BY <1>1, <2>1, <2>4
  <2> QED
    BY <2>1, <2>5, <2>6, <2>7
<1>4. ASSUME NEW s \in Histograms, NEW i \in Buckets PROVE Shown(s).buckets[i] <= ideal.histograms[s].buckets[i]
  <2>1. PICK worth \in Nat, n \in Nat : worth = ideal.histograms[s].buckets[i] /\ n = Cardinality(Short(s, i))
    BY BucketTypes
  <2>2. BucketBook(s, i) /\ \A l \in Lists : lists[s][l][i] \in Nat
    BY BucketTypes
  <2>3. CASE histograms[s] = NoHistogram
    <3>1. Shown(s).buckets[i] = 0
      BY <2>3 DEF Shown, NewList
    <3> QED
      BY <2>1, <3>1
  <2>4. CASE histograms[s] # NoHistogram
    <3>1. Shown(s).buckets[i] = lists[s][histograms[s].list][i]
      BY <2>4 DEF Shown
    <3>2. histograms[s].list \in Lists /\ histograms[s].list \in Live(s)
      <4>1. histograms[s] \in [sum : Nat, count : Nat, list : Lists]
        BY DEF Types
      <4> QED
        BY <2>4, <4>1 DEF Live
    <3>3. PICK m \in Nat : m = lists[s][histograms[s].list][i]
      BY <2>2, <3>2
    <3>4. m + n <= worth
      BY <2>1, <2>2, <3>2, <3>3 DEF BucketBook
    <3>5. m <= worth
      BY <1>1, <3>4
    <3> QED
      BY <2>1, <3>1, <3>3, <3>5
  <2> QED
    BY <2>3, <2>4
<1> QED
  BY <1>2, <1>3, <1>4

LEMMA ShownWhole ==
    ASSUME Types, TypeInv, DueInv, CountersInv, SumsInv, BucketsInv, ~torn, \A t \in Threads : pc[t] = "idle"
    PROVE  /\ \A s \in Counters \ raced : counters[s] = ideal.counters[s]
           /\ \A s \in Histograms \ raced : Shown(s) = ideal.histograms[s]
<1>1. \A t \in Threads : todo[t] = <<>>
  BY DEF TypeInv, Located
<1>2. \A n \in Nat, m \in Nat : n + 0 = m => n = m
  OBVIOUS
<1>3. \A s : Cardinality(Due(todo, s)) = 0
  BY <1>1, NothingDue
<1>4. \A t \in Threads : Named(todo[t]) = {}
  BY <1>1, AmountEmpty
<1>5. ASSUME NEW s \in Counters, s \notin raced PROVE counters[s] = ideal.counters[s]
  <2>1. counters[s] \in Nat /\ ideal.counters[s] \in Nat
    BY DEF TypeInv, Registered, Ideals
  <2>2. counters[s] + 0 = ideal.counters[s]
    BY <1>3, <1>5 DEF CountersInv, CounterBook
  <2> QED
    BY <1>2, <2>1, <2>2
<1>6. ASSUME NEW s \in Histograms, s \notin raced PROVE Shown(s) = ideal.histograms[s]
  <2>1. PICK h \in [sum : Nat, count : Nat, buckets : [Buckets -> Nat]] : h = ideal.histograms[s]
    <3>1. ideal \in Ideals
      BY DEF TypeInv, Registered
    <3> QED
      BY <3>1 DEF Ideals
  <2>2. PICK sum \in Nat, n \in Nat : sum = histograms[s].sum /\ n = histograms[s].count
    BY BookTypes
  <2>3. Cardinality(Waiting(todo, s)) = 0
    <3>1. Waiting(todo, s) = {}
      BY <1>4 DEF Waiting
    <3> QED
      BY <3>1, FS_EmptySet
  <2>4. SumBook(s) /\ CountBook(s)
    BY DEF SumsInv
  <2>5. h.sum \in Nat /\ h.count \in Nat
    BY <2>1
  <2>6. sum = h.sum
    <3>1. sum + 0 = h.sum
      BY <1>3, <1>6, <2>1, <2>2, <2>4 DEF SumBook, Book
    <3> QED
      BY <1>2, <2>5, <3>1
  <2>7. n = h.count
    <3>1. n + 0 = h.count
      BY <1>6, <2>1, <2>2, <2>3, <2>4 DEF CountBook, Book
    <3> QED
      BY <1>2, <2>5, <3>1
  <2>8. PICK list \in [Buckets -> Nat] : list = Shown(s).buckets
    <3>1. CASE histograms[s] = NoHistogram
      BY <3>1, NewListType DEF Shown
    <3>2. CASE histograms[s] # NoHistogram
      <4>1. histograms[s].list \in Lists
        <5>1. histograms[s] \in [sum : Nat, count : Nat, list : Lists]
          BY DEF Types
        <5> QED
          BY <5>1
      <4>2. lists[s][histograms[s].list] \in [Buckets -> Nat]
        <5>1. lists \in [Histograms -> [Lists -> [Buckets -> Nat]]]
          BY DEF TypeInv, Registered
        <5>2. lists[s] \in [Lists -> [Buckets -> Nat]]
          BY <5>1
        <5> QED
          BY <4>1, <5>2
      <4> QED
        BY <3>2, <4>2 DEF Shown
    <3> QED
      BY <3>1, <3>2
  <2>9. ASSUME NEW i \in Buckets PROVE list[i] = h.buckets[i]
    <3>1. BucketBook(s, i) /\ h.buckets[i] \in Nat /\ list[i] \in Nat
      BY <2>1, <2>8, BucketTypes
    <3>2. Cardinality(Short(s, i)) = 0
      <4>1. Short(s, i) = {}
        BY <1>4 DEF Short
      <4> QED
        BY <4>1, FS_EmptySet
    <3>3. Middle(s) = {}
      BY <1>1 DEF Middle, Mid, TypeInv, Located
    <3>4. CASE histograms[s] = NoHistogram
      <4>1. Live(s) = {}
        BY <3>3, <3>4 DEF Live
      <4>2. h.buckets[i] = 0
        BY <1>6, <2>1, <3>1, <3>2, <4>1 DEF BucketBook
      <4>3. list[i] = 0
        BY <2>8, <3>4 DEF Shown, NewList
      <4> QED
        BY <4>2, <4>3
    <3>5. CASE histograms[s] # NoHistogram
      <4>1. histograms[s] \in [sum : Nat, count : Nat, list : Lists]
        BY DEF Types
      <4>2. histograms[s].list \in Live(s)
        BY <3>5, <4>1 DEF Live
      <4>3. list[i] = lists[s][histograms[s].list][i]
        BY <2>8, <3>5 DEF Shown
      <4>4. list[i] + 0 = h.buckets[i]
        BY <1>6, <2>1, <3>1, <3>2, <4>2, <4>3 DEF BucketBook
      <4> QED
        BY <1>2, <3>1, <4>4
    <3> QED
      BY <3>4, <3>5
  <2>10. list = h.buckets
    BY <2>1, <2>8, <2>9
  <2>11. Shown(s) = [sum |-> sum, count |-> n, buckets |-> list]
    BY <2>2, <2>8 DEF Shown
  <2>12. h = [sum |-> h.sum, count |-> h.count, buckets |-> h.buckets]
    BY <2>1
  <2> QED
    BY <2>1, <2>6, <2>7, <2>10, <2>11, <2>12
<1> QED
  BY <1>5, <1>6

(***************************************************************************)
(* Whatever the interleaving of increment(), observe() and the hooks, the  *)
(* registry never shows a request, a token or an observation that was not  *)
(* made; and once every hook has returned, a series without overlapping    *)
(* updates shows each exactly once, bucket by bucket, although requests    *)
(* overlap elsewhere and observations of a series share one bucket list.   *)
(***************************************************************************)
THEOREM HonestCounts == Spec => []CountsHonestly
<1>1. Init => SumsInv /\ FreshInv /\ BucketsInv
  BY SumsInit, FreshInit, BucketsInit
<1>2. IInv /\ TypeInv /\ DueInv /\ SumsInv /\ FreshInv /\ BucketsInv /\ [Next]_vars
         => SumsInv' /\ FreshInv' /\ BucketsInv'
  BY SumsStep, FreshStep, BucketsStep DEF IInv
<1>3. IInv /\ TypeInv /\ DueInv /\ CountersInv /\ SumsInv /\ BucketsInv => CountsHonestly
  <2> SUFFICES ASSUME IInv, TypeInv, DueInv, CountersInv, SumsInv, BucketsInv PROVE CountsHonestly
    OBVIOUS
  <2>1. Types
    BY DEF IInv
  <2>2. ASSUME ~torn
        PROVE  /\ \A s \in Counters : counters[s] <= ideal.counters[s]
               /\ \A s \in Histograms :
                     /\ Shown(s).sum <= ideal.histograms[s].sum /\ Shown(s).count <= ideal.histograms[s].count
                     /\ \A i \in Buckets : Shown(s).buckets[i] <= ideal.histograms[s].buckets[i]
    BY <2>1, <2>2, ShownAtMost
  <2>3. ASSUME Settled
        PROVE  /\ \A s \in Counters \ raced : counters[s] = ideal.counters[s]
               /\ \A s \in Histograms \ raced : Shown(s) = ideal.histograms[s]
    BY <2>1, <2>3, ShownWhole DEF Settled
  <2> QED
    BY <2>2, <2>3 DEF CountsHonestly
<1> QED
  BY CountersInvariant, <1>1, <1>2, <1>3, PTL DEF Spec
=============================================================================
