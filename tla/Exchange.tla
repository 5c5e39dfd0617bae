------------------------------ MODULE Exchange ------------------------------
(***************************************************************************)
(* The HTTP exchanges of a client with a RetryMiddleware, and the server   *)
(* at the other end: client.py (the requests and _handle_http_error),      *)
(* middleware/retry.py, and testing/mock_server.py, whose handler threads  *)
(* share the request count and the queue of injected failures, unlocked.   *)
(*                                                                         *)
(* A caller makes one call; its exchange number a is the attempt a.  When  *)
(* the caller gives an exchange up, the server's handler runs on.  Bodies  *)
(* are left out: what they hold is the adapters' matter.  Waits are kept   *)
(* in halves of a tick, for the jitter.                                    *)
(***************************************************************************)
EXTENDS Integers, Sequences, FiniteSets, FiniteSetsExt

CONSTANTS
    Callers,        \* threads that make a call each
    Operations,     \* what they call: of "chat", "stream", "embed", "rerank"
    MaxRetries,     \* max_retries
    BaseDelay,      \* base_delay, in ticks
    MaxDelay,       \* max_delay, in ticks
    Jitters,        \* twice what random.uniform(0.5, 1.5) may return
    RetryAfters,    \* what a Retry-After header may say, in ticks
    Injections,     \* the <<status, count>> that fail_with() is called with
    MaxInjections,  \* bound: calls of fail_with()
    MaxLost,        \* bound: exchanges given up for a timeout or a reset
    MaxStops        \* bound: calls of stop()

ASSUME ExchangeAssumption ==
    /\ IsFiniteSet(Callers)
    /\ Operations \subseteq {"chat", "stream", "embed", "rerank"}
    /\ MaxRetries \in Nat /\ BaseDelay \in Nat /\ MaxDelay \in Nat
    /\ Jitters \subseteq 1..3 /\ Jitters # {}
    /\ RetryAfters \subseteq Nat
    /\ Injections \subseteq (300..599) \X (Nat \ {0})
    /\ MaxInjections \in Nat /\ MaxLost \in Nat /\ MaxStops \in Nat

VARIABLES
    pc,             \* what each caller does next
    operation,      \* what it calls
    attempts,       \* the retry loop's local counter
    error,          \* the error of the last attempt; or NoError
    waited,         \* history: what the caller has slept for, in halves of a tick
    running,        \* the server runs
    request_count,  \* the server's
    failures,       \* the server's _failures
    handler,        \* the handler thread of every exchange: where it is
    read,           \* its locals: the count it read
    head,           \* ... and _failures[0]
    answer,         \* the status it sent
    injections,     \* history: calls of fail_with()
    injected,       \* history: the failures they ask for
    delivered,      \* history: failures sent
    lost,           \* history: exchanges given up
    stops,          \* history: calls of stop()
    collided        \* history: what two handlers were updating at once

caller == <<pc, operation, attempts, error, waited>>
server == <<running, request_count, failures>>
handlers == <<handler, read, head, answer>>
history == <<injections, injected, delivered, lost, stops, collided>>
vars == <<caller, server, handlers, history>>

Attempts == 0..MaxRetries

NoAnswer == 0
NoFailure == <<0, 0>>

\* retry_after of an error without a usable header.
NoHeader == -1

RetryOnStatus == {429, 500, 502, 503, 504}

Error(kind, status, retry_after) == [kind |-> kind, status |-> status, retry_after |-> retry_after]

NoError == Error("none", 0, NoHeader)

Errors == [kind : {"none", "auth", "rate limit", "http", "timeout", "network", "unread"},
           status : 0..599, retry_after : RetryAfters \cup {NoHeader}]

HandlerSteps == {"none", "received", "count", "check", "head", "update", "serve", "over"}

CallersOK ==
    /\ pc \in [Callers -> {"idle", "attempt", "waiting", "failed", "sleeping", "done"}]
    /\ operation \in [Callers -> Operations]
    /\ attempts \in [Callers -> Attempts]
    /\ \A c \in Callers : error[c] \in Errors
    /\ waited \in [Callers -> Nat]
    /\ \A c \in Callers : waited[c] <= 3 * MaxDelay * attempts[c]

HandlersOK ==
    /\ handler \in [Callers -> [Attempts -> HandlerSteps]]
    /\ read \in [Callers -> [Attempts -> Nat]]
    /\ head \in [Callers -> [Attempts -> Nat \X Nat]]
    /\ answer \in [Callers -> [Attempts -> Nat]]
    /\ collided \subseteq {"count", "queue"}

ServerOK ==
    /\ running \in BOOLEAN
    /\ request_count \in Nat
    /\ failures \in Seq(Nat \X Nat)
    /\ injections \in 0..MaxInjections
    /\ injected \in Nat /\ delivered \in Nat
    /\ lost \in 0..MaxLost /\ stops \in 0..MaxStops

TypeOK == CallersOK /\ HandlersOK /\ ServerOK

PerExchange(value) == [c \in Callers |-> [a \in Attempts |-> value]]

Init ==
    /\ pc = [c \in Callers |-> "idle"]
    /\ operation \in [Callers -> Operations]
    /\ attempts = [c \in Callers |-> 0]
    /\ error = [c \in Callers |-> NoError]
    /\ waited = [c \in Callers |-> 0]
    /\ running = TRUE /\ request_count = 0 /\ failures = <<>>
    /\ handler = PerExchange("none") /\ read = PerExchange(0)
    /\ head = PerExchange(NoFailure) /\ answer = PerExchange(NoAnswer)
    /\ injections = 0 /\ injected = 0 /\ delivered = 0
    /\ lost = 0 /\ stops = 0 /\ collided = {}

-----------------------------------------------------------------------------
(* Errors and what the retry middleware makes of them.                     *)

\* _handle_http_error, given what _parse_retry_after returns.
HttpError(status, retry_after) ==
    CASE status = 401 -> Error("auth", status, NoHeader)
      [] status = 429 -> Error("rate limit", status, retry_after)
      [] OTHER -> Error("http", status, NoHeader)

ShouldRetry_Any(e) == e.kind # "auth"

\* _should_retry; "unread" is httpx.ResponseNotRead, which is no UAIError.
ShouldRetry(e) ==
    \/ e.kind \in {"rate limit", "network", "timeout"}
    \/ e.kind \in {"auth", "http"} /\ e.status \in RetryOnStatus

\* What _delay(attempt, error) is before the jitter.
Backoff(attempt, e) ==
    LET base == IF e.kind = "rate limit" /\ e.retry_after # NoHeader
                THEN e.retry_after ELSE BaseDelay
    IN  base * 2 ^ (attempt - 1)

Delay_Uncapped(attempt, e) == {Backoff(attempt, e) * j : j \in Jitters}

\* _delay(attempt, error), in halves of a tick.
Delay(attempt, e) == {Min({MaxDelay, Backoff(attempt, e)}) * j : j \in Jitters}

-----------------------------------------------------------------------------
(* The caller.                                                             *)

Goto(c, from, to) == pc[c] = from /\ pc' = [pc EXCEPT ![c] = to]

Fails(c, e) ==
    /\ pc' = [pc EXCEPT ![c] = "failed"]
    /\ error' = [error EXCEPT ![c] = e]
    /\ UNCHANGED <<operation, attempts, waited, server, handlers>>

Call(c) ==
    /\ Goto(c, "idle", "attempt")
    /\ UNCHANGED <<operation, attempts, error, waited, server, handlers, history>>

\* httpx.post() or httpx.stream(): the server accepts, on a thread of its own.
Connect(c) ==
    /\ running
    /\ Goto(c, "attempt", "waiting")
    /\ handler' = [handler EXCEPT ![c][attempts[c]] = "received"]
    /\ UNCHANGED <<operation, attempts, error, waited, server, read, head, answer, history>>

\* httpx.ConnectError
Refused(c) ==
    /\ ~running
    /\ pc[c] = "attempt"
    /\ Fails(c, Error("network", 0, NoHeader))
    /\ UNCHANGED history

\* The body's timeout, or a connection reset, before the answer is read.  A
\* stream's timeout is an httpx.RequestError to its generator.
GiveUp(c) ==
    /\ pc[c] = "waiting" /\ lost < MaxLost
    /\ lost' = lost + 1
    /\ \E kind \in IF operation[c] = "stream" THEN {"network"} ELSE {"network", "timeout"} :
         Fails(c, Error(kind, 0, NoHeader))
    /\ UNCHANGED <<injections, injected, delivered, stops, collided>>

\* The handler died without an answer: httpx.RemoteProtocolError.
Disconnected(c) ==
    /\ pc[c] = "waiting"
    /\ handler[c][attempts[c]] = "over" /\ answer[c][attempts[c]] = NoAnswer
    /\ Fails(c, Error("network", 0, NoHeader))
    /\ UNCHANGED history

Success(c) ==
    /\ Goto(c, "waiting", "done")
    /\ answer[c][attempts[c]] = 200
    /\ error' = [error EXCEPT ![c] = NoError]
    /\ UNCHANGED <<operation, attempts, waited, server, handlers, history>>

\* raise_for_status(), and the status check of a stream, which raises
\* ResponseNotRead when it wants to quote a body it has not read.
HttpFailure(c) ==
    LET status == answer[c][attempts[c]] IN
    /\ pc[c] = "waiting"
    /\ status \notin {NoAnswer, 200}
    /\ IF operation[c] = "stream"
       THEN Fails(c, Error("unread", status, NoHeader))
       ELSE \E retry_after \in RetryAfters \cup {NoHeader} :
              Fails(c, HttpError(status, retry_after))
    /\ UNCHANGED history

GiveUpRetrying_Never(c) == ~ShouldRetry(error[c])

GiveUpRetrying_OneShort(c) == attempts[c] + 1 >= MaxRetries \/ ~ShouldRetry(error[c])

GiveUpRetrying(c) == attempts[c] >= MaxRetries \/ ~ShouldRetry(error[c])

Raise(c) ==
    /\ Goto(c, "failed", "done")
    /\ GiveUpRetrying(c)
    /\ UNCHANGED <<operation, attempts, error, waited, server, handlers, history>>

Sleep(c) ==
    /\ Goto(c, "failed", "sleeping")
    /\ ~GiveUpRetrying(c)
    /\ attempts' = [attempts EXCEPT ![c] = @ + 1]
    /\ \E delay \in Delay(attempts[c] + 1, error[c]) : waited' = [waited EXCEPT ![c] = @ + delay]
    /\ UNCHANGED <<operation, error, server, handlers, history>>

\* The error of the attempt before is a local of the loop no more.
Retry(c) ==
    /\ Goto(c, "sleeping", "attempt")
    /\ error' = [error EXCEPT ![c] = NoError]
    /\ UNCHANGED <<operation, attempts, waited, server, handlers, history>>

-----------------------------------------------------------------------------
(* _MockHandler.do_POST, for exchange a of caller c.                       *)

Exchanges == Callers \X Attempts

\* What a handler at this step has begun to update.
Updating(step) ==
    CASE step = "count" -> {"count"}
      [] step \in {"head", "update"} -> {"queue"}
      [] OTHER -> {}

\* The handler goes on, and may meet another that is at the same thing.
At(c, a, from, to) ==
    /\ handler[c][a] = from
    /\ handler' = [handler EXCEPT ![c][a] = to]
    /\ collided' = collided \cup
        {s \in Updating(to) : \E x \in Exchanges \ {<<c, a>>} : s \in Updating(handler[x[1]][x[2]])}
    /\ UNCHANGED <<caller, running, injections, injected, lost, stops>>

\* owner.request_count += 1 is a read and a write.
CountRead(c, a) ==
    /\ At(c, a, "received", "count")
    /\ read' = [read EXCEPT ![c][a] = request_count]
    /\ UNCHANGED <<request_count, failures, head, answer, delivered>>

CountThen(c, a, count) ==
    /\ At(c, a, "count", "check")
    /\ request_count' = count
    /\ read' = [read EXCEPT ![c][a] = 0]
    /\ UNCHANGED <<failures, head, answer, delivered>>

CountWrite_ServedOnly(c, a) ==
    CountThen(c, a, IF failures = <<>> THEN read[c][a] + 1 ELSE request_count)

CountWrite(c, a) == CountThen(c, a, read[c][a] + 1)

\* if owner._failures
Check(c, a) ==
    /\ At(c, a, "check", IF failures = <<>> THEN "serve" ELSE "head")
    /\ UNCHANGED <<request_count, failures, read, head, answer, delivered>>

\* IndexError: the queue was emptied meanwhile, and the connection just closes.
Dies(c, a) ==
    /\ failures = <<>>
    /\ At(c, a, "head", "over") \/ At(c, a, "update", "over")
    /\ head' = [head EXCEPT ![c][a] = NoFailure]
    /\ UNCHANGED <<request_count, failures, read, answer, delivered>>

ReadHead(c, a) ==
    /\ failures # <<>>
    /\ At(c, a, "head", "update")
    /\ head' = [head EXCEPT ![c][a] = Head(failures)]
    /\ UNCHANGED <<request_count, failures, read, answer, delivered>>

FailThen(c, a, queue) ==
    /\ failures # <<>>
    /\ At(c, a, "update", "over")
    /\ failures' = queue
    /\ answer' = [answer EXCEPT ![c][a] = head[c][a][1]]
    /\ head' = [head EXCEPT ![c][a] = NoFailure]
    /\ delivered' = delivered + 1
    /\ UNCHANGED <<request_count, read>>

Fail_OneMore(c, a) ==
    FailThen(c, a, IF head[c][a][2] < 1 THEN Tail(failures)
                   ELSE [failures EXCEPT ![1] = <<head[c][a][1], head[c][a][2] - 1>>])

\* pop(0), or the head with one failure less; then the status is sent.
Fail(c, a) ==
    FailThen(c, a, IF head[c][a][2] <= 1 THEN Tail(failures)
                   ELSE [failures EXCEPT ![1] = <<head[c][a][1], head[c][a][2] - 1>>])

\* After the latency: chats and embeddings are served, other paths unknown.
Serve(c, a) ==
    /\ At(c, a, "serve", "over")
    /\ answer' = [answer EXCEPT ![c][a] = IF operation[c] = "rerank" THEN 404 ELSE 200]
    /\ UNCHANGED <<request_count, failures, read, head, delivered>>

Handle(c, a) ==
    \/ CountRead(c, a) \/ CountWrite(c, a)
    \/ Check(c, a) \/ ReadHead(c, a) \/ Dies(c, a) \/ Fail(c, a)
    \/ Serve(c, a)

-----------------------------------------------------------------------------
(* The test that drives the server.                                        *)

\* fail_with(status, count)
Inject ==
    /\ injections < MaxInjections
    /\ injections' = injections + 1
    /\ \E failure \in Injections :
         /\ failures' = Append(failures, failure)
         /\ injected' = injected + failure[2]
    /\ UNCHANGED <<caller, running, request_count, handlers, delivered, lost, stops, collided>>

\* stop(): handlers are daemon threads and run on; count and queue stay.
Stop ==
    /\ running /\ stops < MaxStops
    /\ running' = FALSE
    /\ stops' = stops + 1
    /\ UNCHANGED <<caller, request_count, failures, handlers>>
    /\ UNCHANGED <<injections, injected, delivered, lost, collided>>

\* start() binds the port it had.
Start ==
    /\ ~running
    /\ running' = TRUE
    /\ UNCHANGED <<caller, request_count, failures, handlers, history>>

Caller(c) ==
    \/ Connect(c) \/ Refused(c) \/ Disconnected(c) \/ Success(c) \/ HttpFailure(c)
    \/ Raise(c) \/ Sleep(c) \/ Retry(c)

\* Every call has returned or raised; no other state may be without a step.
Rest == (\A c \in Callers : pc[c] = "done") /\ UNCHANGED vars

Next ==
    \/ \E c \in Callers : Call(c) \/ GiveUp(c) \/ Caller(c)
    \/ \E x \in Exchanges : Handle(x[1], x[2])
    \/ Inject \/ Stop \/ Start
    \/ Rest

Spec == Init /\ [][Next]_vars

-----------------------------------------------------------------------------
(* Properties.                                                             *)

\* What a queue still has in store, failure by failure.
Queued(queue) == UNION {{i} \X (1..queue[i][2]) : i \in DOMAIN queue}

Remaining == Cardinality(Queued(failures))

Uncounted == {"none", "received", "count"}

\* The exchanges that should have been counted.
Counted == {x \in Exchanges : handler[x[1]][x[2]] \notin Uncounted}

Handled == Cardinality(Counted)

(***************************************************************************)
(* As long as no two handlers work on the queue at once, every injected    *)
(* failure is sent exactly once and no connection dies; and request_count  *)
(* never exceeds the requests that came in, abandoned ones included, and   *)
(* counts each unless two handlers incremented it at once.  That calls are *)
(* given up, failures are injected and the server restarts in the middle of*)
(* an update changes none of this (do_POST, fail_with, stop).              *)
(***************************************************************************)
BooksBalance ==
    /\ "queue" \notin collided =>
         /\ Remaining = injected - delivered
         /\ \A x \in Exchanges : handler[x[1]][x[2]] = "over" => answer[x[1]][x[2]] # NoAnswer
    /\ request_count <= Handled
    /\ "count" \notin collided => request_count = Handled

Undisturbed == lost = 0 /\ stops = 0 /\ "queue" \notin collided

(***************************************************************************)
(* A server that fails max_retries times and recovers is not noticed: when *)
(* a call (but no stream) ends in a transient error, the server has sent   *)
(* more failures than that in all, be other callers retrying against it.   *)
(***************************************************************************)
OutlastsFailures ==
    \A c \in Callers :
        /\ pc[c] = "done" /\ ShouldRetry(error[c]) /\ Undisturbed
        => delivered > MaxRetries

PermanentFor(op) == IF op = "stream" THEN 300..599 ELSE (300..599) \ RetryOnStatus

(***************************************************************************)
(* A permanent answer is the last a call asks for: authentication and      *)
(* other client errors are not sent again (_should_retry over              *)
(* _handle_http_error), whatever transient failures came before.           *)
(***************************************************************************)
PermanentIsLast ==
    lost = 0 =>
        \A c \in Callers, a \in Attempts :
            answer[c][a] \in PermanentFor(operation[c]) => a = attempts[c]

-----------------------------------------------------------------------------
(* What the documentation claims and streams break.                        *)

(***************************************************************************)
(* docs/middleware.md:97-109: a 429 or a 5xx is retried, for a stream as   *)
(* long as no chunk was delivered.                                         *)
(***************************************************************************)
StreamsRetried ==
    \A c \in Callers :
        pc[c] = "done" /\ operation[c] = "stream" /\ error[c].status \in RetryOnStatus
            => attempts[c] = MaxRetries
=============================================================================
