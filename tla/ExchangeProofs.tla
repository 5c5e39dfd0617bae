--------------------------- MODULE ExchangeProofs ---------------------------
(***************************************************************************)
(* What is proved of the exchanges for any callers, any max_retries, any   *)
(* delays, injections and restarts of the server.                          *)
(***************************************************************************)
EXTENDS Exchange, FiniteSetTheorems, TLAPS

\* The part of TypeOK the argument needs; lengths of waits are none of it.
Types ==
    /\ pc \in [Callers -> {"idle", "attempt", "waiting", "failed", "sleeping", "done"}]
    /\ operation \in [Callers -> Operations]
    /\ attempts \in [Callers -> Attempts]
    /\ DOMAIN error = Callers
    /\ handler \in [Callers -> [Attempts -> HandlerSteps]]
    /\ DOMAIN answer = Callers /\ \A c \in Callers : DOMAIN answer[c] = Attempts
    /\ lost \in Nat

\* Only a handler that is through has answered.
AnswersAtLast ==
    \A c \in Callers, a \in Attempts : handler[c][a] # "over" => answer[c][a] = NoAnswer

\* Every attempt is an exchange of its own.
NotYetBegun ==
    \A c \in Callers, a \in Attempts :
        a > attempts[c] \/ (a = attempts[c] /\ pc[c] \in {"idle", "attempt", "sleeping"})
            => handler[c][a] = "none"

\* A caller that gives nothing up waits for each exchange it has begun, so that
\* no handler but the current one runs.
OneExchange ==
    lost = 0 => \A c \in Callers, a \in Attempts :
        a < attempts[c] \/ (a = attempts[c] /\ pc[c] = "failed")
            => handler[c][a] \in {"none", "over"}

\* What is sent again had no permanent answer.
RetriedIsTransient ==
    lost = 0 => \A c \in Callers :
        pc[c] = "failed" /\ ShouldRetry(error[c]) =>
            answer[c][attempts[c]] \notin PermanentFor(operation[c])

IInv ==
    /\ Types /\ AnswersAtLast /\ NotYetBegun /\ OneExchange
    /\ RetriedIsTransient /\ PermanentIsLast

-----------------------------------------------------------------------------
(* Errors.                                                                 *)

\* A status that is retried is no permanent one.
LEMMA RetriedStatus ==
    ASSUME NEW status, NEW retry_after, NEW op,
           op # "stream", ShouldRetry(HttpError(status, retry_after))
    PROVE  status \notin PermanentFor(op)
BY DEF HttpError, ShouldRetry, Error, PermanentFor, RetryOnStatus

LEMMA UnreadIsFinal ==
    ASSUME NEW status PROVE ~ShouldRetry(Error("unread", status, NoHeader))
BY DEF ShouldRetry, Error

LEMMA NoAnswerIsNone == ASSUME NEW op PROVE NoAnswer \notin PermanentFor(op)
BY DEF PermanentFor, NoAnswer

-----------------------------------------------------------------------------
LEMMA IInvInit == Init => IInv
<1> SUFFICES ASSUME Init PROVE IInv
  OBVIOUS
<1>1. 0 \in Attempts
  BY ExchangeAssumption DEF Attempts
<1>2. Types
  BY <1>1 DEF Init, Types, PerExchange, NoAnswer, HandlerSteps
<1>3. \A c \in Callers, a \in Attempts : handler[c][a] = "none" /\ answer[c][a] = NoAnswer
  BY DEF Init, PerExchange
<1>4. AnswersAtLast /\ NotYetBegun /\ OneExchange /\ PermanentIsLast
  BY <1>3, NoAnswerIsNone DEF AnswersAtLast, NotYetBegun, OneExchange, PermanentIsLast
<1>5. RetriedIsTransient
  BY DEF Init, RetriedIsTransient
<1> QED
  BY <1>2, <1>4, <1>5 DEF IInv

\* An attempt has failed: the error says no more than the answer did.
LEMMA FailsStep ==
    ASSUME IInv, NEW c \in Callers, NEW e, Fails(c, e), lost' \in Nat, lost' >= lost,
           lost' = 0 => /\ handler[c][attempts[c]] \in {"none", "over"}
                        /\ ShouldRetry(e) =>
                             answer[c][attempts[c]] \notin PermanentFor(operation[c])
    PROVE  IInv'
<1> USE DEF IInv
<1>1. Types'
  BY DEF Fails, Types, server, handlers
<1>2. AnswersAtLast'
  BY DEF Fails, AnswersAtLast, handlers
<1>3. lost' = 0 => lost = 0
  BY DEF Types
<1>4. NotYetBegun' /\ OneExchange'
  BY <1>3 DEF Fails, NotYetBegun, OneExchange, handlers, Types
<1>5. RetriedIsTransient'
  BY <1>3 DEF Fails, RetriedIsTransient, handlers, Types
<1>6. PermanentIsLast'
  BY <1>3 DEF Fails, PermanentIsLast, handlers
<1> QED
  BY <1>1, <1>2, <1>4, <1>5, <1>6

LEMMA CallerStep ==
    ASSUME IInv, NEW c \in Callers, Call(c) \/ GiveUp(c) \/ Caller(c)
    PROVE  IInv'
<1> USE DEF IInv
<1>1. attempts[c] \in Attempts /\ lost \in Nat
  BY DEF Types
<1>2. CASE Call(c)
  BY <1>2 DEF Call, Goto,
              Types, AnswersAtLast, NotYetBegun, OneExchange,
              RetriedIsTransient, PermanentIsLast,
              server, handlers, history
<1>3. CASE GiveUp(c)
  BY <1>1, <1>3, FailsStep DEF GiveUp
<1>4. CASE Connect(c)
  <2>1. /\ pc[c] = "attempt" /\ pc' = [pc EXCEPT ![c] = "waiting"]
        /\ handler' = [handler EXCEPT ![c][attempts[c]] = "received"]
        /\ UNCHANGED <<operation, attempts, error, answer, lost>>
    BY <1>4 DEF Connect, Goto, history
  <2>2. Types'
    BY <1>1, <2>1 DEF Types, HandlerSteps
  <2>3. answer[c][attempts[c]] = NoAnswer
    BY <1>1, <2>1 DEF NotYetBegun, OneExchange, AnswersAtLast
  <2>4. NotYetBegun' /\ OneExchange'
    <3>1. attempts' = attempts /\ lost' = lost /\ pc'[c] = "waiting"
      BY <2>1 DEF Types
    <3>2. \A d \in Callers, b \in Attempts :
            <<d, b>> # <<c, attempts[c]>> => handler'[d][b] = handler[d][b]
      BY <1>1, <2>1 DEF Types
    <3>3. \A d \in Callers \ {c} : pc'[d] = pc[d]
      BY <2>1 DEF Types
    <3>4. \A b \in Attempts : ~(b > b) /\ ~(b < b)
      BY DEF Attempts
    <3>5. NotYetBegun'
      BY <1>1, <2>1, <3>1, <3>2, <3>3, <3>4 DEF NotYetBegun
    <3>6. OneExchange'
      BY <1>1, <2>1, <3>1, <3>2, <3>3, <3>4 DEF OneExchange
    <3> QED
      BY <3>5, <3>6
  <2>5. RetriedIsTransient' /\ PermanentIsLast'
    BY <2>1 DEF RetriedIsTransient, PermanentIsLast, Types
  <2>6. AnswersAtLast'
    BY <1>1, <2>1, <2>3 DEF AnswersAtLast, Types
  <2> QED
    BY <2>2, <2>4, <2>5, <2>6
<1>5. CASE Refused(c)
  <2>1. lost = 0 => handler[c][attempts[c]] = "none"
    BY <1>1, <1>5 DEF Refused, NotYetBegun, OneExchange
  <2>2. lost = 0 => answer[c][attempts[c]] \notin PermanentFor(operation[c])
    BY <1>1, <2>1, NoAnswerIsNone DEF AnswersAtLast
  <2> QED
    BY <1>1, <1>5, <2>1, <2>2, FailsStep DEF Refused, history
<1>6. CASE Disconnected(c)
  BY <1>1, <1>6, NoAnswerIsNone, FailsStep DEF Disconnected, history
<1>7. CASE Success(c)
  BY <1>1, <1>7 DEF Success, Goto,
                    Types, AnswersAtLast, NotYetBegun, OneExchange,
                    RetriedIsTransient, PermanentIsLast, handlers, server, history
<1>8. CASE HttpFailure(c)
  <2>1. handler[c][attempts[c]] = "over"
    BY <1>1, <1>8 DEF HttpFailure, AnswersAtLast
  <2>2. lost' = lost
    BY <1>8 DEF HttpFailure, history
  <2>3. CASE operation[c] = "stream"
    BY <1>1, <1>8, <2>1, <2>2, <2>3, UnreadIsFinal, FailsStep DEF HttpFailure
  <2>4. CASE operation[c] # "stream"
    BY <1>1, <1>8, <2>1, <2>2, <2>4, RetriedStatus, FailsStep DEF HttpFailure
  <2> QED
    BY <2>3, <2>4
<1>9. CASE Raise(c)
  BY <1>1, <1>9 DEF Raise, Goto,
                    Types, AnswersAtLast, NotYetBegun, OneExchange,
                    RetriedIsTransient, PermanentIsLast, handlers, server, history
<1>10. CASE Sleep(c)
  <2>1. attempts' = [attempts EXCEPT ![c] = @ + 1] /\ attempts[c] + 1 \in Attempts
    BY <1>1, <1>10, ExchangeAssumption DEF Sleep, GiveUpRetrying, Attempts
  <2>2. /\ pc[c] = "failed" /\ pc' = [pc EXCEPT ![c] = "sleeping"]
        /\ operation' = operation /\ error' = error /\ handler' = handler
        /\ answer' = answer /\ lost' = lost
    BY <1>10 DEF Sleep, Goto, server, handlers, history
  <2>3. ShouldRetry(error[c])
    BY <1>10 DEF Sleep, GiveUpRetrying
  <2>4. Types'
    BY <2>1, <2>2 DEF Types
  <2>5. AnswersAtLast'
    BY <2>2 DEF AnswersAtLast
  <2>6. NotYetBegun' /\ OneExchange'
    BY <1>1, <2>1, <2>2, ExchangeAssumption DEF NotYetBegun, OneExchange, Types, Attempts
  <2>7. RetriedIsTransient'
    BY <2>1, <2>2 DEF RetriedIsTransient, Types
  <2>8. PermanentIsLast'
    BY <1>1, <2>1, <2>2, <2>3 DEF PermanentIsLast, RetriedIsTransient, Types
  <2> QED
    BY <2>4, <2>5, <2>6, <2>7, <2>8
<1>11. CASE Retry(c)
  BY <1>1, <1>11 DEF Retry, Goto,
                     Types, AnswersAtLast, NotYetBegun, OneExchange,
                     RetriedIsTransient, PermanentIsLast, handlers, server, history
<1> QED
  BY <1>2, <1>3, <1>4, <1>5, <1>6, <1>7, <1>8, <1>9, <1>10, <1>11 DEF Caller

\* A handler goes on; only the one of a current exchange has anything to do.
LEMMA HandlerStep ==
    ASSUME IInv, NEW c \in Callers, NEW a \in Attempts, Handle(c, a)
    PROVE  IInv'
<1> USE DEF IInv
<1>1. \E to \in HandlerSteps \ {"none"} :
        /\ handler[c][a] \notin {"none", "over"}
        /\ handler' = [handler EXCEPT ![c][a] = to]
        /\ \/ answer' = answer
           \/ to = "over" /\ \E status : answer' = [answer EXCEPT ![c][a] = status]
  <2>1. CASE CountRead(c, a)
    BY <2>1 DEF CountRead, At, HandlerSteps
  <2>2. CASE CountWrite(c, a)
    BY <2>2 DEF CountWrite, CountThen, At, HandlerSteps
  <2>3. CASE Check(c, a)
    BY <2>3 DEF Check, At, HandlerSteps
  <2>4. CASE ReadHead(c, a)
    BY <2>4 DEF ReadHead, At, HandlerSteps
  <2>5. CASE Dies(c, a)
    BY <2>5 DEF Dies, At, HandlerSteps
  <2>6. CASE Fail(c, a)
    <3>1. handler[c][a] = "update" /\ handler' = [handler EXCEPT ![c][a] = "over"]
      BY <2>6 DEF Fail, FailThen, At
    <3>2. answer' = [answer EXCEPT ![c][a] = head[c][a][1]]
      BY <2>6 DEF Fail, FailThen
    <3> QED
      BY <3>1, <3>2 DEF HandlerSteps
  <2>7. CASE Serve(c, a)
    <3>1. handler[c][a] = "serve" /\ handler' = [handler EXCEPT ![c][a] = "over"]
      BY <2>7 DEF Serve, At
    <3>2. \E status : answer' = [answer EXCEPT ![c][a] = status]
      BY <2>7, ZenonT(30) DEF Serve
    <3> QED
      BY <3>1, <3>2 DEF HandlerSteps
  <2> QED
    BY <2>1, <2>2, <2>3, <2>4, <2>5, <2>6, <2>7 DEF Handle
<1>2. UNCHANGED <<pc, operation, attempts, error, lost>>
  BY DEF Handle, CountRead, CountWrite, CountThen, Check, ReadHead, Dies, Fail, FailThen, Serve,
         At, caller
<1>3. PICK to \in HandlerSteps \ {"none"} :
        /\ handler[c][a] \notin {"none", "over"}
        /\ handler' = [handler EXCEPT ![c][a] = to]
        /\ \/ answer' = answer
           \/ to = "over" /\ \E status : answer' = [answer EXCEPT ![c][a] = status]
  BY <1>1
<1>4. /\ a < attempts[c] \/ (a = attempts[c] /\ pc[c] \notin {"idle", "attempt", "sleeping"})
      /\ lost = 0 => a = attempts[c] /\ pc[c] # "failed"
  BY <1>3, ExchangeAssumption DEF NotYetBegun, OneExchange, Types, Attempts
<1>5. \A d \in Callers, b \in Attempts :
        <<d, b>> # <<c, a>> => handler'[d][b] = handler[d][b] /\ answer'[d][b] = answer[d][b]
  BY <1>3 DEF Types
<1>6. Types'
  BY <1>2, <1>3 DEF Types
<1>7. AnswersAtLast'
  <2>1. handler'[c][a] # "over" => answer'[c][a] = NoAnswer
    BY <1>3 DEF Types, AnswersAtLast
  <2> QED
    BY <1>5, <2>1 DEF AnswersAtLast
<1>8. NotYetBegun' /\ OneExchange'
  <2>1. ~(a > attempts[c]) /\ ~(a < a)
    BY <1>4 DEF Attempts, Types
  <2>2. NotYetBegun'
    BY <1>2, <1>4, <1>5, <2>1 DEF NotYetBegun
  <2>3. OneExchange'
    BY <1>2, <1>4, <1>5, <2>1 DEF OneExchange
  <2> QED
    BY <2>2, <2>3
<1>9. RetriedIsTransient'
  BY <1>2, <1>4, <1>5 DEF RetriedIsTransient, Types
<1>10. PermanentIsLast'
  BY <1>2, <1>4, <1>5 DEF PermanentIsLast, Types
<1> QED
  BY <1>6, <1>7, <1>8, <1>9, <1>10

\* The server and the test that drives it.
LEMMA ServerStep == IInv /\ (Inject \/ Stop \/ Start) => IInv'
<1> SUFFICES ASSUME IInv, Inject \/ Stop \/ Start PROVE IInv'
  OBVIOUS
<1>1. UNCHANGED <<caller, handlers, lost>>
  BY DEF Inject, Stop, Start, history
<1> QED
  BY <1>1 DEF IInv,
              Types, AnswersAtLast, NotYetBegun, OneExchange,
              RetriedIsTransient, PermanentIsLast,
              caller, handlers

LEMMA IInvStep == IInv /\ [Next]_vars => IInv'
<1> SUFFICES ASSUME IInv, [Next]_vars PROVE IInv'
  OBVIOUS
<1>1. CASE \E c \in Callers : Call(c) \/ GiveUp(c) \/ Caller(c)
  BY <1>1, CallerStep
<1>2. CASE \E x \in Exchanges : Handle(x[1], x[2])
  BY <1>2, HandlerStep DEF Exchanges
<1>3. CASE Inject \/ Stop \/ Start
  BY <1>3, ServerStep
<1>4. CASE Rest \/ UNCHANGED vars
  BY <1>4 DEF Rest, vars, caller, handlers, history, IInv,
              Types, AnswersAtLast, NotYetBegun, OneExchange,
              RetriedIsTransient, PermanentIsLast
<1> QED
  BY <1>1, <1>2, <1>3, <1>4 DEF Next

\* A permanent answer ends a call, whatever was injected, refused or restarted
\* before and whatever other callers do, as long as nobody gave up an exchange.
THEOREM PermanentEnds == Spec => []PermanentIsLast
<1>1. IInv => PermanentIsLast
  BY DEF IInv
<1> QED
  BY <1>1, IInvInit, IInvStep, PTL DEF Spec

-----------------------------------------------------------------------------
(* What is sent, and how long is waited.                                   *)

\* What fail_with() may be asked for, and what an exchange may be answered.
Failures == (300..599) \X (Nat \ {0})
Sent == {NoAnswer, 200} \cup (300..599)

LEMMA FailureParts ==
    ASSUME NEW f \in Failures
    PROVE  f[1] \in 300..599 /\ f[2] \in Nat \ {0}
BY DEF Failures

LEMMA OneLess ==
    ASSUME NEW f \in Failures, NEW g, g = <<f[1], f[2] - 1>>, f[2] > 1
    PROVE  g \in Failures
BY DEF Failures

LEMMA AnswerTyped ==
    ASSUME NEW answers \in [Callers -> [Attempts -> Sent]], NEW c \in Callers, NEW a \in Attempts,
           NEW status \in Sent
    PROVE  [answers EXCEPT ![c][a] = status] \in [Callers -> [Attempts -> Sent]]
OBVIOUS

LEMMA SentRange == Sent \subseteq 0..599
BY DEF Sent, NoAnswer

Typed ==
    /\ failures \in Seq(Failures)
    /\ head \in [Callers -> [Attempts -> Failures \cup {NoFailure}]]
    /\ answer \in [Callers -> [Attempts -> Sent]]
    /\ \A c \in Callers, a \in Attempts : handler[c][a] = "update" => head[c][a] \in Failures

TypeInv == IInv /\ TypeOK /\ Typed

-----------------------------------------------------------------------------
(* The books.                                                              *)

Step(x) == handler[x[1]][x[2]]

\* A count that was read is not too high, and is the count if no other handler
\* has met this one.
CountKept ==
    /\ request_count <= Handled
    /\ \A x \in Exchanges : Step(x) = "count" => read[x[1]][x[2]] <= Handled
    /\ "count" \notin collided =>
         /\ request_count = Handled
         /\ \A x \in Exchanges : Step(x) = "count" => read[x[1]][x[2]] = request_count
         /\ \A x, y \in Exchanges : Step(x) = "count" /\ Step(y) = "count" => x = y

\* A handler alone at the queue knows its head, and finds it there.
QueueKept ==
    "queue" \notin collided =>
        /\ Remaining = injected - delivered
        /\ \A x \in Exchanges : Step(x) \in {"head", "update"} => failures # <<>>
        /\ \A x \in Exchanges : Step(x) = "update" => head[x[1]][x[2]] = Head(failures)
        /\ \A x, y \in Exchanges :
             Step(x) \in {"head", "update"} /\ Step(y) \in {"head", "update"} => x = y
        /\ \A x \in Exchanges : Step(x) = "over" => answer[x[1]][x[2]] # NoAnswer

-----------------------------------------------------------------------------
(* Retries.                                                                *)

\* The exchanges that were answered with a status that is retried.
Transient == {x \in Exchanges : answer[x[1]][x[2]] \in RetryOnStatus}

\* What is retried is a failure that the server sent.
RetriesMet ==
    /\ Cardinality(Transient) <= delivered
    /\ stops = 0 => running
    /\ \A c \in Callers : pc[c] = "done" /\ ShouldRetry(error[c]) => attempts[c] = MaxRetries
    /\ Undisturbed =>
         \A c \in Callers, a \in Attempts :
             \/ a < attempts[c]
             \/ a = attempts[c] /\ pc[c] \in {"failed", "done"} /\ ShouldRetry(error[c])
             => answer[c][a] \in RetryOnStatus

ExchangeInv == TypeInv /\ CountKept /\ QueueKept /\ RetriesMet

-----------------------------------------------------------------------------
(* Types.                                                                  *)

LEMMA ConstantTypes ==
    /\ MaxRetries \in Nat /\ MaxDelay \in Nat /\ BaseDelay \in Nat
    /\ MaxInjections \in Nat /\ MaxLost \in Nat /\ MaxStops \in Nat
    /\ Jitters \subseteq 1..3 /\ RetryAfters \subseteq Nat
    /\ Injections \subseteq Failures
    /\ 0 \in Attempts /\ Attempts \subseteq Nat
BY ExchangeAssumption DEF Failures, Attempts

LEMMA MinOfTwo ==
    ASSUME NEW m \in Nat, NEW n \in Nat PROVE Min({m, n}) \in Nat /\ Min({m, n}) <= m
BY DEF Min

\* A power of 2 counts subsets.
LEMMA PowerOfTwo ==
    ASSUME NEW n \in Nat PROVE 2 ^ n \in Nat
<1>1. IsFiniteSet(1..n) /\ Cardinality(1..n) = n
  BY FS_Interval
<1>2. IsFiniteSet(SUBSET (1..n)) /\ Cardinality(SUBSET (1..n)) = 2 ^ Cardinality(1..n)
  BY <1>1, FS_SUBSET
<1>3. Cardinality(SUBSET (1..n)) \in Nat
  BY <1>2, FS_CardinalityType
<1> QED
  BY <1>1, <1>2, <1>3

\* The cap of MaxDelay holds whatever the server asks for.
LEMMA DelayBound ==
    ASSUME NEW n \in Attempts, n # 0, NEW e \in Errors, NEW delay \in Delay(n, e)
    PROVE  delay \in Nat /\ delay <= 3 * MaxDelay
<1>1. n - 1 \in Attempts
  BY ConstantTypes DEF Attempts
<1>2. 2 ^ (n - 1) \in Nat
  BY <1>1, ConstantTypes, PowerOfTwo
<1> DEFINE base == IF e.kind = "rate limit" /\ e.retry_after # NoHeader
                   THEN e.retry_after ELSE BaseDelay
<1>3. base \in Nat
  BY ConstantTypes DEF Errors
<1>4. Backoff(n, e) = base * 2 ^ (n - 1)
  BY DEF Backoff
<1> HIDE DEF base
<1>5. Backoff(n, e) \in Nat
  <2> DEFINE factor == 2 ^ (n - 1)
  <2>1. factor \in Nat
    BY <1>2
  <2> HIDE DEF factor
  <2>2. base * factor \in Nat
    BY <1>3, <2>1
  <2> QED
    BY <1>4, <2>2 DEF factor
<1>6. PICK j \in Jitters : delay = Min({MaxDelay, Backoff(n, e)}) * j
  BY DEF Delay
<1> DEFINE capped == Min({MaxDelay, Backoff(n, e)})
<1>7. capped \in Nat /\ capped <= MaxDelay
  BY <1>5, MinOfTwo, ConstantTypes
<1>8. j \in 1..3
  BY ConstantTypes
<1> HIDE DEF capped
<1>9. capped * j \in Nat /\ capped * j <= 3 * MaxDelay
  BY <1>7, <1>8, ConstantTypes
<1> QED
  BY <1>6, <1>9 DEF capped

LEMMA TypeInit == Init => TypeOK /\ Typed
<1> SUFFICES ASSUME Init PROVE TypeOK /\ Typed
  OBVIOUS
<1>1. CallersOK
  BY ConstantTypes DEF Init, CallersOK, NoError, Error, Errors, NoHeader
<1>2. HandlersOK /\ Typed
  BY ConstantTypes DEF Init, HandlersOK, Typed, PerExchange, HandlerSteps, NoFailure, NoAnswer, Sent
<1>3. ServerOK
  BY ConstantTypes DEF Init, ServerOK
<1> QED
  BY <1>1, <1>2, <1>3 DEF TypeOK

LEMMA FailsTypes ==
    ASSUME TypeInv, NEW c \in Callers, NEW e \in Errors, Fails(c, e)
    PROVE  CallersOK' /\ UNCHANGED <<handlers, server>>
BY DEF TypeInv, IInv, Types, TypeOK, CallersOK, Fails

LEMMA HttpErrorType ==
    ASSUME NEW status \in 0..599, NEW retry_after \in RetryAfters \cup {NoHeader}
    PROVE  HttpError(status, retry_after) \in Errors
BY DEF HttpError, Error, Errors

LEMMA SleepTypes ==
    ASSUME TypeInv, NEW c \in Callers, Sleep(c)
    PROVE  CallersOK'
<1> USE DEF TypeInv, TypeOK, CallersOK
<1>1. /\ attempts[c] \in Nat /\ attempts[c] < MaxRetries
      /\ attempts[c] + 1 \in Attempts
  BY ConstantTypes DEF Sleep, GiveUpRetrying, Attempts
<1>2. error[c] \in Errors
  OBVIOUS
<1>3. PICK delay \in Delay(attempts[c] + 1, error[c]) :
        waited' = [waited EXCEPT ![c] = @ + delay]
  BY DEF Sleep
<1>4. delay \in Nat /\ delay <= 3 * MaxDelay
  BY <1>1, <1>2, DelayBound
<1>5. attempts' = [attempts EXCEPT ![c] = @ + 1]
  BY DEF Sleep
<1>6. waited[c] \in Nat /\ waited[c] <= 3 * MaxDelay * attempts[c]
  OBVIOUS
<1>7. /\ waited[c] + delay \in Nat
      /\ waited[c] + delay <= 3 * MaxDelay * (attempts[c] + 1)
  BY <1>1, <1>4, <1>6, ConstantTypes
<1>8. waited' \in [Callers -> Nat] /\ attempts' \in [Callers -> Attempts]
  BY <1>1, <1>3, <1>5, <1>7
<1>9. \A d \in Callers : waited'[d] <= 3 * MaxDelay * attempts'[d]
  BY <1>3, <1>5, <1>7
<1>10. /\ pc' = [pc EXCEPT ![c] = "sleeping"]
       /\ UNCHANGED <<operation, error>>
  BY DEF Sleep, Goto
<1> QED
  BY <1>8, <1>9, <1>10

LEMMA CallerTypes ==
    ASSUME TypeInv, NEW c \in Callers, Call(c) \/ GiveUp(c) \/ Caller(c)
    PROVE  CallersOK' /\ HandlersOK' /\ ServerOK' /\ Typed'
<1> USE DEF TypeInv, TypeOK
<1>0. attempts[c] \in Attempts
  BY DEF CallersOK
<1>1. CASE Call(c)
  BY <1>1 DEF Call, Goto, CallersOK, HandlersOK, ServerOK, Typed, server, handlers, history
<1>2. CASE GiveUp(c)
  <2>1. lost' = lost + 1 /\ lost < MaxLost
        /\ UNCHANGED <<injections, injected, delivered, stops, collided>>
    BY <1>2 DEF GiveUp
  <2>2. PICK kind \in {"network", "timeout"} : Fails(c, Error(kind, 0, NoHeader))
    BY <1>2 DEF GiveUp
  <2>3. Error(kind, 0, NoHeader) \in Errors
    <3>1. 0 \in 0..599
      OBVIOUS
    <3> QED
      BY <3>1 DEF Error, Errors
  <2>4. CallersOK' /\ UNCHANGED <<handlers, server>>
    BY <2>2, <2>3, FailsTypes
  <2>5. lost' \in 0..MaxLost
    BY <2>1, ConstantTypes DEF ServerOK
  <2> QED
    BY <2>1, <2>4, <2>5 DEF HandlersOK, ServerOK, Typed, server, handlers
<1>3. CASE Connect(c)
  <2>1. /\ pc' = [pc EXCEPT ![c] = "waiting"]
        /\ handler' = [handler EXCEPT ![c][attempts[c]] = "received"]
        /\ UNCHANGED <<operation, attempts, error, waited, server, read, head, answer, history>>
    BY <1>3 DEF Connect, Goto
  <2>2. CallersOK' /\ ServerOK'
    BY <2>1 DEF CallersOK, ServerOK, server, history
  <2>3. HandlersOK'
    BY <1>0, <2>1 DEF HandlersOK, HandlerSteps, history
  <2>4. Typed'
    BY <1>0, <2>1 DEF Typed, HandlersOK, server
  <2> QED
    BY <2>2, <2>3, <2>4
<1>4. CASE Refused(c) \/ Disconnected(c)
  <2>1. Error("network", 0, NoHeader) \in Errors
    BY DEF Error, Errors
  <2>2. CallersOK' /\ UNCHANGED <<handlers, server>>
    BY <1>4, <2>1, FailsTypes DEF Refused, Disconnected
  <2>3. UNCHANGED history
    BY <1>4 DEF Refused, Disconnected
  <2> QED
    BY <2>2, <2>3 DEF HandlersOK, ServerOK, Typed, server, handlers, history
<1>5. CASE Success(c)
  <2>1. NoError \in Errors
    BY DEF NoError, Error, Errors
  <2> QED
    BY <1>5, <2>1 DEF Success, Goto, CallersOK, HandlersOK, ServerOK, Typed, server, handlers,
       history, IInv, Types
<1>6. CASE HttpFailure(c)
  <2>1. answer[c][attempts[c]] \in 0..599
    <3>1. answer[c][attempts[c]] \in Sent
      BY <1>0 DEF Typed
    <3> QED
      BY <3>1, SentRange
  <2>2. PICK e \in Errors : Fails(c, e)
    <3>1. CASE operation[c] = "stream"
      <4>1. Error("unread", answer[c][attempts[c]], NoHeader) \in Errors
        BY <2>1 DEF Error, Errors
      <4> QED
        BY <1>6, <3>1, <4>1 DEF HttpFailure
    <3>2. CASE operation[c] # "stream"
      <4>1. PICK retry_after \in RetryAfters \cup {NoHeader} :
              Fails(c, HttpError(answer[c][attempts[c]], retry_after))
        BY <1>6, <3>2 DEF HttpFailure
      <4>2. HttpError(answer[c][attempts[c]], retry_after) \in Errors
        BY <2>1, HttpErrorType
      <4> QED
        BY <4>1, <4>2
    <3> QED
      BY <3>1, <3>2
  <2>3. CallersOK' /\ UNCHANGED <<handlers, server>>
    BY <2>2, FailsTypes
  <2>4. UNCHANGED history
    BY <1>6 DEF HttpFailure
  <2> QED
    BY <2>3, <2>4 DEF HandlersOK, ServerOK, Typed, server, handlers, history
<1>7. CASE Raise(c)
  BY <1>7 DEF Raise, Goto, CallersOK, HandlersOK, ServerOK, Typed, server, handlers, history
<1>8. CASE Sleep(c)
  <2>1. UNCHANGED <<server, handlers, history>>
    BY <1>8 DEF Sleep
  <2> QED
    BY <1>8, <2>1, SleepTypes DEF HandlersOK, ServerOK, Typed, server, handlers, history
<1>9. CASE Retry(c)
  <2>1. NoError \in Errors
    BY DEF NoError, Error, Errors
  <2> QED
    BY <1>9, <2>1 DEF Retry, Goto, CallersOK, HandlersOK, ServerOK, Typed, server, handlers,
       history, IInv, Types
<1> QED
  BY <1>1, <1>2, <1>3, <1>4, <1>5, <1>6, <1>7, <1>8, <1>9 DEF Caller

\* What a handler's step leaves alone, and that it goes on.
LEMMA AtTypes ==
    ASSUME TypeInv, NEW c \in Callers, NEW a \in Attempts, NEW from, NEW to \in HandlerSteps,
           At(c, a, from, to)
    PROVE  /\ CallersOK'
           /\ handler' \in [Callers -> [Attempts -> HandlerSteps]]
           /\ collided' \subseteq {"count", "queue"}
           /\ UNCHANGED <<running, injections, injected, lost, stops>>
<1>1. Updating(to) \subseteq {"count", "queue"}
  BY DEF Updating
<1>2. /\ handler' = [handler EXCEPT ![c][a] = to]
      /\ UNCHANGED <<caller, running, injections, injected, lost, stops>>
  BY DEF At
<1>3. collided' \subseteq {"count", "queue"}
  BY <1>1 DEF At, TypeInv, TypeOK, HandlersOK
<1>4. CallersOK'
  BY <1>2 DEF TypeInv, TypeOK, CallersOK, caller
<1> QED
  BY <1>2, <1>3, <1>4 DEF TypeInv, TypeOK, HandlersOK

\* The queue without its head, or with one failure less there.
LEMMA QueueTypes ==
    ASSUME NEW queue \in Seq(Failures), queue # <<>>
    PROVE  /\ Head(queue) \in Failures
           /\ Tail(queue) \in Seq(Failures)
           /\ \A failure \in Failures : [queue EXCEPT ![1] = failure] \in Seq(Failures)
<1>1. 1 \in 1..Len(queue) /\ Len(queue) \in Nat
  OBVIOUS
<1>2. \A failure \in Failures : [queue EXCEPT ![1] = failure] \in Seq(Failures)
  OBVIOUS
<1> QED
  BY <1>2

LEMMA HandlerTypes ==
    ASSUME TypeInv, NEW c \in Callers, NEW a \in Attempts, Handle(c, a)
    PROVE  CallersOK' /\ HandlersOK' /\ ServerOK' /\ Typed'
<1> USE DEF TypeInv, TypeOK
<1>0. /\ Failures \subseteq Nat \X Nat /\ NoFailure \in Nat \X Nat /\ Sent \subseteq Nat
      /\ {"none", "received", "count", "check", "head", "update", "serve", "over"} = HandlerSteps
  BY DEF Failures, NoFailure, Sent, NoAnswer, HandlerSteps
<1>1. CASE CountRead(c, a)
  <2>1. At(c, a, "received", "count") /\ UNCHANGED <<request_count, failures, head, answer, delivered>>
        /\ read' = [read EXCEPT ![c][a] = request_count]
    BY <1>1 DEF CountRead
  <2>2. /\ CallersOK' /\ handler' \in [Callers -> [Attempts -> HandlerSteps]]
        /\ collided' \subseteq {"count", "queue"}
        /\ UNCHANGED <<running, injections, injected, lost, stops>>
    BY <1>0, <2>1, AtTypes
  <2>3. HandlersOK' /\ ServerOK'
    BY <2>1, <2>2 DEF HandlersOK, ServerOK
  <2>4. Typed'
    BY <2>1 DEF Typed, At, HandlersOK
  <2> QED
    BY <2>2, <2>3, <2>4
<1>2. CASE CountWrite(c, a)
  <2>1. At(c, a, "count", "check") /\ UNCHANGED <<failures, head, answer, delivered>>
        /\ read' = [read EXCEPT ![c][a] = 0] /\ request_count' = read[c][a] + 1
    BY <1>2 DEF CountWrite, CountThen
  <2>2. /\ CallersOK' /\ handler' \in [Callers -> [Attempts -> HandlerSteps]]
        /\ collided' \subseteq {"count", "queue"}
        /\ UNCHANGED <<running, injections, injected, lost, stops>>
    BY <1>0, <2>1, AtTypes
  <2>3. request_count' \in Nat
    BY <2>1 DEF HandlersOK
  <2>4. HandlersOK' /\ ServerOK'
    BY <2>1, <2>2, <2>3 DEF HandlersOK, ServerOK
  <2>5. Typed'
    BY <2>1 DEF Typed, At, HandlersOK
  <2> QED
    BY <2>2, <2>4, <2>5
<1>3. CASE Check(c, a)
  <2>1. PICK to \in {"serve", "head"} : At(c, a, "check", to)
    BY <1>3 DEF Check
  <2>2. UNCHANGED <<request_count, failures, read, head, answer, delivered>>
    BY <1>3 DEF Check
  <2>3. /\ CallersOK' /\ handler' \in [Callers -> [Attempts -> HandlerSteps]]
        /\ collided' \subseteq {"count", "queue"}
        /\ UNCHANGED <<running, injections, injected, lost, stops>>
    BY <1>0, <2>1, AtTypes
  <2>4. HandlersOK' /\ ServerOK'
    BY <2>2, <2>3 DEF HandlersOK, ServerOK
  <2>5. Typed'
    BY <2>1, <2>2 DEF Typed, At, HandlersOK
  <2> QED
    BY <2>3, <2>4, <2>5
<1>4. CASE ReadHead(c, a)
  <2>1. At(c, a, "head", "update") /\ failures # <<>>
        /\ head' = [head EXCEPT ![c][a] = Head(failures)]
        /\ UNCHANGED <<request_count, failures, read, answer, delivered>>
    BY <1>4 DEF ReadHead
  <2>2. /\ CallersOK' /\ handler' \in [Callers -> [Attempts -> HandlerSteps]]
        /\ collided' \subseteq {"count", "queue"}
        /\ UNCHANGED <<running, injections, injected, lost, stops>>
    BY <1>0, <2>1, AtTypes
  <2>3. Head(failures) \in Failures
    BY <2>1, QueueTypes DEF Typed
  <2>4. HandlersOK' /\ ServerOK'
    BY <1>0, <2>1, <2>2, <2>3 DEF HandlersOK, ServerOK
  <2>5. Typed'
    BY <2>1, <2>3 DEF Typed, At, HandlersOK
  <2> QED
    BY <2>2, <2>4, <2>5
<1>5. CASE Dies(c, a)
  <2>1. PICK from \in {"head", "update"} : At(c, a, from, "over")
    BY <1>5 DEF Dies
  <2>2. /\ head' = [head EXCEPT ![c][a] = NoFailure]
        /\ UNCHANGED <<request_count, failures, read, answer, delivered>>
    BY <1>5 DEF Dies
  <2>3. /\ CallersOK' /\ handler' \in [Callers -> [Attempts -> HandlerSteps]]
        /\ collided' \subseteq {"count", "queue"}
        /\ UNCHANGED <<running, injections, injected, lost, stops>>
    BY <1>0, <2>1, AtTypes
  <2>4. HandlersOK' /\ ServerOK'
    BY <1>0, <2>2, <2>3 DEF HandlersOK, ServerOK
  <2>5. Typed'
    BY <2>1, <2>2 DEF Typed, At, HandlersOK
  <2> QED
    BY <2>3, <2>4, <2>5
<1>6. CASE Fail(c, a)
  <2> DEFINE less == <<head[c][a][1], head[c][a][2] - 1>>
             queue == IF head[c][a][2] <= 1 THEN Tail(failures)
                      ELSE [failures EXCEPT ![1] = less]
  <2>1. /\ failures # <<>> /\ At(c, a, "update", "over")
        /\ failures' = queue
        /\ answer' = [answer EXCEPT ![c][a] = head[c][a][1]]
        /\ head' = [head EXCEPT ![c][a] = NoFailure]
        /\ delivered' = delivered + 1
        /\ UNCHANGED <<request_count, read>>
    BY <1>6 DEF Fail, FailThen
  <2>2. /\ CallersOK' /\ handler' \in [Callers -> [Attempts -> HandlerSteps]]
        /\ collided' \subseteq {"count", "queue"}
        /\ UNCHANGED <<running, injections, injected, lost, stops>>
    BY <1>0, <2>1, AtTypes
  <2>3. head[c][a] \in Failures
    BY <2>1 DEF At, Typed
  <2>4. head[c][a][1] \in 300..599 /\ (head[c][a][2] > 1 => less \in Failures)
    <3>1. PICK f \in Failures : f = head[c][a]
      BY <2>3
    <3>2. f[1] \in 300..599
      BY FailureParts
    <3>3. f[2] > 1 => <<f[1], f[2] - 1>> \in Failures
      BY OneLess
    <3> QED
      BY <3>1, <3>2, <3>3
  <2>5. queue \in Seq(Failures)
    <3>1. failures \in Seq(Failures) /\ head[c][a][2] \in Nat
      BY <2>3 DEF Typed, Failures
    <3>2. CASE head[c][a][2] <= 1
      BY <2>1, <3>1, <3>2, QueueTypes
    <3>3. CASE ~(head[c][a][2] <= 1)
      <4>0. head[c][a][2] > 1
        BY <3>1, <3>3
      <4>1. less \in Failures
        BY <2>4, <4>0
      <4> HIDE DEF less
      <4>2. [failures EXCEPT ![1] = less] \in Seq(Failures)
        BY <2>1, <3>1, <4>1, QueueTypes
      <4> QED
        BY <3>3, <4>2
    <3> QED
      BY <3>2, <3>3
  <2>6. failures' \in Seq(Failures)
    BY <2>1, <2>5
  <2> HIDE DEF queue
  <2>7. Failures \subseteq Nat \X Nat /\ failures' \in Seq(Nat \X Nat)
    BY <1>0, <2>6
  <2>8. answer' \in [Callers -> [Attempts -> Sent]]
    <3>1. PICK status : status = head[c][a][1]
      OBVIOUS
    <3>2. status \in Sent
      BY <2>4, <3>1 DEF Sent
    <3>3. [answer EXCEPT ![c][a] = status] \in [Callers -> [Attempts -> Sent]]
      BY <3>2, AnswerTyped DEF Typed
    <3> QED
      BY <2>1, <3>1, <3>3
  <2>9. HandlersOK' /\ ServerOK'
    BY <1>0, <2>1, <2>2, <2>7, <2>8, SMTT(30) DEF HandlersOK, ServerOK
  <2>10. Typed'
    BY <2>1, <2>6, <2>8 DEF Typed, At, HandlersOK
  <2> QED
    BY <2>2, <2>9, <2>10
<1>7. CASE Serve(c, a)
  <2>1. /\ At(c, a, "serve", "over")
        /\ answer' = [answer EXCEPT ![c][a] = IF operation[c] = "rerank" THEN 404 ELSE 200]
        /\ UNCHANGED <<request_count, failures, read, head, delivered>>
    BY <1>7 DEF Serve
  <2>2. /\ CallersOK' /\ handler' \in [Callers -> [Attempts -> HandlerSteps]]
        /\ collided' \subseteq {"count", "queue"}
        /\ UNCHANGED <<running, injections, injected, lost, stops>>
    BY <1>0, <2>1, AtTypes
  <2>3. answer' \in [Callers -> [Attempts -> Sent]]
    <3>1. PICK status : status = IF operation[c] = "rerank" THEN 404 ELSE 200
      OBVIOUS
    <3>2. status \in Sent
      BY <3>1 DEF Sent
    <3>3. [answer EXCEPT ![c][a] = status] \in [Callers -> [Attempts -> Sent]]
      BY <3>2, AnswerTyped DEF Typed
    <3> QED
      BY <2>1, <3>1, <3>3
  <2>4. HandlersOK' /\ ServerOK'
    BY <1>0, <2>1, <2>2, <2>3, SMTT(30) DEF HandlersOK, ServerOK
  <2>5. Typed'
    BY <2>1, <2>3 DEF Typed, At, HandlersOK
  <2> QED
    BY <2>2, <2>4, <2>5
<1> QED
  BY <1>1, <1>2, <1>3, <1>4, <1>5, <1>6, <1>7 DEF Handle

LEMMA ServerTypes ==
    ASSUME TypeInv, Inject \/ Stop \/ Start
    PROVE  CallersOK' /\ HandlersOK' /\ ServerOK' /\ Typed'
<1> USE DEF TypeInv, TypeOK
<1>1. UNCHANGED <<caller, handlers, collided, lost>>
  BY DEF Inject, Stop, Start, history
<1>2. CallersOK' /\ HandlersOK'
  BY <1>1 DEF CallersOK, HandlersOK, caller, handlers
<1>3. failures' \in Seq(Failures) /\ ServerOK'
  <2>1. CASE Inject
    <3>1. PICK failure \in Injections :
            failures' = Append(failures, failure) /\ injected' = injected + failure[2]
      BY <2>1 DEF Inject
    <3>2. failure \in Failures /\ failure[2] \in Nat /\ Failures \subseteq Nat \X Nat
      BY ConstantTypes DEF Failures
    <3>3. failures' \in Seq(Failures) /\ failures' \in Seq(Nat \X Nat)
      BY <3>1, <3>2 DEF Typed, ServerOK
    <3>4. /\ injections' = injections + 1 /\ injections < MaxInjections
          /\ UNCHANGED <<running, request_count, delivered, lost, stops>>
      BY <2>1 DEF Inject
    <3> QED
      BY <3>1, <3>2, <3>3, <3>4, ConstantTypes DEF ServerOK
  <2>2. CASE Stop
    <3>1. /\ stops < MaxStops /\ stops' = stops + 1 /\ running' = FALSE
          /\ UNCHANGED <<request_count, failures, injections, injected, delivered, lost>>
      BY <2>2 DEF Stop
    <3>2. stops' \in 0..MaxStops
      BY <3>1, ConstantTypes DEF ServerOK
    <3> QED
      BY <3>1, <3>2 DEF ServerOK, Typed
  <2>3. CASE Start
    BY <2>3 DEF Start, ServerOK, Typed, history
  <2> QED
    BY <2>1, <2>2, <2>3
<1> QED
  BY <1>1, <1>2, <1>3 DEF Typed, handlers

LEMMA TypeInvStep == TypeInv /\ [Next]_vars => TypeInv'
<1> SUFFICES ASSUME TypeInv, [Next]_vars PROVE (TypeOK /\ Typed)'
  BY IInvStep DEF TypeInv
<1>1. CASE \E c \in Callers : Call(c) \/ GiveUp(c) \/ Caller(c)
  BY <1>1, CallerTypes DEF TypeOK
<1>2. CASE \E x \in Exchanges : Handle(x[1], x[2])
  BY <1>2, HandlerTypes DEF Exchanges, TypeOK
<1>3. CASE Inject \/ Stop \/ Start
  BY <1>3, ServerTypes DEF TypeOK
<1>4. CASE Rest \/ UNCHANGED vars
  BY <1>4 DEF Rest, vars, caller, server, handlers, history, TypeInv, TypeOK, Typed,
              CallersOK, HandlersOK, ServerOK
<1> QED
  BY <1>1, <1>2, <1>3, <1>4 DEF Next

LEMMA TypeInvariant == Spec => []TypeInv
<1>1. Init => TypeInv
  BY IInvInit, TypeInit DEF TypeInv
<1> QED
  BY <1>1, TypeInvStep, PTL DEF Spec

(***************************************************************************)
(* The types of the exchanges, for any callers, delays and injections: in  *)
(* particular a call that was retried n times has slept for no more than n *)
(* times one and a half max_delay, whatever Retry-After the server sent.   *)
(***************************************************************************)
THEOREM ExchangeTypes == Spec => []TypeOK
<1>1. TypeInv => TypeOK
  BY DEF TypeInv
<1> QED
  BY <1>1, TypeInvariant, PTL

-----------------------------------------------------------------------------
(* What is queued.                                                         *)

LEMMA QueuedElement ==
    ASSUME NEW queue, NEW S, DOMAIN queue = S, NEW x
    PROVE  x \in Queued(queue) <=> \E i \in S : \E k \in 1..queue[i][2] : x = <<i, k>>
<1>1. ASSUME x \in Queued(queue)
      PROVE  \E i \in S : \E k \in 1..queue[i][2] : x = <<i, k>>
  BY <1>1 DEF Queued
<1>2. ASSUME NEW i \in S, NEW k \in 1..queue[i][2], x = <<i, k>>
      PROVE  x \in Queued(queue)
  BY <1>2 DEF Queued
<1> QED
  BY <1>1, <1>2

LEMMA IntervalFinite ==
    ASSUME NEW n \in Nat PROVE IsFiniteSet(1..n) /\ Cardinality(1..n) = n
<1>1. /\ IsFiniteSet(1..n)
      /\ Cardinality(1..n) = IF 1 > n THEN 0 ELSE n - 1 + 1
  BY FS_Interval
<1> QED
  BY <1>1

LEMMA QueuedFinite ==
    ASSUME NEW queue \in Seq(Failures) PROVE IsFiniteSet(Queued(queue))
<1> DEFINE part == [i \in 1..Len(queue) |-> {i} \X (1..queue[i][2])]
           parts == {{i} \X (1..queue[i][2]) : i \in 1..Len(queue)}
<1>1. Len(queue) \in Nat /\ DOMAIN queue = 1..Len(queue)
  OBVIOUS
<1>2. IsFiniteSet(1..Len(queue))
  BY <1>1, FS_Interval
<1>3. part \in Surjection(1..Len(queue), parts)
  BY DEF Surjection
<1>4. IsFiniteSet(parts)
  BY <1>2, <1>3, FS_Surjection
<1>5. ASSUME NEW i \in 1..Len(queue) PROVE IsFiniteSet({i} \X (1..queue[i][2]))
  <2>1. queue[i][2] \in Nat
    BY <1>5 DEF Failures
  <2>2. IsFiniteSet({i})
    BY FS_Singleton
  <2>3. IsFiniteSet(1..queue[i][2])
    BY <2>1, IntervalFinite
  <2> QED
    BY <2>2, <2>3, FS_Product
<1>6. \A T \in parts : IsFiniteSet(T)
  BY <1>5
<1>7. IsFiniteSet(UNION parts)
  <2> HIDE DEF parts
  <2> QED
    BY <1>4, <1>6, FS_UNION
<1> QED
  BY <1>1, <1>7 DEF Queued

\* fail_with() adds what it asks for.
LEMMA QueuedAppend ==
    ASSUME NEW queue \in Seq(Failures), NEW failure \in Failures
    PROVE  Cardinality(Queued(Append(queue, failure))) = Cardinality(Queued(queue)) + failure[2]
<1> DEFINE longer == Append(queue, failure)
           n == Len(queue)
           new == {n + 1} \X (1..failure[2])
<1>1. n \in Nat /\ DOMAIN queue = 1..n /\ failure[2] \in Nat
  BY DEF Failures
<1>2. DOMAIN longer = 1..n + 1 /\ longer[n + 1] = failure
      /\ \A i \in 1..n : longer[i] = queue[i]
  OBVIOUS
<1>3. 1..n + 1 = (1..n) \cup {n + 1} /\ n + 1 \notin 1..n
  BY <1>1
<1>4. Queued(longer) = Queued(queue) \cup new
  <2> HIDE DEF longer, n
  <2>1. ASSUME NEW x PROVE x \in Queued(longer) <=> x \in Queued(queue) \/ x \in new
    <3>1. x \in Queued(longer) <=>
            \/ \E i \in 1..n : \E k \in 1..longer[i][2] : x = <<i, k>>
            \/ \E k \in 1..longer[n + 1][2] : x = <<n + 1, k>>
      BY <1>2, <1>3, QueuedElement
    <3>2. x \in Queued(queue) <=> \E i \in 1..n : \E k \in 1..longer[i][2] : x = <<i, k>>
      BY <1>1, <1>2, QueuedElement
    <3>3. x \in new <=> \E k \in 1..longer[n + 1][2] : x = <<n + 1, k>>
      BY <1>2
    <3> QED
      BY <3>1, <3>2, <3>3
  <2> QED
    BY <2>1
<1>5. Queued(queue) \cap new = {}
  <2> HIDE DEF n
  <2>1. ASSUME NEW x \in Queued(queue), x \in new PROVE FALSE
    <3>1. PICK i \in 1..n : \E k \in 1..queue[i][2] : x = <<i, k>>
      BY <1>1, <2>1, QueuedElement
    <3>2. PICK j \in 1..failure[2] : x = <<n + 1, j>>
      BY <2>1
    <3> QED
      BY <1>3, <3>1, <3>2
  <2> QED
    BY <2>1
<1>6. IsFiniteSet(Queued(queue))
  BY QueuedFinite
<1>7. IsFiniteSet(new) /\ Cardinality(new) = failure[2]
  <2>1. IsFiniteSet({n + 1}) /\ Cardinality({n + 1}) = 1
    BY FS_Singleton
  <2>2. IsFiniteSet(1..failure[2]) /\ Cardinality(1..failure[2]) = failure[2]
    BY <1>1, IntervalFinite
  <2>3. Cardinality({n + 1} \X (1..failure[2]))
          = Cardinality({n + 1}) * Cardinality(1..failure[2])
        /\ IsFiniteSet({n + 1} \X (1..failure[2]))
    BY <2>1, <2>2, FS_Product, ZenonT(30)
  <2>4. 1 * failure[2] = failure[2]
    BY <1>1
  <2> QED
    BY <2>1, <2>2, <2>3, <2>4, ZenonT(30)
<1>8. Cardinality({}) = 0 /\ Cardinality(Queued(queue)) \in Nat
  BY <1>6, FS_EmptySet, FS_CardinalityType
<1> HIDE DEF new, longer
<1>9. Cardinality(Queued(queue) \cup new)
        = Cardinality(Queued(queue)) + Cardinality(new) - Cardinality(Queued(queue) \cap new)
  BY <1>6, <1>7, FS_Union
<1>10. Cardinality(Queued(queue) \cap new) = 0
  BY <1>5, <1>8
<1>11. Cardinality(Queued(longer)) = Cardinality(Queued(queue)) + failure[2]
  BY <1>1, <1>4, <1>7, <1>8, <1>9, <1>10
<1> QED
  BY <1>11 DEF longer

\* pop(0) of an entry that has one failure left takes one away.
LEMMA QueuedTail ==
    ASSUME NEW queue \in Seq(Failures), queue # <<>>, queue[1][2] = 1
    PROVE  Cardinality(Queued(Tail(queue))) = Cardinality(Queued(queue)) - 1
<1>0. PICK rest : rest = Tail(queue)
  OBVIOUS
<1>0a. rest \in Seq(Failures)
  BY <1>0
<1> DEFINE n == Len(queue)
           left == Queued(queue) \ {<<1, 1>>}
           shift == [x \in Queued(rest) |-> <<x[1] + 1, x[2]>>]
<1>1. n \in Nat /\ n > 0 /\ DOMAIN queue = 1..n
  OBVIOUS
<1>2. DOMAIN rest = 1..n - 1 /\ \A i \in 1..n - 1 : rest[i] = queue[i + 1]
  BY <1>0
<1>3. <<1, 1>> \in Queued(queue)
  BY <1>1, QueuedElement
<1> HIDE DEF n
<1>4. ASSUME NEW x \in Queued(rest) PROVE shift[x] \in left
  <2>1. PICK i \in 1..n - 1 : \E k \in 1..rest[i][2] : x = <<i, k>>
    BY <1>2 DEF Queued
  <2>1k. PICK k \in 1..queue[i + 1][2] : x = <<i, k>>
    BY <1>2, <2>1
  <2>2. shift[x] = <<i + 1, k>> /\ i + 1 \in 1..n /\ i + 1 # 1
    BY <1>1, <2>1k
  <2>3. shift[x] \in Queued(queue)
    BY <1>1, <2>1k, <2>2, QueuedElement
  <2> QED
    BY <2>2, <2>3
<1>5. ASSUME NEW x \in Queued(rest), NEW y \in Queued(rest), shift[x] = shift[y] PROVE x = y
  <2>1. PICK i \in 1..n - 1 : \E k \in 1..rest[i][2] : x = <<i, k>>
    BY <1>2 DEF Queued
  <2>1k. PICK k \in 1..queue[i + 1][2] : x = <<i, k>>
    BY <1>2, <2>1
  <2>2. PICK j \in 1..n - 1 : \E l \in 1..rest[j][2] : y = <<j, l>>
    BY <1>2 DEF Queued
  <2>2k. PICK l \in 1..queue[j + 1][2] : y = <<j, l>>
    BY <1>2, <2>2
  <2>3. <<i + 1, k>> = <<j + 1, l>>
    BY <1>5, <2>1k, <2>2k
  <2> QED
    BY <1>1, <2>1k, <2>2k, <2>3
<1>6. ASSUME NEW y \in left PROVE \E x \in Queued(rest) : shift[x] = y
  <2>1. PICK i \in 1..n : \E k \in 1..queue[i][2] : y = <<i, k>>
    BY <1>1, QueuedElement
  <2>1k. PICK k \in 1..queue[i][2] : y = <<i, k>>
    BY <2>1
  <2>2. i # 1
    BY <1>6, <2>1k
  <2>3. i - 1 \in 1..n - 1 /\ rest[i - 1] = queue[i] /\ (i - 1) + 1 = i
    BY <1>1, <1>2, <2>2
  <2>4. <<i - 1, k>> \in Queued(rest)
    BY <1>2, <2>1k, <2>3, QueuedElement
  <2>5. shift[<<i - 1, k>>] = y
    BY <2>1k, <2>3, <2>4
  <2> QED
    BY <2>4, <2>5
<1>7. shift \in [Queued(rest) -> left]
  BY <1>4
<1> HIDE DEF shift, left
<1>8. shift \in Bijection(Queued(rest), left)
  <2>1. shift \in Injection(Queued(rest), left)
    BY <1>5, <1>7 DEF Injection, IsInjective
  <2>2. shift \in Surjection(Queued(rest), left)
    BY <1>6, <1>7 DEF Surjection
  <2> QED
    BY <2>1, <2>2 DEF Bijection
<1>9. IsFiniteSet(Queued(rest)) /\ IsFiniteSet(Queued(queue))
  BY <1>0a, QueuedFinite
<1>10. Cardinality(left) = Cardinality(Queued(rest))
  BY <1>8, <1>9, FS_Bijection DEF ExistsBijection
<1>11. Cardinality(left) = Cardinality(Queued(queue)) - 1
  BY <1>3, <1>9, FS_RemoveElement DEF left
<1> QED
  BY <1>0, <1>10, <1>11

\* A head with one failure less takes one away.
LEMMA QueuedLess ==
    ASSUME NEW queue \in Seq(Failures), queue # <<>>, queue[1][2] > 1,
           NEW status \in 300..599
    PROVE  Cardinality(Queued([queue EXCEPT ![1] = <<status, queue[1][2] - 1>>]))
             = Cardinality(Queued(queue)) - 1
<1> DEFINE m == queue[1][2]
           n == Len(queue)
<1>0. PICK less : less = [queue EXCEPT ![1] = <<status, m - 1>>]
  OBVIOUS
<1>1. n \in Nat /\ n > 0 /\ DOMAIN queue = 1..n /\ m \in Nat /\ m > 1
  BY DEF Failures
<1>2. DOMAIN less = 1..n /\ less[1][2] = m - 1 /\ \A i \in 2..n : less[i] = queue[i]
  BY <1>0, <1>1
<1>3. 1..n = {1} \cup 2..n
  BY <1>1
<1> HIDE DEF n
<1>4. Queued(less) = Queued(queue) \ {<<1, m>>}
  <2>1. ASSUME NEW x PROVE x \in Queued(less) <=> x \in Queued(queue) /\ x # <<1, m>>
    <3>1. x \in Queued(less) <=>
            \/ \E k \in 1..m - 1 : x = <<1, k>>
            \/ \E i \in 2..n : \E k \in 1..queue[i][2] : x = <<i, k>>
      <4>1. x \in Queued(less) <=> \E i \in 1..n : \E k \in 1..less[i][2] : x = <<i, k>>
        <5>1. ASSUME x \in Queued(less)
              PROVE  \E i \in 1..n : \E k \in 1..less[i][2] : x = <<i, k>>
          BY <1>2, <5>1 DEF Queued
        <5>2. ASSUME NEW i \in 1..n, NEW k \in 1..less[i][2], x = <<i, k>>
              PROVE  x \in Queued(less)
          BY <1>2, <5>2 DEF Queued
        <5> QED
          BY <5>1, <5>2
      <4>2. \A i \in 1..n : i = 1 \/ i \in 2..n
        BY <1>3
      <4>3. 1 \in 1..n /\ 2..n \subseteq 1..n
        BY <1>3
      <4> QED
        BY <1>2, <4>1, <4>2, <4>3
    <3>2. x \in Queued(queue) <=>
            \/ \E k \in 1..m : x = <<1, k>>
            \/ \E i \in 2..n : \E k \in 1..queue[i][2] : x = <<i, k>>
      BY <1>1, <1>3, QueuedElement
    <3>3. (\E k \in 1..m - 1 : x = <<1, k>>) <=> (\E k \in 1..m : x = <<1, k>>) /\ x # <<1, m>>
      BY <1>1
    <3>4. (\E i \in 2..n : \E k \in 1..queue[i][2] : x = <<i, k>>) => x # <<1, m>>
      OBVIOUS
    <3> QED
      BY <3>1, <3>2, <3>3, <3>4
  <2> QED
    BY <2>1
<1>5. <<1, m>> \in Queued(queue)
  <2>1. 1 \in DOMAIN queue /\ m \in 1..queue[1][2]
    BY <1>1, <1>3
  <2> QED
    BY <2>1, QueuedElement
<1>6. IsFiniteSet(Queued(queue))
  BY QueuedFinite
<1>7. Cardinality(Queued(queue) \ {<<1, m>>}) = Cardinality(Queued(queue)) - 1
  BY <1>5, <1>6, FS_RemoveElement
<1> QED
  BY <1>0, <1>4, <1>7

-----------------------------------------------------------------------------
(* The exchanges, and a step of one handler.                               *)

LEMMA ExchangesFinite ==
    ASSUME NEW S \in SUBSET Exchanges
    PROVE  IsFiniteSet(S) /\ Cardinality(S) \in Nat
<1>1. IsFiniteSet(Attempts)
  BY ExchangeAssumption, FS_Interval DEF Attempts
<1>2. IsFiniteSet(Callers)
  BY ExchangeAssumption
<1>3. IsFiniteSet(Exchanges)
  BY <1>1, <1>2, FS_Product DEF Exchanges
<1>4. IsFiniteSet(S)
  BY <1>3, FS_Subset
<1> QED
  BY <1>4, FS_CardinalityType

LEMMA Moves ==
    ASSUME TypeInv, NEW c \in Callers, NEW a \in Attempts, NEW to,
           handler' = [handler EXCEPT ![c][a] = to]
    PROVE  /\ <<c, a>> \in Exchanges
           /\ Step(<<c, a>>) = handler[c][a]
           /\ Step(<<c, a>>)' = to
           /\ \A x \in Exchanges : x # <<c, a>> => Step(x)' = Step(x)
<1>1. handler \in [Callers -> [Attempts -> HandlerSteps]]
  BY DEF TypeInv, TypeOK, HandlersOK
<1> QED
  BY <1>1 DEF Step, Exchanges

\* A step that neither begins nor ends the count keeps the number.
LEMMA HandledKept ==
    ASSUME TypeInv, NEW c \in Callers, NEW a \in Attempts, NEW to,
           handler' = [handler EXCEPT ![c][a] = to],
           handler[c][a] \in Uncounted <=> to \in Uncounted
    PROVE  Handled' = Handled
<1>1. \A x \in Exchanges : Step(x)' \in Uncounted <=> Step(x) \in Uncounted
  BY Moves, ZenonT(30)
<1>2. Counted' = Counted
  BY <1>1 DEF Counted, Step
<1> QED
  BY <1>2 DEF Handled

LEMMA HandledMore ==
    ASSUME TypeInv, NEW c \in Callers, NEW a \in Attempts, NEW to,
           handler' = [handler EXCEPT ![c][a] = to],
           handler[c][a] \in Uncounted, to \notin Uncounted
    PROVE  Handled' = Handled + 1
<1>0. /\ <<c, a>> \in Exchanges
      /\ Step(<<c, a>>) \in Uncounted /\ Step(<<c, a>>)' \notin Uncounted
      /\ \A x \in Exchanges : x # <<c, a>> => Step(x)' = Step(x)
  BY Moves
<1>0a. /\ \A x : x \in Counted <=> x \in Exchanges /\ Step(x) \notin Uncounted
       /\ \A x : x \in Counted' <=> x \in Exchanges /\ Step(x)' \notin Uncounted
  BY DEF Counted, Step
<1>1. Counted' = Counted \cup {<<c, a>>} /\ <<c, a>> \notin Counted
  BY <1>0, <1>0a
<1>2. IsFiniteSet(Counted)
  BY ExchangesFinite DEF Counted
<1>3. Cardinality(Counted \cup {<<c, a>>}) = Cardinality(Counted) + 1
  BY <1>1, <1>2, FS_AddElement
<1> QED
  BY <1>1, <1>3 DEF Handled

-----------------------------------------------------------------------------
(* The count of requests.                                                  *)

\* A step that has nothing to do with the count.
LEMMA CountApart ==
    ASSUME TypeInv, CountKept, NEW c \in Callers, NEW a \in Attempts, NEW to,
           handler' = [handler EXCEPT ![c][a] = to],
           handler[c][a] # "count", to # "count",
           handler[c][a] \in Uncounted <=> to \in Uncounted,
           UNCHANGED <<request_count, read>>, collided \subseteq collided'
    PROVE  CountKept'
<1>1. Handled' = Handled
  BY HandledKept
<1>2. \A x \in Exchanges : Step(x)' = "count" => Step(x) = "count"
  BY Moves
<1> QED
  BY <1>1, <1>2 DEF CountKept

LEMMA CountStep ==
    ASSUME TypeInv, CountKept, NEW c \in Callers, NEW a \in Attempts, Handle(c, a)
    PROVE  CountKept'
<1>1. CASE CountRead(c, a)
  <2>1. /\ handler[c][a] = "received" /\ handler' = [handler EXCEPT ![c][a] = "count"]
        /\ read' = [read EXCEPT ![c][a] = request_count]
        /\ request_count' = request_count /\ collided \subseteq collided'
    BY <1>1 DEF CountRead, At
  <2>2. "count" \notin collided' =>
          \A x \in Exchanges \ {<<c, a>>} : Step(x) # "count"
    BY <1>1 DEF CountRead, At, Updating, Step
  <2>3. Handled' = Handled
    BY <2>1, HandledKept DEF Uncounted
  <2>4. /\ read'[c][a] = request_count
        /\ \A x \in Exchanges : x # <<c, a>> => read'[x[1]][x[2]] = read[x[1]][x[2]]
    BY <2>1 DEF TypeInv, TypeOK, HandlersOK, Exchanges
  <2>5. \A x \in Exchanges : x # <<c, a>> => Step(x)' = Step(x)
    BY <2>1, Moves
  <2>6. request_count' <= Handled'
    BY <2>1, <2>3 DEF CountKept
  <2>7. \A x \in Exchanges : Step(x)' = "count" => read'[x[1]][x[2]] <= Handled'
    BY <2>3, <2>4, <2>5, <2>6, <2>1 DEF CountKept
  <2>8. ASSUME "count" \notin collided'
        PROVE  /\ request_count' = Handled'
               /\ \A x \in Exchanges : Step(x)' = "count" => x = <<c, a>>
    BY <2>1, <2>2, <2>3, <2>5, <2>8 DEF CountKept
  <2> QED
    BY <2>1, <2>4, <2>6, <2>7, <2>8 DEF CountKept
<1>2. CASE CountWrite(c, a)
  <2>1. /\ handler[c][a] = "count" /\ handler' = [handler EXCEPT ![c][a] = "check"]
        /\ read' = [read EXCEPT ![c][a] = 0]
        /\ request_count' = read[c][a] + 1 /\ collided \subseteq collided'
    BY <1>2 DEF CountWrite, CountThen, At
  <2>2. Handled' = Handled + 1 /\ Handled \in Nat
    <3>0. handler[c][a] \in Uncounted /\ "check" \notin Uncounted
      BY <2>1 DEF Uncounted
    <3>1. Handled' = Handled + 1
      BY <2>1, <3>0, HandledMore
    <3>2. Counted \in SUBSET Exchanges
      BY DEF Counted
    <3> QED
      BY <3>1, <3>2, ExchangesFinite DEF Handled
  <2>3. \A x \in Exchanges : x # <<c, a>> => /\ read'[x[1]][x[2]] = read[x[1]][x[2]]
                                             /\ read[x[1]][x[2]] \in Nat
    BY <2>1 DEF TypeInv, TypeOK, HandlersOK, Exchanges
  <2>4. /\ \A x \in Exchanges : x # <<c, a>> => Step(x)' = Step(x)
        /\ <<c, a>> \in Exchanges /\ Step(<<c, a>>) = "count" /\ Step(<<c, a>>)' = "check"
    BY <2>1, Moves
  <2>5. read[c][a] \in Nat /\ read[c][a] <= Handled
    <3>1. read[<<c, a>>[1]][<<c, a>>[2]] <= Handled
      BY <2>4 DEF CountKept
    <3> QED
      BY <3>1 DEF TypeInv, TypeOK, HandlersOK
  <2>6. request_count' <= Handled'
    BY <2>1, <2>2, <2>5
  <2>7. ASSUME NEW x \in Exchanges, Step(x)' = "count" PROVE read'[x[1]][x[2]] <= Handled'
    <3>1. x # <<c, a>> /\ Step(x) = "count"
      BY <2>4, <2>7
    <3>2. read[x[1]][x[2]] <= Handled /\ read[x[1]][x[2]] \in Nat
      BY <2>3, <3>1 DEF CountKept
    <3> QED
      BY <2>2, <2>3, <3>1, <3>2
  <2>8. ASSUME "count" \notin collided'
        PROVE  /\ request_count' = Handled'
               /\ \A x \in Exchanges : Step(x)' # "count"
    <3>1. /\ request_count = Handled
          /\ \A x \in Exchanges : Step(x) = "count" => read[x[1]][x[2]] = request_count
          /\ \A x, y \in Exchanges : Step(x) = "count" /\ Step(y) = "count" => x = y
      BY <2>1, <2>8 DEF CountKept
    <3>2. read[<<c, a>>[1]][<<c, a>>[2]] = request_count
      BY <2>4, <3>1
    <3>3. request_count' = Handled'
      BY <2>1, <2>2, <3>1, <3>2
    <3>4. \A x \in Exchanges : Step(x)' # "count"
      BY <2>4, <3>1
    <3> QED
      BY <3>3, <3>4
  <2> QED
    BY <2>6, <2>7, <2>8 DEF CountKept
<1>3. CASE Check(c, a)
  <2>1. PICK to \in {"serve", "head"} : At(c, a, "check", to)
    BY <1>3 DEF Check
  <2>2. UNCHANGED <<request_count, read>>
    BY <1>3 DEF Check
  <2> QED
    BY <2>1, <2>2, CountApart DEF At, Uncounted
<1>4. CASE ReadHead(c, a)
  BY <1>4, CountApart DEF ReadHead, At, Uncounted
<1>5. CASE Dies(c, a)
  BY <1>5, CountApart DEF Dies, At, Uncounted
<1>6. CASE Fail(c, a)
  <2>1. At(c, a, "update", "over") /\ UNCHANGED <<request_count, read>>
    BY <1>6 DEF Fail, FailThen
  <2> QED
    BY <2>1, CountApart DEF At, Uncounted
<1>7. CASE Serve(c, a)
  BY <1>7, CountApart DEF Serve, At, Uncounted
<1> QED
  BY <1>1, <1>2, <1>3, <1>4, <1>5, <1>6, <1>7 DEF Handle

-----------------------------------------------------------------------------
(* The queue of failures.                                                  *)

AtQueue == {"head", "update"}

\* A step that has nothing to do with the queue.
LEMMA QueueApart ==
    ASSUME TypeInv, QueueKept, NEW c \in Callers, NEW a \in Attempts, NEW to,
           handler' = [handler EXCEPT ![c][a] = to],
           handler[c][a] \notin {"head", "update", "over"}, to \notin AtQueue,
           UNCHANGED <<failures, head, injected, delivered>>, collided \subseteq collided',
           \A x \in Exchanges : x # <<c, a>> => answer'[x[1]][x[2]] = answer[x[1]][x[2]],
           to = "over" => answer'[c][a] # NoAnswer
    PROVE  QueueKept'
<1>1. /\ <<c, a>> \in Exchanges /\ Step(<<c, a>>)' = to
      /\ \A x \in Exchanges : x # <<c, a>> => Step(x)' = Step(x)
  BY Moves
<1>2. \A x \in Exchanges : Step(x)' \in AtQueue => Step(x)' = Step(x)
  BY <1>1
<1>3. Remaining' = Remaining
  BY DEF Remaining
<1>4. SUFFICES ASSUME "queue" \notin collided'
               PROVE  /\ Remaining' = injected' - delivered'
                      /\ \A x \in Exchanges : Step(x)' \in AtQueue => failures' # <<>>
                      /\ \A x \in Exchanges : Step(x)' = "update" => head'[x[1]][x[2]] = Head(failures')
                      /\ \A x, y \in Exchanges : Step(x)' \in AtQueue /\ Step(y)' \in AtQueue => x = y
                      /\ \A x \in Exchanges : Step(x)' = "over" => answer'[x[1]][x[2]] # NoAnswer
  BY DEF QueueKept, AtQueue
<1>5. \A x \in Exchanges : Step(x)' = "over" => answer'[x[1]][x[2]] # NoAnswer
  <2>1. \A x \in Exchanges : Step(x) = "over" => answer[x[1]][x[2]] # NoAnswer
    BY <1>4 DEF QueueKept
  <2> QED
    BY <1>1, <2>1
<1> QED
  BY <1>2, <1>3, <1>4, <1>5 DEF QueueKept, AtQueue

LEMMA QueueStep ==
    ASSUME TypeInv, QueueKept, NEW c \in Callers, NEW a \in Attempts, Handle(c, a)
    PROVE  QueueKept'
<1>0. DOMAIN answer = Callers /\ DOMAIN answer[c] = Attempts
  BY DEF TypeInv, Typed
<1>1. CASE CountRead(c, a) \/ CountWrite(c, a)
  <2>1. PICK from \in {"received", "count"}, to \in {"count", "check"} : At(c, a, from, to)
    BY <1>1 DEF CountRead, CountWrite, CountThen
  <2>2. UNCHANGED <<failures, head, answer, delivered>>
    BY <1>1 DEF CountRead, CountWrite, CountThen
  <2>3. /\ handler' = [handler EXCEPT ![c][a] = to]
        /\ handler[c][a] \notin {"head", "update", "over"} /\ to \notin AtQueue /\ to # "over"
        /\ injected' = injected /\ collided \subseteq collided'
    BY <2>1 DEF At, AtQueue
  <2> QED
    BY <2>2, <2>3, QueueApart
<1>2. CASE Check(c, a) /\ failures = <<>>
  <2>1. At(c, a, "check", "serve")
    BY <1>2 DEF Check
  <2>2. UNCHANGED <<failures, head, answer, delivered>>
    BY <1>2 DEF Check
  <2>3. /\ handler' = [handler EXCEPT ![c][a] = "serve"]
        /\ handler[c][a] \notin {"head", "update", "over"} /\ "serve" \notin AtQueue
        /\ injected' = injected /\ collided \subseteq collided'
    BY <2>1 DEF At, AtQueue
  <2> QED
    BY <2>2, <2>3, QueueApart
<1>3. CASE Check(c, a) /\ failures # <<>>
  <2>1. /\ handler[c][a] = "check" /\ handler' = [handler EXCEPT ![c][a] = "head"]
        /\ collided \subseteq collided'
        /\ UNCHANGED <<failures, head, answer, injected, delivered>>
    BY <1>3 DEF Check, At
  <2>2. "queue" \notin collided' => \A x \in Exchanges \ {<<c, a>>} : Step(x) \notin AtQueue
    BY <1>3 DEF Check, At, Updating, Step, AtQueue
  <2>3. /\ <<c, a>> \in Exchanges /\ Step(<<c, a>>)' = "head"
        /\ \A x \in Exchanges : x # <<c, a>> => Step(x)' = Step(x)
    BY <2>1, Moves
  <2>4. SUFFICES ASSUME "queue" \notin collided' PROVE QueueKept'
    BY DEF QueueKept
  <2>5. /\ Remaining' = injected' - delivered'
        /\ \A x \in Exchanges : Step(x)' = "over" => answer'[x[1]][x[2]] # NoAnswer
    BY <2>1, <2>3, <2>4 DEF QueueKept, Remaining
  <2>6. \A x \in Exchanges : Step(x)' \in AtQueue => x = <<c, a>>
    BY <2>2, <2>3, <2>4
  <2>7. \A x \in Exchanges : Step(x)' # "update"
    BY <2>3, <2>6 DEF AtQueue
  <2> QED
    BY <1>3, <2>1, <2>5, <2>6, <2>7 DEF QueueKept, AtQueue
<1>4. CASE ReadHead(c, a)
  <2>1. /\ handler[c][a] = "head" /\ handler' = [handler EXCEPT ![c][a] = "update"]
        /\ collided \subseteq collided' /\ failures # <<>>
        /\ head' = [head EXCEPT ![c][a] = Head(failures)]
        /\ UNCHANGED <<failures, answer, injected, delivered>>
    BY <1>4 DEF ReadHead, At
  <2>2. /\ <<c, a>> \in Exchanges /\ Step(<<c, a>>) = "head" /\ Step(<<c, a>>)' = "update"
        /\ \A x \in Exchanges : x # <<c, a>> => Step(x)' = Step(x)
    BY <2>1, Moves
  <2>3. SUFFICES ASSUME "queue" \notin collided' PROVE QueueKept'
    BY DEF QueueKept
  <2>4. /\ Remaining' = injected' - delivered'
        /\ \A x \in Exchanges : Step(x)' = "over" => answer'[x[1]][x[2]] # NoAnswer
    BY <2>1, <2>2, <2>3 DEF QueueKept, Remaining
  <2>5. \A x \in Exchanges : Step(x)' \in AtQueue => x = <<c, a>>
    BY <2>1, <2>2, <2>3 DEF QueueKept, AtQueue
  <2>6. head'[<<c, a>>[1]][<<c, a>>[2]] = Head(failures')
    BY <2>1 DEF TypeInv, Typed
  <2> QED
    BY <2>1, <2>4, <2>5, <2>6 DEF QueueKept, AtQueue
<1>5. CASE Dies(c, a)
  <2>1. failures = <<>> /\ handler[c][a] \in AtQueue /\ collided \subseteq collided'
    BY <1>5 DEF Dies, At, AtQueue
  <2>2. <<c, a>> \in Exchanges /\ Step(<<c, a>>) \in AtQueue
    BY <2>1 DEF Exchanges, Step
  <2>3. "queue" \in collided'
    BY <2>1, <2>2 DEF QueueKept, AtQueue
  <2> QED
    BY <2>3 DEF QueueKept
<1>6. CASE Fail(c, a)
  <2>1. /\ handler[c][a] = "update" /\ handler' = [handler EXCEPT ![c][a] = "over"]
        /\ collided \subseteq collided' /\ failures # <<>>
        /\ failures' = IF head[c][a][2] <= 1 THEN Tail(failures)
                       ELSE [failures EXCEPT ![1] = <<head[c][a][1], head[c][a][2] - 1>>]
        /\ answer' = [answer EXCEPT ![c][a] = head[c][a][1]]
        /\ delivered' = delivered + 1 /\ injected' = injected
    BY <1>6 DEF Fail, FailThen, At
  <2>2. /\ <<c, a>> \in Exchanges /\ Step(<<c, a>>) = "update" /\ Step(<<c, a>>)' = "over"
        /\ \A x \in Exchanges : x # <<c, a>> => Step(x)' = Step(x)
    BY <2>1, Moves
  <2>3. SUFFICES ASSUME "queue" \notin collided' PROVE QueueKept'
    BY DEF QueueKept
  <2>4. head[c][a] = failures[1] /\ failures \in Seq(Failures) /\ head[c][a] \in Failures
    <3>1. head[<<c, a>>[1]][<<c, a>>[2]] = Head(failures)
      BY <2>1, <2>2, <2>3 DEF QueueKept
    <3>2. failures \in Seq(Failures) /\ Head(failures) = failures[1]
      BY DEF TypeInv, Typed
    <3> QED
      BY <2>1, <3>1, <3>2 DEF TypeInv, Typed
  <2>5. Remaining' = Remaining - 1
    <3>1. PICK f \in Failures : f = failures[1]
      BY <2>4
    <3>2. f[1] \in 300..599 /\ f[2] \in Nat \ {0}
      BY FailureParts
    <3>3. failures[1][1] \in 300..599 /\ failures[1][2] \in Nat \ {0}
      BY <3>1, <3>2
    <3>4. CASE failures[1][2] <= 1
      <4>1. failures[1][2] = 1 /\ failures' = Tail(failures)
        BY <2>1, <2>4, <3>3, <3>4
      <4>2. PICK queue \in Seq(Failures) : queue = failures
        BY <2>4
      <4>3. queue # <<>> /\ queue[1][2] = 1
        BY <2>1, <4>1, <4>2
      <4>4. Cardinality(Queued(Tail(queue))) = Cardinality(Queued(queue)) - 1
        BY <4>3, QueuedTail, ZenonT(30)
      <4> QED
        BY <4>1, <4>2, <4>4, ZenonT(30) DEF Remaining
    <3>5. CASE ~(failures[1][2] <= 1)
      <4>0. PICK queue \in Seq(Failures) : queue = failures
        BY <2>4
      <4>1. PICK status \in 300..599 : status = queue[1][1] /\ queue = failures
        BY <3>3, <4>0, ZenonT(30)
      <4>2. failures' = [queue EXCEPT ![1] = <<status, queue[1][2] - 1>>]
        BY <2>1, <2>4, <3>5, <4>1
      <4>3. queue # <<>> /\ queue[1][2] > 1
        BY <2>1, <3>3, <3>5, <4>1
      <4>4. Cardinality(Queued([queue EXCEPT ![1] = <<status, queue[1][2] - 1>>]))
              = Cardinality(Queued(queue)) - 1
        BY <4>3, QueuedLess, ZenonT(30)
      <4>5. Cardinality(Queued(failures')) = Cardinality(Queued(queue)) - 1
        BY <4>2, <4>4
      <4> QED
        BY <4>1, <4>5 DEF Remaining
    <3> QED
      BY <3>4, <3>5
  <2>6. Remaining' = injected' - delivered'
    <3>1. Remaining = injected - delivered
      BY <2>1, <2>3 DEF QueueKept
    <3> QED
      BY <2>1, <2>5, <3>1 DEF TypeInv, TypeOK, ServerOK
  <2>7. \A x \in Exchanges : Step(x)' \notin AtQueue
    BY <2>1, <2>2, <2>3 DEF QueueKept, AtQueue
  <2>8. \A x \in Exchanges : Step(x)' = "over" => answer'[x[1]][x[2]] # NoAnswer
    <3>1. answer'[c][a] # NoAnswer
      <4>1. answer'[c][a] = head[c][a][1]
        BY <1>0, <2>1
      <4>2. PICK f \in Failures : f = head[c][a]
        BY <2>4
      <4>3. f[1] \in 300..599
        BY FailureParts
      <4> QED
        BY <4>1, <4>2, <4>3, SMTT(30) DEF NoAnswer
    <3>2. \A x \in Exchanges : x # <<c, a>> => answer'[x[1]][x[2]] = answer[x[1]][x[2]]
      BY <2>1 DEF TypeInv, Typed, Exchanges
    <3>3. \A x \in Exchanges : Step(x) = "over" => answer[x[1]][x[2]] # NoAnswer
      BY <2>1, <2>3 DEF QueueKept
    <3> QED
      BY <2>2, <3>1, <3>2, <3>3
  <2> QED
    BY <2>6, <2>7, <2>8 DEF QueueKept, AtQueue
<1>7. CASE Serve(c, a)
  <2>1. \E status \in {404, 200} : answer' = [answer EXCEPT ![c][a] = status]
    BY <1>7, ZenonT(30) DEF Serve
  <2>2. /\ answer'[c][a] # NoAnswer
        /\ \A x \in Exchanges : x # <<c, a>> => answer'[x[1]][x[2]] = answer[x[1]][x[2]]
    BY <2>1 DEF TypeInv, Typed, Exchanges, NoAnswer
  <2>3. /\ handler' = [handler EXCEPT ![c][a] = "over"]
        /\ handler[c][a] \notin {"head", "update", "over"} /\ "over" \notin AtQueue
        /\ UNCHANGED <<failures, head, injected, delivered>> /\ collided \subseteq collided'
    BY <1>7 DEF Serve, At, AtQueue
  <2> QED
    BY <2>2, <2>3, QueueApart
<1> QED
  BY <1>1, <1>2, <1>3, <1>4, <1>5, <1>6, <1>7 DEF Handle

LEMMA InjectKept ==
    ASSUME TypeInv, QueueKept, Inject PROVE QueueKept'
<1>1. PICK failure \in Injections :
        failures' = Append(failures, failure) /\ injected' = injected + failure[2]
  BY DEF Inject
<1>2. UNCHANGED <<handler, head, answer, delivered, collided>>
  BY DEF Inject, handlers
<1>3. failure \in Failures /\ failure[2] \in Nat /\ failures \in Seq(Failures)
  BY ConstantTypes DEF Failures, TypeInv, Typed
<1>4. Remaining' = Remaining + failure[2]
  BY <1>1, <1>3, QueuedAppend DEF Remaining
<1>5. injected \in Nat /\ delivered \in Nat
  BY DEF TypeInv, TypeOK, ServerOK
<1>6. /\ failures' # <<>>
      /\ failures # <<>> => Head(failures') = Head(failures)
  BY <1>1, <1>3
<1>7. \A x : Step(x)' = Step(x)
  BY <1>2 DEF Step
<1>8. SUFFICES ASSUME "queue" \notin collided PROVE QueueKept'
  BY <1>2 DEF QueueKept
<1>9. Remaining' = injected' - delivered'
  <2>1. PICK n \in Nat, i \in Nat, d \in Nat : n = failure[2] /\ i = injected /\ d = delivered
    BY <1>3, <1>5
  <2>2. Remaining = i - d
    BY <1>8, <2>1 DEF QueueKept
  <2>3. Remaining' = (i - d) + n /\ injected' = i + n /\ delivered' = d
    BY <1>1, <1>2, <1>4, <2>1, <2>2
  <2> QED
    BY <2>3
<1>10. \A x \in Exchanges : Step(x)' = "update" => head'[x[1]][x[2]] = Head(failures')
  BY <1>2, <1>6, <1>7, <1>8 DEF QueueKept
<1> QED
  BY <1>2, <1>6, <1>7, <1>8, <1>9, <1>10 DEF QueueKept

-----------------------------------------------------------------------------
(* The retries.                                                            *)

\* An answer is sent to an exchange that had none, and is transient only if
\* it is an injected failure.
LEMMA AnswerStep ==
    ASSUME TypeInv, NEW c \in Callers, NEW a \in Attempts, Handle(c, a)
    PROVE  /\ \/ Transient' \subseteq Transient /\ delivered' = delivered
              \/ Transient' \subseteq Transient \cup {<<c, a>>} /\ delivered' = delivered + 1
           /\ \A x \in Exchanges : answer[x[1]][x[2]] \in RetryOnStatus
                 => answer'[x[1]][x[2]] = answer[x[1]][x[2]]
<1>0. answer \in [Callers -> [Attempts -> Sent]]
  BY DEF TypeInv, Typed
<1>1. CASE UNCHANGED <<answer, delivered>>
  BY <1>1 DEF Transient
<1>2. ASSUME NEW status, handler[c][a] # "over", answer' = [answer EXCEPT ![c][a] = status],
             \/ status \notin RetryOnStatus /\ delivered' = delivered
             \/ delivered' = delivered + 1
      PROVE  /\ \/ Transient' \subseteq Transient /\ delivered' = delivered
                \/ Transient' \subseteq Transient \cup {<<c, a>>} /\ delivered' = delivered + 1
             /\ \A x \in Exchanges : answer[x[1]][x[2]] \in RetryOnStatus
                   => answer'[x[1]][x[2]] = answer[x[1]][x[2]]
  <2>1. answer[c][a] = NoAnswer /\ NoAnswer \notin RetryOnStatus
    BY <1>2 DEF TypeInv, IInv, AnswersAtLast, NoAnswer, RetryOnStatus
  <2>2. answer'[c][a] = status
        /\ \A x \in Exchanges : x # <<c, a>> => answer'[x[1]][x[2]] = answer[x[1]][x[2]]
    BY <1>0, <1>2 DEF Exchanges
  <2>3. \A x \in Exchanges : answer[x[1]][x[2]] \in RetryOnStatus
                   => answer'[x[1]][x[2]] = answer[x[1]][x[2]]
    BY <2>1, <2>2
  <2>4. Transient' \subseteq Transient \cup {<<c, a>>}
    BY <2>2 DEF Transient
  <2>5. status \notin RetryOnStatus => Transient' \subseteq Transient
    BY <2>2, <2>4 DEF Transient
  <2> QED
    BY <1>2, <2>3, <2>4, <2>5
<1>3. CASE Fail(c, a)
  <2>1. handler[c][a] = "update" /\ delivered' = delivered + 1
    BY <1>3 DEF Fail, FailThen, At
  <2> QED
    BY <1>2, <1>3, <2>1 DEF Fail, FailThen, At
<1>4. CASE Serve(c, a)
  <2>1. PICK status \in {200, 404} : answer' = [answer EXCEPT ![c][a] = status]
    BY <1>4, ZenonT(30) DEF Serve
  <2>2. status \notin RetryOnStatus
    BY DEF RetryOnStatus
  <2> QED
    BY <1>2, <1>4, <2>1, <2>2, ZenonT(30) DEF Serve, At
<1> QED
  BY <1>1, <1>3, <1>4
     DEF Handle, CountRead, CountWrite, CountThen, Check, ReadHead, Dies

LEMMA RetryHandled ==
    ASSUME TypeInv, RetriesMet, NEW c \in Callers, NEW a \in Attempts, Handle(c, a)
    PROVE  RetriesMet'
<1>1. UNCHANGED <<pc, attempts, error, running, lost, stops>> /\ collided \subseteq collided'
  BY DEF Handle, CountRead, CountWrite, CountThen, Check, ReadHead, Dies, Fail, FailThen, Serve,
         At, caller
<1>2. Cardinality(Transient') <= delivered'
  <2>1. IsFiniteSet(Transient) /\ Cardinality(Transient) \in Nat
    <3>1. Transient \in SUBSET Exchanges
      BY DEF Transient
    <3> QED
      BY <3>1, ExchangesFinite
  <2>2. Cardinality(Transient) <= delivered /\ delivered \in Nat
    BY DEF RetriesMet, TypeInv, TypeOK, ServerOK
  <2>3. CASE Transient' \subseteq Transient /\ delivered' = delivered
    <3>1. Transient' \in SUBSET Transient
      BY <2>3
    <3>2. Cardinality(Transient') <= Cardinality(Transient) /\ Cardinality(Transient') \in Nat
      BY <2>1, <3>1, FS_Subset, FS_CardinalityType
    <3> QED
      BY <2>1, <2>2, <2>3, <3>2
  <2>4. CASE Transient' \subseteq Transient \cup {<<c, a>>} /\ delivered' = delivered + 1
    <3> DEFINE more == Transient \cup {<<c, a>>}
    <3>1. IsFiniteSet(more) /\ Cardinality(more) \in Nat /\ Cardinality(more) <= Cardinality(Transient) + 1
      <4>1. /\ IsFiniteSet(more)
            /\ Cardinality(more) = IF <<c, a>> \in Transient THEN Cardinality(Transient)
                                   ELSE Cardinality(Transient) + 1
        BY <2>1, FS_AddElement
      <4> QED
        BY <2>1, <4>1
    <3>2. Transient' \in SUBSET more
      BY <2>4
    <3> HIDE DEF more
    <3>3. Cardinality(Transient') <= Cardinality(more) /\ Cardinality(Transient') \in Nat
      BY <3>1, <3>2, FS_Subset, FS_CardinalityType
    <3> QED
      BY <2>1, <2>2, <2>4, <3>1, <3>3
  <2> QED
    BY <2>3, <2>4, AnswerStep
<1>3. \A d \in Callers, b \in Attempts :
        answer[d][b] \in RetryOnStatus => answer'[d][b] = answer[d][b]
  <2>1. \A d \in Callers, b \in Attempts : <<d, b>> \in Exchanges
    BY DEF Exchanges
  <2> QED
    BY <2>1, AnswerStep
<1>4. Undisturbed' => Undisturbed
  BY <1>1 DEF Undisturbed
<1> QED
  BY <1>1, <1>2, <1>3, <1>4 DEF RetriesMet

\* A transient error of an undisturbed caller is a transient answer.
LEMMA TransientStatus ==
    ASSUME NEW status, NEW retry_after, ShouldRetry(HttpError(status, retry_after))
    PROVE  status \in RetryOnStatus
BY DEF HttpError, ShouldRetry, Error, RetryOnStatus

LEMMA RetryFails ==
    ASSUME TypeInv, RetriesMet, NEW c \in Callers, NEW e, Fails(c, e),
           UNCHANGED <<injections, injected, delivered, stops, collided>>,
           lost' = lost \/ lost' > 0,
           Undisturbed /\ lost' = lost /\ ShouldRetry(e) => answer[c][attempts[c]] \in RetryOnStatus
    PROVE  RetriesMet'
<1>1. /\ pc' = [pc EXCEPT ![c] = "failed"] /\ error' = [error EXCEPT ![c] = e]
      /\ UNCHANGED <<attempts, answer, running>>
  BY DEF Fails, server, handlers
<1>2. /\ \A d \in Callers : d # c => pc'[d] = pc[d] /\ error'[d] = error[d]
      /\ pc'[c] = "failed" /\ error'[c] = e
  BY <1>1 DEF TypeInv, IInv, Types
<1>3. /\ Cardinality(Transient') <= delivered'
      /\ stops' = 0 => running'
  BY <1>1 DEF RetriesMet, Transient
<1>4. \A d \in Callers : pc'[d] = "done" /\ ShouldRetry(error'[d]) => attempts'[d] = MaxRetries
  BY <1>1, <1>2 DEF RetriesMet
<1>5. Undisturbed' => Undisturbed /\ lost' = lost
  BY DEF Undisturbed, TypeInv, TypeOK, ServerOK
<1>6. ASSUME Undisturbed', NEW d \in Callers, NEW b \in Attempts,
             \/ b < attempts'[d]
             \/ b = attempts'[d] /\ pc'[d] \in {"failed", "done"} /\ ShouldRetry(error'[d])
      PROVE  answer'[d][b] \in RetryOnStatus
  <2>1. CASE b < attempts'[d] \/ d # c
    BY <1>1, <1>2, <1>5, <1>6, <2>1 DEF RetriesMet
  <2>2. CASE d = c /\ b = attempts[c] /\ ShouldRetry(e)
    BY <1>1, <1>5, <1>6, <2>2
  <2> QED
    BY <1>1, <1>2, <1>6, <2>1, <2>2
<1> QED
  BY <1>3, <1>4, <1>6 DEF RetriesMet

LEMMA RetryCaller ==
    ASSUME TypeInv, QueueKept, RetriesMet, NEW c \in Callers, Call(c) \/ GiveUp(c) \/ Caller(c)
    PROVE  RetriesMet'
<1>0. /\ attempts[c] \in Attempts /\ <<c, attempts[c]>> \in Exchanges
      /\ DOMAIN pc = Callers /\ DOMAIN error = Callers /\ DOMAIN attempts = Callers
  BY DEF TypeInv, IInv, Types, Exchanges
<1>1. CASE GiveUp(c)
  <2>1. lost' > 0 /\ lost' # lost /\ UNCHANGED <<injections, injected, delivered, stops, collided>>
    BY <1>1 DEF GiveUp, TypeInv, TypeOK, ServerOK
  <2>2. PICK e : Fails(c, e)
    BY <1>1 DEF GiveUp
  <2> QED
    BY <2>1, <2>2, RetryFails
<1>2. CASE Refused(c)
  <2>1. UNCHANGED <<injections, injected, delivered, stops, collided, lost>>
    BY <1>2 DEF Refused, history
  <2>2. PICK e : Fails(c, e)
    BY <1>2 DEF Refused
  <2>3. ~Undisturbed
    BY <1>2 DEF Refused, Undisturbed, RetriesMet
  <2> QED
    BY <2>1, <2>2, <2>3, RetryFails
<1>3. CASE Disconnected(c)
  <2>1. UNCHANGED <<injections, injected, delivered, stops, collided, lost>>
    BY <1>3 DEF Disconnected, history
  <2>2. PICK e : Fails(c, e)
    BY <1>3 DEF Disconnected
  <2>3. ~Undisturbed
    <3>1. handler[c][attempts[c]] = "over" /\ answer[c][attempts[c]] = NoAnswer
      BY <1>3 DEF Disconnected
    <3> QED
      BY <1>0, <3>1 DEF Undisturbed, QueueKept, Step
  <2> QED
    BY <2>1, <2>2, <2>3, RetryFails
<1>4. CASE HttpFailure(c)
  <2>1. UNCHANGED <<injections, injected, delivered, stops, collided, lost>>
    BY <1>4 DEF HttpFailure, history
  <2>2. PICK e : /\ Fails(c, e)
                 /\ ShouldRetry(e) => answer[c][attempts[c]] \in RetryOnStatus
    <3>1. CASE operation[c] = "stream"
      BY <1>4, <3>1, UnreadIsFinal DEF HttpFailure
    <3>2. CASE operation[c] # "stream"
      BY <1>4, <3>2, TransientStatus DEF HttpFailure
    <3> QED
      BY <3>1, <3>2
  <2> QED
    BY <2>1, <2>2, RetryFails
<1>5. CASE Call(c) \/ Connect(c)
  <2>1. /\ pc' = [pc EXCEPT ![c] = "attempt"] \/ pc' = [pc EXCEPT ![c] = "waiting"]
        /\ UNCHANGED <<attempts, error, answer, running, delivered, lost, stops, collided>>
    BY <1>5 DEF Call, Connect, Goto, server, handlers, history
  <2>2. /\ pc'[c] \notin {"failed", "done"}
        /\ \A d \in Callers : d # c => pc'[d] = pc[d]
    BY <1>0, <2>1
  <2> QED
    BY <2>1, <2>2 DEF RetriesMet, Undisturbed, Transient
<1>6. CASE Success(c) \/ Retry(c)
  <2>1. /\ pc' = [pc EXCEPT ![c] = "done"] \/ pc' = [pc EXCEPT ![c] = "attempt"]
        /\ error' = [error EXCEPT ![c] = NoError]
        /\ UNCHANGED <<attempts, answer, running, delivered, lost, stops, collided>>
    BY <1>6 DEF Success, Retry, Goto, server, handlers, history
  <2>2. ~ShouldRetry(NoError)
    BY DEF ShouldRetry, NoError, Error
  <2>3. /\ error'[c] = NoError
        /\ \A d \in Callers : d # c => pc'[d] = pc[d] /\ error'[d] = error[d]
    BY <1>0, <2>1
  <2> QED
    BY <2>1, <2>2, <2>3 DEF RetriesMet, Undisturbed, Transient
<1>7. CASE Raise(c)
  <2>1. /\ pc[c] = "failed" /\ pc' = [pc EXCEPT ![c] = "done"]
        /\ UNCHANGED <<attempts, error, answer, running, delivered, lost, stops, collided>>
    BY <1>7 DEF Raise, Goto, server, handlers, history
  <2>2. ShouldRetry(error[c]) => attempts[c] = MaxRetries
    BY <1>0, <1>7, ConstantTypes DEF Raise, GiveUpRetrying, Attempts
  <2>3. /\ pc'[c] = "done"
        /\ \A d \in Callers : d # c => pc'[d] = pc[d]
    BY <1>0, <2>1
  <2> QED
    BY <2>1, <2>2, <2>3 DEF RetriesMet, Undisturbed, Transient
<1>8. CASE Sleep(c)
  <2>1. /\ pc[c] = "failed" /\ pc' = [pc EXCEPT ![c] = "sleeping"]
        /\ attempts' = [attempts EXCEPT ![c] = @ + 1] /\ ShouldRetry(error[c])
        /\ UNCHANGED <<error, answer, running, delivered, lost, stops, collided>>
    BY <1>8 DEF Sleep, GiveUpRetrying, Goto, server, handlers, history
  <2>2. /\ pc'[c] = "sleeping" /\ attempts'[c] = attempts[c] + 1
        /\ \A d \in Callers : d # c => pc'[d] = pc[d] /\ attempts'[d] = attempts[d]
    BY <1>0, <2>1
  <2>3. \A b \in Attempts : b < attempts[c] + 1 => b < attempts[c] \/ b = attempts[c]
    <3>1. attempts[c] \in Nat /\ Attempts \subseteq Nat
      BY <1>0, ConstantTypes
    <3> QED
      BY <3>1
  <2>4. \A d \in Callers : pc'[d] = "done" /\ ShouldRetry(error'[d]) => attempts'[d] = MaxRetries
    BY <2>1, <2>2 DEF RetriesMet
  <2>5. ASSUME Undisturbed', NEW d \in Callers, NEW b \in Attempts,
               \/ b < attempts'[d]
               \/ b = attempts'[d] /\ pc'[d] \in {"failed", "done"} /\ ShouldRetry(error'[d])
        PROVE  answer'[d][b] \in RetryOnStatus
    BY <2>1, <2>2, <2>3, <2>5 DEF RetriesMet, Undisturbed
  <2>6. Cardinality(Transient') <= delivered' /\ (stops' = 0 => running')
    BY <2>1 DEF RetriesMet, Transient
  <2> QED
    BY <2>4, <2>5, <2>6 DEF RetriesMet
<1> QED
  BY <1>1, <1>2, <1>3, <1>4, <1>5, <1>6, <1>7, <1>8 DEF Caller

-----------------------------------------------------------------------------
LEMMA ExchangeInvInit == Init => ExchangeInv
<1> SUFFICES ASSUME Init PROVE ExchangeInv
  OBVIOUS
<1>1. TypeInv
  BY IInvInit, TypeInit DEF TypeInv
<1>2. \A x \in Exchanges : Step(x) = "none" /\ answer[x[1]][x[2]] = NoAnswer
  BY DEF Init, PerExchange, Exchanges, Step
<1>3. Cardinality({}) = 0
  BY FS_EmptySet
<1>4. CountKept
  <2>1. Counted = {}
    BY <1>2 DEF Counted, Step, Uncounted
  <2>2. request_count = 0 /\ Handled = 0
    BY <1>3, <2>1 DEF Init, Handled
  <2> QED
    BY <1>2, <2>2 DEF CountKept
<1>5. QueueKept
  <2>1. failures = <<>> /\ injected = 0 /\ delivered = 0
    BY DEF Init
  <2>2. Queued(failures) = {}
    BY <2>1 DEF Queued
  <2>3. Remaining = 0
    BY <1>3, <2>2 DEF Remaining
  <2>4. Remaining = injected - delivered
    BY <2>1, <2>3
  <2> QED
    BY <1>2, <2>4 DEF QueueKept
<1>6. RetriesMet
  <2>1. Transient = {}
    BY <1>2 DEF Transient, NoAnswer, RetryOnStatus
  <2>2. Cardinality(Transient) <= delivered
    BY <1>3, <2>1 DEF Init
  <2>3. \A c \in Callers : pc[c] = "idle" /\ attempts[c] = 0
    BY DEF Init
  <2>4. \A a \in Attempts : ~(a < 0)
    BY DEF Attempts
  <2>5. stops = 0 => running
    BY DEF Init
  <2> QED
    BY <2>2, <2>3, <2>4, <2>5 DEF RetriesMet
<1> QED
  BY <1>1, <1>4, <1>5, <1>6 DEF ExchangeInv

LEMMA ExchangeInvStep == ExchangeInv /\ [Next]_vars => ExchangeInv'
<1> SUFFICES ASSUME ExchangeInv, [Next]_vars PROVE (CountKept /\ QueueKept /\ RetriesMet)'
  BY TypeInvStep DEF ExchangeInv
<1> USE DEF ExchangeInv
<1>1. CASE \E c \in Callers : Call(c) \/ GiveUp(c) \/ Caller(c)
  <2>1. PICK c \in Callers : Call(c) \/ GiveUp(c) \/ Caller(c)
    BY <1>1
  <2>2. attempts[c] \in Attempts
    BY DEF TypeInv, IInv, Types
  <2>3. CASE Connect(c)
    <3>1. /\ pc[c] = "attempt" /\ handler' = [handler EXCEPT ![c][attempts[c]] = "received"]
          /\ UNCHANGED <<request_count, failures, read, head, answer, injected, delivered, collided>>
      BY <2>3 DEF Connect, Goto, history, server
    <3>2. handler[c][attempts[c]] = "none"
      BY <2>2, <3>1 DEF TypeInv, IInv, NotYetBegun
    <3>3. CountKept'
      BY <2>2, <3>1, <3>2, CountApart DEF Uncounted
    <3>4. QueueKept'
      <4>1. /\ handler[c][attempts[c]] \notin {"head", "update", "over"}
            /\ "received" \notin AtQueue /\ "received" # "over"
            /\ collided \subseteq collided'
            /\ \A x \in Exchanges : answer'[x[1]][x[2]] = answer[x[1]][x[2]]
        BY <3>1, <3>2 DEF AtQueue
      <4> QED
        BY <2>2, <3>1, <4>1, QueueApart
    <3> QED
      BY <2>3, <3>3, <3>4, RetryCaller DEF Caller
  <2>4. CASE ~Connect(c)
    <3>1. UNCHANGED <<server, handlers, injected, delivered, collided>>
      BY <2>1, <2>4 DEF Call, GiveUp, Caller, Refused, Disconnected, Success, HttpFailure, Raise, Sleep,
                        Retry, Fails, history
    <3>2. CountKept' /\ QueueKept'
      BY <3>1 DEF CountKept, QueueKept, Handled, Counted, Remaining, Step, server, handlers
    <3> QED
      BY <2>1, <3>2, RetryCaller
  <2> QED
    BY <2>3, <2>4
<1>2. CASE \E x \in Exchanges : Handle(x[1], x[2])
  BY <1>2, CountStep, QueueStep, RetryHandled DEF Exchanges
<1>3. CASE Inject
  <2>1. UNCHANGED <<pc, attempts, error, running, request_count, handlers, delivered, lost, stops, collided>>
    BY <1>3 DEF Inject, caller
  <2>2. CountKept' /\ RetriesMet'
    BY <2>1 DEF CountKept, Handled, Counted, Step, RetriesMet, Transient, Undisturbed, handlers
  <2> QED
    BY <1>3, <2>2, InjectKept
<1>4. CASE Stop \/ Start
  <2>1. /\ UNCHANGED <<pc, attempts, error, request_count, failures, handlers,
                       injected, delivered, lost, collided>>
        /\ \/ running' /\ stops' = stops
           \/ stops' = stops + 1
    BY <1>4 DEF Stop, Start, caller, history
  <2>2. CountKept' /\ QueueKept'
    BY <2>1 DEF CountKept, QueueKept, Handled, Counted, Remaining, Step, handlers
  <2>3. stops' = 0 => stops = 0 /\ running'
    BY <2>1 DEF TypeInv, TypeOK, ServerOK
  <2>4. RetriesMet'
    BY <2>1, <2>3 DEF RetriesMet, Transient, Undisturbed, handlers
  <2> QED
    BY <2>2, <2>4
<1>5. CASE Rest \/ UNCHANGED vars
  <2>1. UNCHANGED vars
    BY <1>5 DEF Rest
  <2> QED
    BY <2>1 DEF vars, caller, server, handlers, history, CountKept, QueueKept, RetriesMet,
                Handled, Counted, Remaining, Step, Transient, Undisturbed
<1> QED
  BY <1>1, <1>2, <1>3, <1>4, <1>5 DEF Next

LEMMA ExchangeInvariant == Spec => []ExchangeInv
BY ExchangeInvInit, ExchangeInvStep, PTL DEF Spec

(***************************************************************************)
(* do_POST and fail_with() keep the books, for any number of callers,      *)
(* failures, restarts and abandoned exchanges: as long as no two handlers  *)
(* were at the queue at once, each failure asked for is sent exactly once  *)
(* and no connection dies; and request_count is never too high, and right  *)
(* unless two handlers were at it.                                         *)
(***************************************************************************)
THEOREM BooksKept == Spec => []BooksBalance
<1>1. ExchangeInv => BooksBalance
  BY DEF ExchangeInv, CountKept, QueueKept, BooksBalance, Step
<1> QED
  BY <1>1, ExchangeInvariant, PTL

(***************************************************************************)
(* If nobody gave an exchange up, the server never stopped and no two      *)
(* handlers collided at its queue, a call (but no stream) that ends in a   *)
(* transient error means that the server sent more than max_retries        *)
(* failures in all, be it to this caller or to others.                     *)
(***************************************************************************)
THEOREM FailuresOutlasted == Spec => []OutlastsFailures
<1>1. ASSUME ExchangeInv, NEW c \in Callers, pc[c] = "done", ShouldRetry(error[c]), Undisturbed
      PROVE  delivered > MaxRetries
  <2> DEFINE mine == {c} \X Attempts
  <2>1. \A a \in Attempts : answer[c][a] \in RetryOnStatus
    <3>1. attempts[c] = MaxRetries
      BY <1>1 DEF ExchangeInv, RetriesMet
    <3>2. \A a \in Attempts : a < MaxRetries \/ a = MaxRetries
      BY ConstantTypes DEF Attempts
    <3> QED
      BY <1>1, <3>1, <3>2 DEF ExchangeInv, RetriesMet
  <2>2. mine \in SUBSET Transient
    BY <2>1 DEF Transient, Exchanges
  <2>3. IsFiniteSet(Attempts) /\ Cardinality(Attempts) = MaxRetries + 1
    <3>1. /\ IsFiniteSet(0..MaxRetries)
          /\ Cardinality(0..MaxRetries) = IF 0 > MaxRetries THEN 0 ELSE MaxRetries - 0 + 1
      BY ConstantTypes, FS_Interval
    <3> QED
      BY <3>1, ConstantTypes DEF Attempts
  <2>4. IsFiniteSet({c}) /\ Cardinality({c}) = 1
    BY FS_Singleton
  <2>5. Cardinality(mine) = 1 * Cardinality(Attempts)
    BY <2>3, <2>4, FS_Product
  <2>6. Transient \in SUBSET Exchanges
    BY DEF Transient
  <2>7. IsFiniteSet(Transient) /\ Cardinality(Transient) \in Nat
    BY <2>6, ExchangesFinite
  <2> HIDE DEF mine
  <2>8. Cardinality(mine) <= Cardinality(Transient)
    BY <2>2, <2>7, FS_Subset
  <2>9. Cardinality(Transient) <= delivered /\ delivered \in Nat
    BY <1>1 DEF ExchangeInv, RetriesMet, TypeInv, TypeOK, ServerOK
  <2> QED
    BY <2>3, <2>5, <2>7, <2>8, <2>9, ConstantTypes
<1>2. ExchangeInv => OutlastsFailures
  BY <1>1 DEF OutlastsFailures
<1> QED
  BY <1>2, ExchangeInvariant, PTL
=============================================================================
