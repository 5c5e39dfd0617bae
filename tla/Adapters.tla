------------------------------- MODULE Adapters -------------------------------
(***************************************************************************)
(* One provider adapter at work: a request is admitted by client.py and    *)
(* enforcer.py, written by the adapter, and answered by the provider.  The *)
(* adapter reads the answer; of embeddings and rankings this is what the   *)
(* client returns, for chats the client has a parser of its own.           *)
(*                                                                         *)
(* Or an application hands a stream of server-sent events to the adapter's *)
(* handle_streaming.  A line is blank, not JSON or without choices         *)
(* ("nothing"), the [DONE] mark, or an event.  No event follows one with a *)
(* finish_reason, and nothing that says anything follows [DONE].  An       *)
(* adapter belongs to all threads of a client: one more stream runs over   *)
(* it at its own pace.  "custom" is an adapter that keeps what the base    *)
(* class provides.                                                         *)
(***************************************************************************)
EXTENDS AdapterFormats

CONSTANTS
    AdapterNames,       \* the adapters considered
    Requests,           \* chat requests, as chat() makes them; the model's canonical id
    Answers, StructuredAnswers,     \* answers to them, without and with output_schema
    Data, Items,        \* results of embeddings, of reranking
    Statuses,           \* of answers that are errors
    Events,             \* events of a stream
    MaxLines, MaxOther  \* bounds: lines of a stream, reasoning of the other one

ASSUME AdaptersAssumption ==
    /\ AdapterNames \subseteq Chats \cup {"custom"}
    /\ Requests \subseteq ChatRequests
    /\ \A a \in Answers \cup StructuredAnswers : a.kind = "answer"
    /\ \A a \in StructuredAnswers : a.content \in WrittenTexts
    /\ Events \subseteq StreamEvents
    /\ MaxLines \in Nat /\ MaxOther \in Nat

VARIABLES
    adapter,    \* the adapter
    advertised, \* capabilities the registry gives the model
    pc, op,     \* where the call is; "chat", "embeddings", "rerank" or "stream"
    request, body, answer,  \* what was asked, is sent, came back
    result,     \* what the caller has got
    reader,     \* the generator of handle_streaming
    told,       \* history: what the provider has streamed
    reasoning,  \* self.reasoning: whose it is, delta by delta
    other       \* the reasoning of the other stream, or NotRunning

call == <<advertised, pc, op, request, body, answer, result>>
stream == <<reader, told>>
vars == <<adapter, call, stream, reasoning, other>>

Nothing == [kind |-> "nothing"]
NotRunning == <<"not running">>
NothingTold == [lines |-> 0, content |-> 0, reasoning |-> 0, finished |-> FALSE, done |-> FALSE]

Init ==
    /\ adapter \in AdapterNames
    /\ advertised = {}
    /\ pc = "idle" /\ op = None
    /\ request = Nothing /\ body = Nothing /\ answer = Nothing /\ result = Nothing
    /\ reader = NewReader /\ told = NothingTold
    /\ reasoning = <<>> /\ other = NotRunning

-----------------------------------------------------------------------------
(* Asking.                                                                 *)

\* _messages_contain_images
ContainImages(messages) == \E i \in DOMAIN messages : messages[i].content.image

\* What chat(), embed() and rerank() assert of the model and the adapter.
Required(what, r) ==
    IF what # "chat" THEN {what}
    ELSE {"chat"} \cup (IF r.tools THEN {"tools"} ELSE {})
                  \cup (IF ContainImages(r.messages) THEN {"vision"} ELSE {})

\* CapabilityMatrixEnforcer.assert_supported, for the model and the adapter.
Supported(what, r, model) == Required(what, r) \subseteq model \cap CapabilitiesOf(adapter)

Ask(what, r, model) ==
    /\ pc = "idle" /\ adapter # "custom" /\ other = NotRunning
    /\ op' = what /\ request' = r /\ advertised' = model
    /\ IF Supported(what, r, model)
         THEN pc' = "admitted" /\ UNCHANGED result
         ELSE pc' = "over" /\ result' = Raised("FeatureNotSupportedError")
    /\ UNCHANGED <<adapter, body, answer, stream, reasoning, other>>

Instruction ==
    [role |-> "system", content |-> [form |-> "text", image |-> FALSE],
     calls |-> FALSE, call_id |-> FALSE]

\* _build_request_body: an output schema becomes the first message.
Outbound(r) == IF r.schema THEN [r EXCEPT !.messages = <<Instruction>> \o @] ELSE r

\* httpx makes JSON of the body.
AsJson(b) == IF b.kind = "chat body" /\ ~Encodable(b) THEN Raised("TypeError") ELSE b

\* The body of the call, or what writing it raises.
BodyFor(what, r) ==
    CASE what = "chat" -> AsJson(FormatRequest(adapter, Outbound(r)))
      [] what = "embeddings" -> FormatEmbedRequest
      [] what = "rerank" -> FormatRerankRequest(adapter)

Format ==
    /\ pc = "admitted"
    /\ LET b == BodyFor(op, request) IN
       IF b.kind = "raised" THEN pc' = "over" /\ result' = b /\ UNCHANGED body
                            ELSE pc' = "sent" /\ body' = b /\ UNCHANGED result
    /\ UNCHANGED <<adapter, advertised, op, request, answer, stream, reasoning, other>>

-----------------------------------------------------------------------------
(* The answer.                                                             *)

Return(a, r) ==
    /\ pc = "sent" /\ pc' = "over"
    /\ answer' = a /\ result' = r
    /\ UNCHANGED <<adapter, advertised, op, request, body, stream, reasoning, other>>

Answered(a) == op = "chat" /\ Return(a, ParseResponse(adapter, a, request))

Refused(status) == Return([kind |-> "error", status |-> status], TranslateError(adapter, status))

Results(items) == [kind |-> "results", items |-> items]

Embedded(data) == op = "embeddings" /\ Return(Results(data), ParseEmbedResponse(data))

Ranked(items) == op = "rerank" /\ Return(Results(items), ParseRerankResponse(items))

-----------------------------------------------------------------------------
(* Streams.                                                                *)

\* The first next() of the generator; deepseek forgets what it had.
Begin ==
    /\ pc = "idle"
    /\ pc' = "streaming" /\ op' = "stream"
    /\ reasoning' = IF adapter = "deepseek" THEN <<>> ELSE reasoning
    /\ UNCHANGED <<adapter, advertised, request, body, answer, result, stream, other>>

SelfReasoning_Shared(r) == Append(reasoning, "mine")

\* What is stored as self.reasoning: all that this stream has collected.
SelfReasoning(r) == r.reasoning

ReadLine(line) ==
    /\ pc = "streaming" /\ told.lines < MaxLines
    /\ reader' = HandleStreaming(adapter, reader, line)
    /\ pc' = IF reader'.ended = "no" THEN pc ELSE "over"
    /\ reasoning' = IF adapter = "deepseek" /\ Thinks(line)
                    THEN SelfReasoning(reader') ELSE reasoning
    /\ UNCHANGED <<adapter, advertised, op, request, body, answer, result, other>>

Skip ==
    /\ ReadLine([kind |-> "nothing"])
    /\ told' = [told EXCEPT !.lines = @ + 1]

Done ==
    /\ ~told.done
    /\ ReadLine([kind |-> "done"])
    /\ told' = [told EXCEPT !.lines = @ + 1, !.done = TRUE]

Event(e) ==
    /\ ~told.done /\ ~told.finished
    /\ ReadLine(e)
    /\ told' = [lines |-> told.lines + 1, done |-> FALSE, finished |-> e.finish # None,
                content |-> told.content + (IF e.content THEN 1 ELSE 0),
                reasoning |-> told.reasoning + (IF e.reasoning THEN 1 ELSE 0)]

\* The lines end, or reading one raises.
End ==
    /\ pc = "streaming" /\ pc' = "over"
    /\ \/ reader' = [reader EXCEPT !.ended = "returned"]
       \/ reader' = Fails(reader)
    /\ UNCHANGED <<adapter, advertised, op, request, body, answer, result, told, reasoning, other>>

-----------------------------------------------------------------------------
(* The other stream, and the next call.  Other calls share nothing with a  *)
(* stream: they are considered alone.                                      *)

OtherBegins ==
    /\ op \in {None, "stream"}
    /\ other = NotRunning /\ other' = <<>>
    /\ reasoning' = IF adapter = "deepseek" THEN <<>> ELSE reasoning
    /\ UNCHANGED <<adapter, call, stream>>

OtherThinks ==
    /\ other # NotRunning /\ Len(other) < MaxOther
    /\ other' = Append(other, "other")
    /\ reasoning' = IF adapter = "deepseek" THEN other' ELSE reasoning
    /\ UNCHANGED <<adapter, call, stream>>

\* The client keeps its adapters.
Again ==
    /\ pc = "over" /\ pc' = "idle"
    /\ advertised' = {} /\ op' = None
    /\ request' = Nothing /\ body' = Nothing /\ answer' = Nothing /\ result' = Nothing
    /\ reader' = NewReader /\ told' = NothingTold
    /\ UNCHANGED <<adapter, reasoning, other>>

Next ==
    \/ \E r \in Requests, more \in SUBSET {"vision"} : Ask("chat", r, {"chat", "tools"} \cup more)
    \/ \E what \in {"embeddings", "rerank"} : Ask(what, Nothing, {what})
    \/ Format
    \/ \E a \in (IF op = "chat" /\ request.schema THEN StructuredAnswers ELSE Answers) : Answered(a)
    \/ \E status \in Statuses : Refused(status)
    \/ \E data \in Data : Embedded(data)
    \/ \E items \in Items : Ranked(items)
    \/ Begin \/ Skip \/ Done \/ End
    \/ \E e \in Events : Event(e)
    \/ OtherBegins \/ OtherThinks
    \/ Again

Spec == Init /\ [][Next]_vars

-----------------------------------------------------------------------------
(* Properties.                                                             *)

ResultKinds == {"nothing", "raised", "response", "vectors", "ranking"}

TypeOK ==
    /\ adapter \in AdapterNames
    /\ pc \in {"idle", "admitted", "sent", "streaming", "over"}
    /\ op \in {None, "chat", "embeddings", "rerank", "stream"}
    /\ body.kind \in {"nothing", "chat body", "embed body", "rerank body"}
    /\ result.kind \in ResultKinds
    /\ result.kind = "response" => result.finish \in Reasons \cup {"null", "other"}
    /\ op = "stream" => result = Nothing
    /\ pc = "over" /\ op # "stream" => result # Nothing
    /\ reader.ended \in {"no", "returned", "failed"}
    /\ reader.ended # "no" => pc = "over"

\* What a request says, as the body should say it.  Only an assistant calls a
\* tool, and only a tool's message names the call.
SaidBy(r) ==
    [i \in DOMAIN r.messages |->
       LET msg == r.messages[i] IN
       <<msg.role, msg.content.image,
         msg.role = "assistant" /\ msg.calls, msg.role = "tool" /\ msg.call_id>>]

InBlocks(messages) == \E i \in DOMAIN messages : messages[i].content.form = "blocks"

(***************************************************************************)
(* What client and enforcer admit, the adapter can write: an admitted call *)
(* raises before it is sent only over a tool_choice that is a plain string,*)
(* which chat() lets pass (client.py:622-624), or over a list of blocks    *)
(* without an image; so an image, an embedding or a reranking with a proper*)
(* tool_choice never does.  And the body holds the conversation in order,  *)
(* the schema's instruction before it, and every option that was set, be it*)
(* zero.                                                                   *)
(***************************************************************************)
AdmittedIsSendable ==
    /\ result.kind = "raised" /\ answer = Nothing /\ Supported(op, request, advertised) =>
         /\ op = "chat"
         /\ \/ result.error = "AttributeError" /\ PlainToolChoice(request)
            \/ /\ result.error = "TypeError"
               /\ InBlocks(request.messages) /\ ~ContainImages(request.messages)
    /\ body.kind = "chat body" =>
         /\ SaidBy(body) = SaidBy(Outbound(request))
         /\ body.options = request.options
         /\ body.tool_choice # None => body.tools

\* An answer as the OpenAI schema has it, of which all providers are variants.
Conforms(a) ==
    /\ a.choices /\ a.message # "null" /\ a.finish \in Reasons
    /\ a.usage \in {"prompt_tokens", "absent"}

\* The response without the name of the model and the reasoning tokens.
Core(response) ==
    [field \in DOMAIN response \ {"model", "reasoning_tokens"} |-> response[field]]

(***************************************************************************)
(* An adapter's parser and the client's are written apart.  For every      *)
(* answer that conforms they return responses that differ in the name of   *)
(* the model and the reasoning tokens at most, of which the client reads   *)
(* neither from the answer, and in nothing if the answer names the model   *)
(* that was asked for and has no such tokens; or they raise the same.      *)
(* Where an answer deviates (no choices, an explicit null, a finish reason *)
(* nobody knows, other names for tokens) the adapter's still raises nothing*)
(* but an error of parsing or of a call without a name.                    *)
(***************************************************************************)
ParsersAgree ==
    LET clients == ParseChatResponse(answer, request) IN
    answer.kind = "answer" =>
        /\ Conforms(answer) =>
             /\ Core(result) = Core(clients)
             /\ answer.model \in {None, request.model} /\ ~answer.reasoning => result = clients
        /\ result.kind = "raised" => result.error \in {"ResponseParsingError", "ValidationError"}

\* An object or an array, and nothing around it.
IsBlock(text, opener) == IsJson(text) /\ Head(text) = opener /\ Last(text) = Closer[opener]

(***************************************************************************)
(* structured_output.md:21: code fences and leading prose are tolerated.   *)
(* As long as no brace comes before it, the object a model gives is the one*)
(* that is parsed, whatever follows it and whatever its strings contain;   *)
(* an array too, if there is no brace at all and no bracket before it.     *)
(* Only a text that is JSON from its first to its last character is taken  *)
(* as a whole.                                                             *)
(***************************************************************************)
FindsObject ==
    answer.kind = "answer" /\ request.schema =>
        LET content == answer.content
            cleaned == Cleaned(Text(content)) IN
        \A opener \in Openers :
            /\ answer.choices /\ ~Unnamed(Functions(answer.calls)) /\ answer.conforms
            /\ IsBlock(content.object, opener)
            /\ opener \notin Range(content.before)
            /\ opener = "{" \/ "{" \notin Range(Text(content))
            => /\ result.kind = "response"
               /\ result.parsed = IF IsJson(cleaned) THEN cleaned ELSE content.object

\* How many of the first n chunks hold content.
Contents(chunks, n) == Cardinality({i \in 1..n : chunks[i].content})

(***************************************************************************)
(* Every loop over the same events gives the same stream: each content     *)
(* once and in time, one final chunk, as the last, if the provider ended   *)
(* its answer, although [DONE] and a finish_reason both make one, and the  *)
(* time to the first token once, with or right before the first content.   *)
(***************************************************************************)
StreamDelivered ==
    LET out == reader.out
        times == {i \in DOMAIN out : out[i].ttft}
    IN  /\ Contents(out, Len(out)) = told.content \/ reader.ended = "failed"
        /\ \A i \in 1..Len(out) - 1 : ~out[i].is_final
        /\ told.finished \/ told.done => reader.ended = "failed" \/ Last(out).is_final
        /\ \A i, j \in times : i = j
        /\ \A i \in times : Contents(out, i - 1) = 0
        /\ Contents(out, Len(out)) > 0 => times # {}

(***************************************************************************)
(* deepseek.py:206: self.reasoning is the reasoning of a stream.  Streams  *)
(* that share an adapter replace each other's, but never mix: it is all    *)
(* that one of them has met so far, and this one's if no other runs.       *)
(***************************************************************************)
ReasoningUnmixed ==
    adapter = "deepseek" /\ op = "stream" =>
        \/ reasoning = [i \in 1..told.reasoning |-> "mine"]
        \/ reasoning = other

-----------------------------------------------------------------------------
(* What the documentation claims and some adapters break.                  *)

(***************************************************************************)
(* models.py:283: "content may be a plain string (most common) or a list   *)
(* of ContentBlock objects".  DeepSeek, GLM and Kimi put the objects of a  *)
(* list into the body, which is then no JSON.                              *)
(***************************************************************************)
BlocksAreSent == result.kind = "raised" => result.error # "TypeError"
=============================================================================
