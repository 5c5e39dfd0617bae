---------------------------- MODULE AdapterFormats ----------------------------
(***************************************************************************)
(* adapters/*.py: how the eight provider adapters write requests and read  *)
(* answers.  The code repeats itself in every adapter; what they share is  *)
(* stated once here, and an operator per adapter says what is its own.     *)
(*                                                                         *)
(* Identifiers, the token counts that all read alike and raw payloads are  *)
(* left out.  Of a content matters whether it is a string or a list of     *)
(* content blocks, and whether one of these is an image; of an answer's    *)
(* text how it reads as JSON.  An empty list of tool calls and none at all *)
(* are the same.                                                           *)
(***************************************************************************)
EXTENDS JsonExtract

None == "None"

Chats == {"deepseek", "doubao", "glm", "hunyuan", "kimi", "minimax", "qwen", "stepfun"}

Raised(error) == [kind |-> "raised", error |-> error]

-----------------------------------------------------------------------------
(* Requests.                                                               *)

ChatMessages ==
    [role : {"system", "user", "assistant", "tool", "developer", "function"},
     content : [form : {"none", "text", "blocks"}, image : BOOLEAN],
     calls : BOOLEAN, call_id : BOOLEAN]

ChatRequests ==
    [model : STRING, messages : Seq(ChatMessages), options : SUBSET STRING,
     tools : BOOLEAN, tool_choice : STRING, schema : BOOLEAN]

\* The members of ToolCallMode and their values.  A tool_choice is None, such a
\* member, or a plain string: chat() assigns what it is given.
ToolCallMode == [NONE |-> "none", AUTO |-> "auto", REQUIRED |-> "required"]

\* `request.tool_choice.value` is evaluated, of a plain string.
PlainToolChoice(request) ==
    request.tools /\ request.tool_choice \notin {None} \cup DOMAIN ToolCallMode

\* A list of blocks is sent as the "objects" it holds, or as the "dicts" that
\* model_dump() makes of them.
FormattedContent(content, blocks) == [content EXCEPT !.form = IF @ = "blocks" THEN blocks ELSE @]

FormattedMessages(messages, blocks) ==
    [i \in DOMAIN messages |->
       LET msg == messages[i] IN
       [role |-> msg.role, content |-> FormattedContent(msg.content, blocks),
        calls |-> msg.calls /\ msg.role = "assistant",
        call_id |-> msg.call_id /\ msg.role = "tool"]]

\* Generation parameters, stop and user are sent when given, a zero too.
Formatted(request, blocks, thinking) ==
    IF PlainToolChoice(request) THEN Raised("AttributeError")
    ELSE [kind |-> "chat body",
          model |-> request.model, messages |-> FormattedMessages(request.messages, blocks),
          options |-> request.options, tools |-> request.tools,
          tool_choice |-> IF request.tools /\ request.tool_choice # None
                          THEN ToolCallMode[request.tool_choice] ELSE None,
          thinking |-> thinking]

DeepSeekRequest(request) == Formatted(request, "objects", FALSE)
DoubaoRequest(request) == Formatted(request, "dicts", FALSE)
GlmRequest(request) == Formatted(request, "objects", request.model = "glm-4.7")
HunyuanRequest(request) == Formatted(request, "dicts", FALSE)
KimiRequest(request) == Formatted(request, "objects", FALSE)
MiniMaxRequest(request) == Formatted(request, "dicts", FALSE)
QwenRequest(request) == Formatted(request, "dicts", FALSE)
StepFunRequest(request) == Formatted(request, "dicts", FALSE)

FormatRequest(a, request) ==
    CASE a = "deepseek" -> DeepSeekRequest(request)
      [] a = "doubao" -> DoubaoRequest(request)
      [] a = "glm" -> GlmRequest(request)
      [] a = "hunyuan" -> HunyuanRequest(request)
      [] a = "kimi" -> KimiRequest(request)
      [] a = "minimax" -> MiniMaxRequest(request)
      [] a = "qwen" -> QwenRequest(request)
      [] a = "stepfun" -> StepFunRequest(request)

\* json.dumps knows strings and dictionaries, not pydantic's objects.
Encodable(body) == \A i \in DOMAIN body.messages : body.messages[i].content.form # "objects"

-----------------------------------------------------------------------------
(* What an adapter says it can do.  All chat, stream and take tools.       *)

DeepSeekCapabilities == {"embeddings", "reasoning"}
DoubaoCapabilities == {"vision", "embeddings"}
GlmCapabilities == {"embeddings", "reasoning", "rerank"}
HunyuanCapabilities == {"vision", "embeddings"}
KimiCapabilities_Vision == {"vision"}
KimiCapabilities == {}
MiniMaxCapabilities == {"vision", "embeddings"}
QwenCapabilities == {"vision", "embeddings", "rerank"}
StepFunCapabilities == {"vision", "embeddings"}

CapabilitiesOf(a) ==
    {"chat", "streaming", "tools"} \cup
    CASE a = "deepseek" -> DeepSeekCapabilities
      [] a = "doubao" -> DoubaoCapabilities
      [] a = "glm" -> GlmCapabilities
      [] a = "hunyuan" -> HunyuanCapabilities
      [] a = "kimi" -> KimiCapabilities
      [] a = "minimax" -> MiniMaxCapabilities
      [] a = "qwen" -> QwenCapabilities
      [] a = "stepfun" -> StepFunCapabilities

-----------------------------------------------------------------------------
(* Answers.                                                                *)

Reasons == {"stop", "length", "tool_calls", "function_call", "content_filter"}

MapFinishReason_Raw(raw) == raw

MapFinishReason_NoCalls(raw) == IF raw \in {"stop", "length", "null"} THEN raw ELSE "other"

\* _map_finish_reason: a missing one is as unknown as any other.
MapFinishReason(raw) == IF raw \in Reasons \cup {"null"} THEN raw ELSE "other"

\* What a model writes: an object, and what comes before and after it.
WrittenTexts == [before : Seq(Chars), object : Seq(Chars), after : Seq(Chars)]

Text(content) == content.before \o content.object \o content.after

Functions(calls) == SelectSeq(calls, LAMBDA call : call.type = "function")

\* _parse_tool_calls: a call must have an id and a name.
Unnamed(calls) == \E i \in DOMAIN calls : ~calls[i].named

\* parse_structured_output: the payload, if the schema accepts it.
Structured(answer, schema) ==
    LET payload == ExtractJsonObject(Text(answer.content)) IN
    IF ~schema \/ Text(answer.content) = <<>> THEN <<>>
    ELSE IF answer.conforms THEN payload ELSE NoJson

\* The response that both parsers make of an answer, with what each of them
\* reads in a way of its own; of the usage, the names under which it found it.
Read(answer, schema, own) ==
    LET calls == Functions(answer.calls)
        parsed == Structured(answer, schema)
    IN  IF Unnamed(calls) THEN Raised("ValidationError")
        ELSE IF parsed = NoJson THEN Raised("ResponseParsingError")
        ELSE [kind |-> "response", content |-> Text(answer.content), calls |-> calls,
              parsed |-> parsed, model |-> own.model, finish |-> own.finish,
              usage |-> own.usage, reasoning_tokens |-> own.reasoning_tokens]

PromptNames == {"prompt_tokens"}
AllNames == {"prompt_tokens", "input_tokens"}

\* parse_response, over the names under which token counts are accepted.
Parsed(answer, request, counted) ==
    IF ~answer.choices THEN Raised("ResponseParsingError")
    ELSE Read(answer, request.schema,
              [model |-> IF answer.model # None THEN answer.model ELSE request.model,
               finish |-> MapFinishReason(answer.finish),
               usage |-> {answer.usage} \cap counted,
               reasoning_tokens |-> answer.reasoning /\ answer.usage \in AllNames])

DeepSeekResponse(answer, request) == Parsed(answer, request, PromptNames)
DoubaoResponse(answer, request) == Parsed(answer, request, AllNames)
GlmResponse(answer, request) == Parsed(answer, request, AllNames)
HunyuanResponse(answer, request) == Parsed(answer, request, AllNames)
KimiResponse(answer, request) == Parsed(answer, request, AllNames)
MiniMaxResponse(answer, request) == Parsed(answer, request, AllNames)
QwenResponse(answer, request) == Parsed(answer, request, AllNames)
StepFunResponse(answer, request) == Parsed(answer, request, AllNames)

ParseResponse(a, answer, request) ==
    CASE a = "deepseek" -> DeepSeekResponse(answer, request)
      [] a = "doubao" -> DoubaoResponse(answer, request)
      [] a = "glm" -> GlmResponse(answer, request)
      [] a = "hunyuan" -> HunyuanResponse(answer, request)
      [] a = "kimi" -> KimiResponse(answer, request)
      [] a = "minimax" -> MiniMaxResponse(answer, request)
      [] a = "qwen" -> QwenResponse(answer, request)
      [] a = "stepfun" -> StepFunResponse(answer, request)

\* _parse_chat_response of the client: what it reads in place of the adapter.
\* The model is the one it resolved, no matter which the answer names.  An
\* explicit null for the message or the usage is no dictionary.
ParseChatResponse(answer, request) ==
    IF ~answer.choices THEN Raised("UAIError")
    ELSE IF \/ answer.message = "null"
            \/ answer.usage = "null" /\ ~Unnamed(Functions(answer.calls))
      THEN Raised("AttributeError")
    ELSE Read(answer, request.schema,
              [model |-> request.model,
               finish |-> IF answer.finish \in Reasons THEN answer.finish ELSE "stop",
               usage |-> {answer.usage} \cap {"prompt_tokens", "in the choice"},
               reasoning_tokens |-> FALSE])

-----------------------------------------------------------------------------
(* Errors: translate_error.                                                *)

Translated(status, unavailable) ==
    CASE status = 401 -> Raised("UAIAuthenticationError")
      [] status = 429 -> Raised("UAIRateLimitError")
      [] status >= 500 -> Raised(unavailable)
      [] OTHER -> Raised("UAIError")

DeepSeekError(status) == Translated(status, "UAIError")
DoubaoError(status) == Translated(status, "UAINetworkError")
GlmError(status) == Translated(status, "UAINetworkError")
HunyuanError(status) == Translated(status, "UAINetworkError")
KimiError(status) == Translated(status, "UAINetworkError")
MiniMaxError(status) == Translated(status, "UAINetworkError")
QwenError(status) == Translated(status, "UAINetworkError")
StepFunError(status) == Translated(status, "UAINetworkError")

TranslateError(a, status) ==
    CASE a = "deepseek" -> DeepSeekError(status)
      [] a = "doubao" -> DoubaoError(status)
      [] a = "glm" -> GlmError(status)
      [] a = "hunyuan" -> HunyuanError(status)
      [] a = "kimi" -> KimiError(status)
      [] a = "minimax" -> MiniMaxError(status)
      [] a = "qwen" -> QwenError(status)
      [] a = "stepfun" -> StepFunError(status)

-----------------------------------------------------------------------------
(* Streams: handle_streaming, as what one line does to a reader, which is  *)
(* the locals of the generator, the chunks it has yielded and how it ended.*)
(* A tool call begins with its type, id and name and goes on without them, *)
(* or with its type and an empty id ("unnamed").                           *)

StreamEvents ==
    [kind : {"event"}, content : BOOLEAN, reasoning : BOOLEAN, finish : STRING,
     call : {"none", "begins", "goes on", "unnamed"}]

NewReader == [ttft_recorded |-> FALSE, reasoning |-> <<>>, out |-> <<>>, ended |-> "no"]

Yields(reader, chunk) == [reader EXCEPT !.out = Append(@, chunk)]

\* Whatever is raised while reading becomes an UAINetworkError.
Fails(reader) == [reader EXCEPT !.ended = "failed"]

FinalChunk ==
    [content |-> FALSE, finish |-> None, is_final |-> TRUE, ttft |-> FALSE, call |-> FALSE]

TtftChunk == [FinalChunk EXCEPT !.is_final = FALSE, !.ttft = TRUE]

OwnEvent_GoesOn(reader, e) ==
    LET chunk == [content |-> e.content, is_final |-> e.finish # None,
                  finish |-> IF e.finish = None THEN None ELSE MapFinishReason(e.finish),
                  ttft |-> e.content /\ ~reader.ttft_recorded, call |-> e.call = "begins"]
    IN  IF e.call = "unnamed" THEN Fails(reader)
        ELSE [Yields(reader, chunk) EXCEPT !.ttft_recorded = @ \/ e.content]

\* One chunk per event, the last for the event that has a finish_reason.
OwnEvent(reader, e) ==
    LET chunk == [content |-> e.content, is_final |-> e.finish # None,
                  finish |-> IF e.finish = None THEN None ELSE MapFinishReason(e.finish),
                  ttft |-> e.content /\ ~reader.ttft_recorded, call |-> e.call = "begins"]
    IN  IF e.call = "unnamed" THEN Fails(reader)
        ELSE [Yields(reader, chunk) EXCEPT
                !.ttft_recorded = @ \/ e.content,
                !.ended = IF e.finish = None THEN "no" ELSE "returned"]

\* The loop of every adapter of the SDK.  After [DONE] it reads on.
OwnLine(reader, line) ==
    CASE line.kind = "nothing" -> reader
      [] line.kind = "done" -> Yields(reader, FinalChunk)
      [] line.kind = "event" -> OwnEvent(reader, line)

\* What is left of an event once its chunk with the time is out.
BaseEvent(reader, e) ==
    LET chunk == [content |-> e.content, finish |-> e.finish, is_final |-> e.finish # None,
                  ttft |-> FALSE, call |-> e.call = "begins"]
    IN  IF e.call \in {"goes on", "unnamed"} \/ e.finish \notin Reasons \cup {"null", None}
          THEN Fails(reader)
        ELSE [Yields(reader, chunk) EXCEPT !.ended = IF e.finish = None THEN "no" ELSE "returned"]

\* The loop of the base class: the time has a chunk of its own, [DONE] ends it.
BaseLine(reader, line) ==
    CASE line.kind = "nothing" -> reader
      [] line.kind = "done" -> [Yields(reader, FinalChunk) EXCEPT !.ended = "returned"]
      [] line.kind = "event" /\ line.content /\ ~reader.ttft_recorded ->
           BaseEvent([Yields(reader, TtftChunk) EXCEPT !.ttft_recorded = TRUE], line)
      [] OTHER -> BaseEvent(reader, line)

\* deepseek also collects what the model thought before its answer.
Thinks(line) == line.kind = "event" /\ line.reasoning

DeepSeekLine(reader, line) ==
    OwnLine(IF Thinks(line) THEN [reader EXCEPT !.reasoning = Append(@, "mine")] ELSE reader, line)
DoubaoLine(reader, line) == OwnLine(reader, line)
GlmLine(reader, line) == OwnLine(reader, line)
HunyuanLine(reader, line) == OwnLine(reader, line)
KimiLine(reader, line) == OwnLine(reader, line)
MiniMaxLine(reader, line) == OwnLine(reader, line)
QwenLine(reader, line) == OwnLine(reader, line)
StepFunLine(reader, line) == OwnLine(reader, line)

HandleStreaming(a, reader, line) ==
    CASE a = "deepseek" -> DeepSeekLine(reader, line)
      [] a = "doubao" -> DoubaoLine(reader, line)
      [] a = "glm" -> GlmLine(reader, line)
      [] a = "hunyuan" -> HunyuanLine(reader, line)
      [] a = "kimi" -> KimiLine(reader, line)
      [] a = "minimax" -> MiniMaxLine(reader, line)
      [] a = "qwen" -> QwenLine(reader, line)
      [] a = "stepfun" -> StepFunLine(reader, line)
      [] a = "custom" -> BaseLine(reader, line)

-----------------------------------------------------------------------------
(* Embeddings and reranking.                                               *)

FormatEmbedRequest == [kind |-> "embed body"]

\* parse_embed_response of the base class: the provider's order and indexes.
ParseEmbedResponse(data) ==
    [kind |-> "vectors", indexes |-> [i \in DOMAIN data |-> data[i].index]]

\* format_rerank_request of qwen and glm; the base class raises.
FormatRerankRequest(a) ==
    IF a \in {"qwen", "glm"} THEN [kind |-> "rerank body"] ELSE Raised("FeatureNotSupportedError")

NoScore == -1

\* relevance_score, else score, else 0.0: the first that is there.
ScoreOf(item) ==
    IF item.relevance_score # NoScore THEN item.relevance_score
    ELSE IF item.score # NoScore THEN item.score ELSE 0

\* The results in descending order of their scores, equal ones as they came.
ParseRerankResponse(items) ==
    LET better(i, j) == \/ ScoreOf(items[i]) > ScoreOf(items[j])
                        \/ ScoreOf(items[i]) = ScoreOf(items[j]) /\ i < j
        order == SetToSortSeq(DOMAIN items, better)
    IN  [kind |-> "ranking",
         results |-> [k \in DOMAIN items |-> [index |-> items[order[k]].index,
                                              score |-> ScoreOf(items[order[k]])]]]
=============================================================================
