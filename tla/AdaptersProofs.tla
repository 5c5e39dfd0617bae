--------------------------- MODULE AdaptersProofs ---------------------------
(***************************************************************************)
(* What is proved of the adapters for any events, streams of any length    *)
(* and another stream at any point of them.                                *)
(***************************************************************************)
EXTENDS Adapters, SequenceTheorems, FiniteSetTheorems, WellFoundedInduction, TLAPS

Mine == [i \in 1..told.reasoning |-> "mine"]

\* What a generator collected is what its provider has told it, and the one that
\* wrote self.reasoning last wrote all that it had.
IInv ==
    /\ told.reasoning \in Nat
    /\ adapter = "deepseek" => "reasoning" \in DOMAIN reader
    /\ pc = "idle" => told.reasoning = 0 /\ reader.reasoning = <<>>
    /\ adapter = "deepseek" /\ op = "stream" =>
         /\ reader.reasoning = Mine
         /\ reasoning = Mine \/ reasoning = other

-----------------------------------------------------------------------------
LEMMA AppendMine ==
    ASSUME NEW n \in Nat
    PROVE  Append([i \in 1..n |-> "mine"], "mine") = [i \in 1..n + 1 |-> "mine"]
<1> DEFINE s == [i \in 1..n |-> "mine"]
<1>1. s \in Seq({"mine"}) /\ Len(s) = n
  OBVIOUS
<1> HIDE DEF s
<1> DEFINE longer == Append(s, "mine")
<1>2. longer \in Seq({"mine"}) /\ Len(longer) = n + 1
  BY <1>1, AppendProperties
<1> HIDE DEF longer
<1>3. longer \in [1..n + 1 -> {"mine"}]
  BY <1>2, LenProperties
<1>4. longer = [i \in 1..n + 1 |-> "mine"]
  BY <1>3
<1> QED
  BY <1>4 DEF s, longer

LEMMA EmptyMine == [i \in 1..0 |-> "mine"] = <<>>
OBVIOUS

\* A line of the stream touches what was collected only if it holds reasoning.
LEMMA LineReasoning ==
    ASSUME adapter = "deepseek", NEW line,
           line.kind \in {"nothing", "done", "event"},
           "reasoning" \in DOMAIN reader
    PROVE  LET r == HandleStreaming(adapter, reader, line)
           IN  /\ "reasoning" \in DOMAIN r
               /\ r.reasoning = IF Thinks(line) THEN Append(reader.reasoning, "mine")
                                                ELSE reader.reasoning
BY DEF HandleStreaming, DeepSeekLine, OwnLine, OwnEvent, Yields, Fails

-----------------------------------------------------------------------------
LEMMA IInvInit == Init => IInv
BY DEF Init, IInv, NothingTold, NewReader, None

\* A line of this stream, and what it tells.
LEMMA ReadStep ==
    ASSUME IInv, NEW line, ReadLine(line),
           line.kind \in {"nothing", "done", "event"},
           told'.reasoning = told.reasoning + (IF Thinks(line) THEN 1 ELSE 0)
    PROVE  IInv'
<1>1. told'.reasoning \in Nat
  BY DEF IInv
<1>2. pc' # "idle"
  BY DEF ReadLine
<1>3. adapter' = adapter /\ op' = op /\ other' = other
  BY DEF ReadLine
<1>4. ASSUME adapter = "deepseek" PROVE "reasoning" \in DOMAIN reader'
  BY <1>4, LineReasoning DEF ReadLine, IInv
<1>5. ASSUME adapter = "deepseek", op = "stream"
      PROVE  /\ reader'.reasoning = Mine'
             /\ reasoning' = Mine' \/ reasoning' = other'
  <2>1. reader'.reasoning = IF Thinks(line) THEN Append(reader.reasoning, "mine")
                                            ELSE reader.reasoning
    BY <1>5, LineReasoning DEF ReadLine, IInv
  <2>2. reader.reasoning = Mine /\ (reasoning = Mine \/ reasoning = other)
    BY <1>5 DEF IInv
  <2>3. reasoning' = IF Thinks(line) THEN reader'.reasoning ELSE reasoning
    BY <1>5 DEF ReadLine, SelfReasoning
  <2>4. CASE Thinks(line)
    <3>1. Mine' = Append(Mine, "mine")
      BY <2>4, AppendMine DEF Mine, IInv
    <3> QED
      BY <2>1, <2>2, <2>3, <2>4, <3>1
  <2>5. CASE ~Thinks(line)
    <3>1. told'.reasoning = told.reasoning
      BY <2>5 DEF IInv
    <3>2. Mine' = Mine
      BY <3>1 DEF Mine
    <3> QED
      BY <1>3, <2>1, <2>2, <2>3, <2>5, <3>2
  <2> QED
    BY <2>4, <2>5
<1> QED
  BY <1>1, <1>2, <1>3, <1>4, <1>5 DEF IInv

LEMMA IInvStep == IInv /\ [Next]_vars => IInv'
<1> SUFFICES ASSUME IInv, [Next]_vars PROVE IInv'
  OBVIOUS
\* Calls other than streams, and what follows them.
<1>1. CASE \/ \E r \in Requests, more \in SUBSET {"vision"} :
                Ask("chat", r, {"chat", "tools"} \cup more)
           \/ \E what \in {"embeddings", "rerank"} : Ask(what, Nothing, {what})
  BY <1>1 DEF Ask, IInv, Mine, stream
<1>2. CASE Format
  BY <1>2 DEF Format, IInv, Mine, stream
<1>3. CASE \E a, r : Return(a, r)
  BY <1>3 DEF Return, IInv, Mine, stream
<1>4. CASE Again
  BY <1>4 DEF Again, IInv, NothingTold, NewReader, None
\* Streams.
<1>5. CASE Begin
  BY <1>5, EmptyMine DEF Begin, IInv, Mine, stream
<1>6. CASE Skip
  BY <1>6, ReadStep DEF Skip, Thinks, IInv
<1>7. CASE Done
  BY <1>7, ReadStep DEF Done, Thinks, IInv
<1>8. CASE \E e \in Events : Event(e)
  <2>1. PICK e \in Events : Event(e)
    BY <1>8
  <2>2. e.kind = "event"
    BY AdaptersAssumption DEF StreamEvents
  <2> QED
    BY <2>1, <2>2, ReadStep DEF Event, Thinks
<1>9. CASE End
  BY <1>9 DEF End, Fails, IInv, Mine
<1>10. CASE OtherBegins
  BY <1>10 DEF OtherBegins, IInv, Mine, stream, call
<1>11. CASE OtherThinks
  BY <1>11 DEF OtherThinks, IInv, Mine, stream, call
<1>12. CASE UNCHANGED vars
  BY <1>12 DEF vars, stream, call, IInv, Mine
<1> QED
  BY <1>1, <1>2, <1>3, <1>4, <1>5, <1>6, <1>7, <1>8, <1>9, <1>10, <1>11, <1>12
  DEF Next, Answered, Refused, Embedded, Ranked

\* Two streams that share a DeepSeek adapter never mix their reasoning in
\* self.reasoning: it is always all that one of them has collected.
THEOREM ReasoningKept == Spec => []ReasoningUnmixed
<1>1. IInv => ReasoningUnmixed
  BY DEF IInv, ReasoningUnmixed, Mine
<1> QED
  BY <1>1, IInvInit, IInvStep, PTL DEF Spec

-----------------------------------------------------------------------------
(* Calls.                                                                  *)

Operations == {"chat", "embeddings", "rerank"}

\* Where a call is, what it has and what it has not yet.
CallInv ==
    /\ adapter \in AdapterNames
    /\ pc \in {"idle", "admitted", "sent", "streaming", "over"}
    /\ pc = "idle" => op = None
    /\ pc = "streaming" => op = "stream"
    /\ pc \in {"admitted", "sent"} => op \in Operations /\ adapter \in Chats
    /\ pc = "over" => op \in Operations \cup {"stream"}
    /\ op = "chat" => request \in Requests
    /\ pc \in {"idle", "admitted", "streaming"} \/ op = "stream" =>
         body = Nothing /\ answer = Nothing /\ result = Nothing
    /\ pc = "sent" => answer = Nothing /\ result = Nothing
    /\ pc = "admitted" => Supported(op, request, advertised)
    /\ body.kind \in {"nothing", "chat body", "embed body", "rerank body"}
    /\ body.kind = "chat body" => op = "chat"

\* What came back was read by the adapter's own parser.
ReadByAdapter ==
    answer.kind = "answer" =>
        op = "chat" /\ adapter \in Chats /\ result = ParseResponse(adapter, answer, request)

Returned ==
    /\ result.kind \in ResultKinds
    /\ result.kind = "response" => result.finish \in Reasons \cup {"null", "other"}
    /\ pc = "over" /\ op # "stream" => result # Nothing

AnswerInv == CallInv /\ ReadByAdapter /\ Returned /\ AdmittedIsSendable

\* A response says nothing else than the parser, whichever adapter's it is.
LEMMA AnyParser ==
    ASSUME NEW a \in Chats, NEW reply, NEW asked
    PROVE  \E counted \in {PromptNames, AllNames} :
             ParseResponse(a, reply, asked) = Parsed(reply, asked, counted)
BY DEF Chats, ParseResponse, DeepSeekResponse, DoubaoResponse, GlmResponse, HunyuanResponse,
       KimiResponse, MiniMaxResponse, QwenResponse, StepFunResponse

LEMMA ReadResult ==
    ASSUME NEW reply, NEW schema, NEW own
    PROVE  LET r == Read(reply, schema, own)
           IN  /\ r.kind \in {"raised", "response"}
               /\ r.kind = "raised" => r.error \in {"ResponseParsingError", "ValidationError"}
               /\ r.kind = "response" => r.finish = own.finish
BY DEF Read, Raised

LEMMA ParseResult ==
    ASSUME NEW a \in Chats, NEW reply, NEW asked
    PROVE  LET r == ParseResponse(a, reply, asked)
           IN  /\ r.kind \in {"raised", "response"}
               /\ r.kind = "raised" => r.error \in {"ResponseParsingError", "ValidationError"}
               /\ r.kind = "response" => r.finish \in Reasons \cup {"null", "other"}
<1>1. PICK counted \in {PromptNames, AllNames} :
        ParseResponse(a, reply, asked) = Parsed(reply, asked, counted)
  BY AnyParser
<1>2. MapFinishReason(reply.finish) \in Reasons \cup {"null", "other"}
  BY DEF MapFinishReason
<1>3. CASE ~reply.choices
  BY <1>1, <1>3 DEF Parsed, Raised
<1>4. CASE reply.choices
  <2>1. PICK own : /\ ParseResponse(a, reply, asked) = Read(reply, asked.schema, own)
                   /\ own.finish = MapFinishReason(reply.finish)
    BY <1>1, <1>4 DEF Parsed
  <2> QED
    BY <1>2, <2>1, ReadResult
<1> QED
  BY <1>3, <1>4

\* Two parsers that read the finish reason and the usage alike.
LEMMA ReadAlike ==
    ASSUME NEW reply, NEW schema, NEW mine, NEW theirs,
           mine.finish = theirs.finish, mine.usage = theirs.usage
    PROVE  /\ Core(Read(reply, schema, mine)) = Core(Read(reply, schema, theirs))
           /\ mine.model = theirs.model /\ mine.reasoning_tokens = theirs.reasoning_tokens =>
                Read(reply, schema, mine) = Read(reply, schema, theirs)
<1> PICK calls : calls = Functions(reply.calls)
  OBVIOUS
<1> PICK payload : payload = Structured(reply, schema)
  OBVIOUS
<1> PICK text : text = Text(reply.content)
  OBVIOUS
<1> PICK m, n : m = Read(reply, schema, mine) /\ n = Read(reply, schema, theirs)
  OBVIOUS
<1>1. CASE Unnamed(calls) \/ payload = NoJson
  <2>1. m = n
    BY <1>1 DEF Read
  <2>2. Core(m) = Core(n)
    BY <2>1
  <2> QED
    BY <2>1, <2>2
<1>2. CASE ~(Unnamed(calls) \/ payload = NoJson)
  <2>1. /\ m = [kind |-> "response", content |-> text, calls |-> calls, parsed |-> payload,
                model |-> mine.model, finish |-> mine.finish, usage |-> mine.usage,
                reasoning_tokens |-> mine.reasoning_tokens]
        /\ n = [kind |-> "response", content |-> text, calls |-> calls, parsed |-> payload,
                model |-> theirs.model, finish |-> theirs.finish, usage |-> theirs.usage,
                reasoning_tokens |-> theirs.reasoning_tokens]
    BY <1>2 DEF Read
  <2>2. Core(m) = Core(n)
    <3>1. DOMAIN m = DOMAIN n
      BY <2>1
    <3>2. ASSUME NEW field \in DOMAIN m \ {"model", "reasoning_tokens"} PROVE m[field] = n[field]
      BY <2>1
    <3> QED
      BY <3>1, <3>2 DEF Core
  <2>3. mine.model = theirs.model /\ mine.reasoning_tokens = theirs.reasoning_tokens => m = n
    BY <2>1
  <2> QED
    BY <2>2, <2>3
<1> QED
  BY <1>1, <1>2

\* The two parsers, on what conforms.
LEMMA SameParse ==
    ASSUME NEW a \in Chats, NEW reply, NEW asked, Conforms(reply)
    PROVE  /\ Core(ParseResponse(a, reply, asked)) = Core(ParseChatResponse(reply, asked))
           /\ reply.model \in {None, asked.model} /\ ~reply.reasoning =>
                ParseResponse(a, reply, asked) = ParseChatResponse(reply, asked)
<1>1. PICK counted \in {PromptNames, AllNames} :
        ParseResponse(a, reply, asked) = Parsed(reply, asked, counted)
  BY AnyParser
<1>2. /\ reply.choices /\ reply.message # "null" /\ reply.finish \in Reasons
      /\ reply.usage \in {"prompt_tokens", "absent"}
  BY DEF Conforms
<1>3. MapFinishReason(reply.finish) = reply.finish
  BY <1>2 DEF MapFinishReason
<1> DEFINE names == {"prompt_tokens", "in the choice"}
           mine == [model |-> IF reply.model # None THEN reply.model ELSE asked.model,
                    finish |-> MapFinishReason(reply.finish), usage |-> {reply.usage} \cap counted,
                    reasoning_tokens |-> reply.reasoning /\ reply.usage \in AllNames]
           theirs == [model |-> asked.model,
                      finish |-> IF reply.finish \in Reasons THEN reply.finish ELSE "stop",
                      usage |-> {reply.usage} \cap names, reasoning_tokens |-> FALSE]
<1>4. /\ Parsed(reply, asked, counted) = Read(reply, asked.schema, mine)
      /\ ParseChatResponse(reply, asked) = Read(reply, asked.schema, theirs)
  BY <1>2 DEF Parsed, ParseChatResponse
<1>5. mine.finish = theirs.finish
  BY <1>2, <1>3
<1>6. mine.usage = theirs.usage
  <2>1. reply.usage \in counted <=> reply.usage \in names
    BY <1>2 DEF PromptNames, AllNames
  <2>2. {reply.usage} \cap counted = {reply.usage} \cap names
    BY <2>1
  <2> QED
    BY <2>2
<1>7. reply.model \in {None, asked.model} => mine.model = theirs.model
  OBVIOUS
<1>8. ~reply.reasoning => mine.reasoning_tokens = theirs.reasoning_tokens
  OBVIOUS
<1> HIDE DEF mine, theirs
<1> QED
  BY <1>1, <1>4, <1>5, <1>6, <1>7, <1>8, ReadAlike

LEMMA ErrorResult ==
    ASSUME NEW a \in Chats, NEW status PROVE TranslateError(a, status).kind = "raised"
<1>1. \A unavailable : Translated(status, unavailable).kind = "raised"
  BY DEF Translated, Raised
<1> QED
  BY <1>1 DEF Chats, TranslateError, DeepSeekError, DoubaoError, GlmError, HunyuanError, KimiError,
              MiniMaxError, QwenError, StepFunError

-----------------------------------------------------------------------------
(* Bodies.                                                                 *)

\* The instruction comes before the conversation and is written like it.
LEMMA OutboundMessages ==
    ASSUME NEW r \in ChatRequests
    PROVE  Outbound(r) \in ChatRequests
<1>1. Instruction \in ChatMessages
  BY DEF Instruction, ChatMessages
<1>2. <<Instruction>> \o r.messages \in Seq(ChatMessages)
  <2>1. <<Instruction>> \in Seq(ChatMessages) /\ r.messages \in Seq(ChatMessages)
    BY <1>1 DEF ChatRequests
  <2> QED
    BY <2>1, ConcatProperties
<1> QED
  BY <1>2 DEF Outbound, ChatRequests

\* The instruction is a text.
LEMMA OutboundBlocks ==
    ASSUME NEW r \in ChatRequests, InBlocks(Outbound(r).messages)
    PROVE  InBlocks(r.messages)
<1>1. CASE ~r.schema
  BY <1>1 DEF Outbound
<1>2. CASE r.schema
  <2>1. r.messages \in Seq(ChatMessages) /\ Outbound(r).messages = <<Instruction>> \o r.messages
    BY <1>2 DEF Outbound, ChatRequests
  <2>2. PICK i \in DOMAIN Outbound(r).messages : Outbound(r).messages[i].content.form = "blocks"
    BY DEF InBlocks
  <2>3. i \in 1..(Len(r.messages) + 1)
    BY <2>1, <2>2
  <2>4. i # 1
    BY <2>1, <2>2, <2>3 DEF Instruction
  <2>5. i - 1 \in DOMAIN r.messages /\ Outbound(r).messages[i] = r.messages[i - 1]
    BY <2>1, <2>3, <2>4
  <2> QED
    BY <2>2, <2>5 DEF InBlocks
<1> QED
  BY <1>1, <1>2

LEMMA FormattedBody ==
    ASSUME NEW r \in ChatRequests, ~PlainToolChoice(r), NEW blocks \in {"objects", "dicts"}, NEW thinking
    PROVE  LET chat == Formatted(r, blocks, thinking)
           IN  /\ chat.kind = "chat body"
               /\ SaidBy(chat) = SaidBy(r)
               /\ chat.options = r.options
               /\ chat.tool_choice # None => chat.tools
               /\ blocks = "dicts" \/ ~InBlocks(r.messages) => Encodable(chat)
<1> DEFINE chat == Formatted(r, blocks, thinking)
<1>1. /\ chat.messages = FormattedMessages(r.messages, blocks) /\ chat.options = r.options
      /\ chat.kind = "chat body" /\ (chat.tool_choice # None => chat.tools)
  BY DEF Formatted, ChatRequests
<1>2. r.messages \in Seq(ChatMessages)
  BY DEF ChatRequests
<1>3. DOMAIN chat.messages = DOMAIN r.messages
  BY <1>1 DEF FormattedMessages
<1>4. ASSUME NEW i \in DOMAIN r.messages
      PROVE  LET was == r.messages[i]  msg == chat.messages[i]
             IN  /\ msg.role = was.role
                 /\ msg.content.image = was.content.image
                 /\ msg.calls <=> was.calls /\ was.role = "assistant"
                 /\ msg.call_id <=> was.call_id /\ was.role = "tool"
                 /\ blocks = "dicts" \/ was.content.form # "blocks" => msg.content.form # "objects"
  <2> DEFINE was == r.messages[i]
             msg == chat.messages[i]
  <2>1. was \in ChatMessages
    BY <1>2
  <2>2. msg = [role |-> was.role, content |-> FormattedContent(was.content, blocks),
               calls |-> was.calls /\ was.role = "assistant",
               call_id |-> was.call_id /\ was.role = "tool"]
    <3>1. msg = FormattedMessages(r.messages, blocks)[i]
      BY <1>1
    <3> QED
      BY <3>1 DEF FormattedMessages
  <2> HIDE DEF was, msg
  <2>3. /\ FormattedContent(was.content, blocks).image = was.content.image
        /\ blocks = "dicts" \/ was.content.form # "blocks" =>
             FormattedContent(was.content, blocks).form # "objects"
    BY <2>1 DEF FormattedContent, ChatMessages
  <2>4. /\ msg.role = was.role
        /\ msg.content.image = was.content.image
        /\ msg.calls <=> was.calls /\ was.role = "assistant"
        /\ msg.call_id <=> was.call_id /\ was.role = "tool"
        /\ blocks = "dicts" \/ was.content.form # "blocks" => msg.content.form # "objects"
    BY <2>2, <2>3
  <2> QED
    BY <2>4 DEF was, msg
<1> HIDE DEF chat
<1>5. SaidBy(chat) = SaidBy(r)
  <2>1. \A i \in DOMAIN r.messages :
          LET was == r.messages[i]  msg == chat.messages[i]
          IN  <<msg.role, msg.content.image,
                msg.role = "assistant" /\ msg.calls, msg.role = "tool" /\ msg.call_id>>
            = <<was.role, was.content.image,
                was.role = "assistant" /\ was.calls, was.role = "tool" /\ was.call_id>>
    BY <1>4
  <2> QED
    BY <1>3, <2>1 DEF SaidBy
<1>6. blocks = "dicts" \/ ~InBlocks(r.messages) => Encodable(chat)
  BY <1>3, <1>4 DEF Encodable, InBlocks
<1> QED
  BY <1>1, <1>5, <1>6 DEF chat

\* What an adapter writes; those that can see send blocks as dictionaries.
LEMMA RequestBody ==
    ASSUME NEW a \in Chats, NEW r \in ChatRequests, ~PlainToolChoice(r)
    PROVE  LET chat == FormatRequest(a, r)
           IN  /\ chat.kind = "chat body"
               /\ SaidBy(chat) = SaidBy(r)
               /\ chat.options = r.options
               /\ chat.tool_choice # None => chat.tools
               /\ "vision" \in CapabilitiesOf(a) \/ ~InBlocks(r.messages) => Encodable(chat)
<1>1. CASE a \in {"deepseek", "glm", "kimi"}
  <2>1. "vision" \notin CapabilitiesOf(a)
    BY <1>1 DEF CapabilitiesOf, DeepSeekCapabilities, GlmCapabilities, KimiCapabilities
  <2>2. PICK thinking : FormatRequest(a, r) = Formatted(r, "objects", thinking)
    BY <1>1 DEF FormatRequest, DeepSeekRequest, GlmRequest, KimiRequest
  <2>3. PICK chat : chat = Formatted(r, "objects", thinking)
    OBVIOUS
  <2>4. /\ chat.kind = "chat body"
        /\ SaidBy(chat) = SaidBy(r)
        /\ chat.options = r.options
        /\ chat.tool_choice # None => chat.tools
        /\ ~InBlocks(r.messages) => Encodable(chat)
    BY <2>3, FormattedBody
  <2> QED
    BY <2>1, <2>2, <2>3, <2>4
<1>2. CASE a \notin {"deepseek", "glm", "kimi"}
  <2>1. FormatRequest(a, r) = Formatted(r, "dicts", FALSE)
    BY <1>2 DEF Chats, FormatRequest, DoubaoRequest, HunyuanRequest, MiniMaxRequest, QwenRequest,
                StepFunRequest
  <2>2. PICK chat : chat = Formatted(r, "dicts", FALSE)
    OBVIOUS
  <2>3. /\ chat.kind = "chat body"
        /\ SaidBy(chat) = SaidBy(r)
        /\ chat.options = r.options
        /\ chat.tool_choice # None => chat.tools
        /\ Encodable(chat)
    BY <2>2, FormattedBody
  <2> QED
    BY <2>1, <2>2, <2>3
<1> QED
  BY <1>1, <1>2

\* A tool_choice that is a plain string stops every adapter.
LEMMA RequestRaises ==
    ASSUME NEW a \in Chats, NEW r, PlainToolChoice(r)
    PROVE  FormatRequest(a, r) = Raised("AttributeError")
BY DEF Chats, FormatRequest, Formatted, DeepSeekRequest, GlmRequest, KimiRequest, DoubaoRequest,
       HunyuanRequest, MiniMaxRequest, QwenRequest, StepFunRequest

-----------------------------------------------------------------------------
(* A call.                                                                 *)

\* Only what the adapter says it can do is admitted.
LEMMA Written ==
    ASSUME NEW what \in Operations, NEW r, what = "chat" => r \in ChatRequests,
           adapter \in Chats, NEW model, Supported(what, r, model)
    PROVE  LET b == BodyFor(what, r)
           IN  /\ b.kind \in {"raised", "chat body", "embed body", "rerank body"}
               /\ b.kind = "raised" =>
                    /\ what = "chat"
                    /\ \/ b.error = "AttributeError" /\ PlainToolChoice(r)
                       \/ b.error = "TypeError" /\ InBlocks(r.messages) /\ ~ContainImages(r.messages)
               /\ b.kind = "chat body" =>
                    /\ what = "chat"
                    /\ SaidBy(b) = SaidBy(Outbound(r))
                    /\ b.options = r.options
                    /\ b.tool_choice # None => b.tools
<1>1. Required(what, r) \subseteq CapabilitiesOf(adapter)
  BY DEF Supported
<1>2. CASE what = "rerank"
  <2>1. "rerank" \in CapabilitiesOf(adapter)
    BY <1>1, <1>2 DEF Required
  <2>2. adapter \in {"qwen", "glm"}
    BY <2>1 DEF Chats, CapabilitiesOf, DeepSeekCapabilities, DoubaoCapabilities, HunyuanCapabilities,
                KimiCapabilities, MiniMaxCapabilities, StepFunCapabilities
  <2> QED
    BY <1>2, <2>2 DEF BodyFor, FormatRerankRequest
<1>3. CASE what = "embeddings"
  BY <1>3 DEF BodyFor, FormatEmbedRequest
<1>4. CASE what = "chat"
  <2> PICK sent : sent = FormatRequest(adapter, Outbound(r))
    OBVIOUS
  <2>1. PICK b : b = BodyFor(what, r) /\ b = AsJson(sent)
    BY <1>4 DEF BodyFor
  <2>2. /\ Outbound(r) \in ChatRequests /\ Outbound(r).options = r.options
        /\ PlainToolChoice(Outbound(r)) <=> PlainToolChoice(r)
        /\ InBlocks(Outbound(r).messages) => InBlocks(r.messages)
    BY <1>4, OutboundMessages, OutboundBlocks DEF Outbound, ChatRequests, PlainToolChoice
  <2>3. ContainImages(r.messages) => "vision" \in CapabilitiesOf(adapter)
    BY <1>1, <1>4 DEF Required
  <2>4. CASE PlainToolChoice(r)
    <3>1. sent = Raised("AttributeError")
      BY <2>2, <2>4, RequestRaises
    <3>2. b.kind = "raised" /\ b.error = "AttributeError"
      BY <2>1, <3>1 DEF AsJson, Raised
    <3> QED
      BY <1>4, <2>1, <2>4, <3>2
  <2>5. CASE ~PlainToolChoice(r)
    <3>1. /\ sent.kind = "chat body"
          /\ SaidBy(sent) = SaidBy(Outbound(r))
          /\ sent.options = r.options
          /\ sent.tool_choice # None => sent.tools
          /\ "vision" \in CapabilitiesOf(adapter) \/ ~InBlocks(r.messages) => Encodable(sent)
      BY <2>2, <2>5, RequestBody
    <3>2. CASE Encodable(sent)
      <4>1. b = sent
        BY <2>1, <3>2 DEF AsJson
      <4> QED
        BY <1>4, <2>1, <3>1, <4>1
    <3>3. CASE ~Encodable(sent)
      <4>1. b = Raised("TypeError")
        BY <2>1, <3>1, <3>3 DEF AsJson
      <4>2. b.kind = "raised" /\ b.error = "TypeError"
        BY <4>1 DEF Raised
      <4> QED
        BY <1>4, <2>1, <2>3, <3>1, <3>3, <4>2
    <3> QED
      BY <3>2, <3>3
  <2> QED
    BY <2>4, <2>5
<1> QED
  BY <1>2, <1>3, <1>4 DEF Operations

LEMMA AnswerInvInit == Init => AnswerInv
BY DEF Init, AnswerInv, CallInv, ReadByAdapter, Returned, AdmittedIsSendable, ResultKinds, Nothing, None,
       Operations

LEMMA AskAnswer ==
    ASSUME AnswerInv, NEW what \in Operations, NEW r, what = "chat" => r \in Requests, NEW model,
           Ask(what, r, model)
    PROVE  AnswerInv'
<1> USE DEF AnswerInv
<1>1. /\ pc = "idle" /\ adapter # "custom" /\ adapter' = adapter
      /\ op' = what /\ request' = r /\ advertised' = model /\ body' = body /\ answer' = answer
  BY DEF Ask
<1>2. /\ body = Nothing /\ answer = Nothing /\ result = Nothing
      /\ adapter \in Chats
  BY <1>1, AdaptersAssumption DEF CallInv
<1>3. CASE Supported(what, r, model)
  <2>1. pc' = "admitted" /\ result' = result /\ Supported(op, request, advertised)'
    BY <1>1, <1>3 DEF Ask, Supported
  <2>2. CallInv'
    BY <1>1, <1>2, <1>3, <2>1 DEF CallInv, Nothing, Operations, None, Supported
  <2> QED
    BY <1>1, <1>2, <2>1, <2>2 DEF ReadByAdapter, Returned, AdmittedIsSendable, ResultKinds, Nothing
<1>4. CASE ~Supported(what, r, model)
  <2>1. pc' = "over" /\ result' = Raised("FeatureNotSupportedError")
    BY <1>4 DEF Ask
  <2>2. ~Supported(op, request, advertised)'
    BY <1>1, <1>4 DEF Supported
  <2>3. CallInv'
    BY <1>1, <1>2, <2>1 DEF CallInv, Nothing, Operations, None
  <2> QED
    BY <1>1, <1>2, <2>1, <2>2, <2>3
       DEF ReadByAdapter, Returned, AdmittedIsSendable, ResultKinds, Nothing, Raised
<1> QED
  BY <1>3, <1>4

LEMMA FormatAnswer ==
    ASSUME AnswerInv, Format PROVE AnswerInv'
<1> USE DEF AnswerInv
<1> DEFINE b == BodyFor(op, request)
<1>1. /\ pc = "admitted" /\ op \in Operations /\ adapter \in Chats
      /\ Supported(op, request, advertised)
      /\ op = "chat" => request \in ChatRequests /\ request \in Requests
      /\ body = Nothing /\ answer = Nothing /\ result = Nothing
  BY AdaptersAssumption DEF Format, CallInv
<1>2. UNCHANGED <<adapter, advertised, op, request, answer>>
  BY DEF Format
<1>3. /\ b.kind \in {"raised", "chat body", "embed body", "rerank body"}
      /\ b.kind = "raised" =>
           /\ op = "chat"
           /\ \/ b.error = "AttributeError" /\ PlainToolChoice(request)
              \/ /\ b.error = "TypeError"
                 /\ InBlocks(request.messages) /\ ~ContainImages(request.messages)
      /\ b.kind = "chat body" =>
           /\ op = "chat"
           /\ SaidBy(b) = SaidBy(Outbound(request))
           /\ b.options = request.options
           /\ b.tool_choice # None => b.tools
  <2>1. op = "chat" => request \in ChatRequests
    BY <1>1
  <2> QED
    BY <1>1, <2>1, Written
<1>4. IF b.kind = "raised" THEN pc' = "over" /\ result' = b /\ body' = body
                           ELSE pc' = "sent" /\ body' = b /\ result' = result
  BY DEF Format
<1> HIDE DEF b
<1>5. CallInv'
  BY <1>1, <1>2, <1>3, <1>4 DEF CallInv, Nothing, Operations, None
<1>6. ReadByAdapter' /\ Returned'
  BY <1>1, <1>2, <1>3, <1>4 DEF ReadByAdapter, Returned, ResultKinds, Nothing
<1>7. AdmittedIsSendable'
  BY <1>1, <1>2, <1>3, <1>4 DEF AdmittedIsSendable, Nothing
<1> QED
  BY <1>5, <1>6, <1>7

LEMMA ReturnAnswer ==
    ASSUME AnswerInv, NEW a, NEW r, Return(a, r), a # Nothing, r.kind \in ResultKinds \ {"nothing"},
           r.kind = "response" => r.finish \in Reasons \cup {"null", "other"},
           a.kind = "answer" => op = "chat" /\ r = ParseResponse(adapter, a, request)
    PROVE  AnswerInv'
<1> USE DEF AnswerInv
<1>1. /\ pc = "sent" /\ pc' = "over" /\ answer' = a /\ result' = r
      /\ UNCHANGED <<adapter, advertised, op, request, body>>
  BY DEF Return
<1>2. CallInv'
  BY <1>1 DEF CallInv, Operations
<1>3. ReadByAdapter' /\ Returned'
  <2>1. adapter \in Chats
    BY <1>1 DEF CallInv
  <2>2. ReadByAdapter'
    BY <1>1, <2>1 DEF ReadByAdapter
  <2>3. r # Nothing
    BY DEF Nothing
  <2>4. Returned'
    BY <1>1, <2>3 DEF Returned
  <2> QED
    BY <2>2, <2>4
<1>4. AdmittedIsSendable'
  BY <1>1 DEF AdmittedIsSendable
<1> QED
  BY <1>2, <1>3, <1>4

LEMMA AnswerInvStep == AnswerInv /\ [Next]_vars => AnswerInv'
<1> SUFFICES ASSUME AnswerInv, [Next]_vars PROVE AnswerInv'
  OBVIOUS
<1>1. CASE \E r \in Requests, more \in SUBSET {"vision"} : Ask("chat", r, {"chat", "tools"} \cup more)
  BY <1>1, AskAnswer DEF Operations
<1>2. CASE \E what \in {"embeddings", "rerank"} : Ask(what, Nothing, {what})
  BY <1>2, AskAnswer DEF Operations
<1>3. CASE Format
  BY <1>3, FormatAnswer
<1>4. CASE \E a \in (IF op = "chat" /\ request.schema THEN StructuredAnswers ELSE Answers) : Answered(a)
  <2>1. PICK a \in Answers \cup StructuredAnswers : Answered(a)
    BY <1>4
  <2>2. a.kind = "answer" /\ a # Nothing
    BY <2>1, AdaptersAssumption DEF Nothing
  <2>3. adapter \in Chats /\ op = "chat"
    BY <2>1 DEF Answered, Return, AnswerInv, CallInv
  <2> DEFINE r == ParseResponse(adapter, a, request)
  <2>4. /\ r.kind \in ResultKinds \ {"nothing"}
        /\ r.kind = "response" => r.finish \in Reasons \cup {"null", "other"}
    BY <2>3, ParseResult DEF ResultKinds
  <2>5. Return(a, r)
    BY <2>1 DEF Answered
  <2> HIDE DEF r
  <2>6. r = ParseResponse(adapter, a, request)
    BY DEF r
  <2> QED
    BY <2>2, <2>3, <2>4, <2>5, <2>6, ReturnAnswer
<1>5. CASE \E status \in Statuses : Refused(status)
  <2>1. PICK status \in Statuses : Refused(status)
    BY <1>5
  <2>2. TranslateError(adapter, status).kind = "raised"
    BY <2>1, ErrorResult DEF Refused, Return, AnswerInv, CallInv
  <2> DEFINE a == [kind |-> "error", status |-> status]
  <2>3. a.kind = "error" /\ a # Nothing
    BY DEF Nothing
  <2>4. Return(a, TranslateError(adapter, status))
    BY <2>1 DEF Refused
  <2> HIDE DEF a
  <2> QED
    BY <2>2, <2>3, <2>4, ReturnAnswer DEF ResultKinds
<1>6. CASE (\E data \in Data : Embedded(data)) \/ (\E items \in Items : Ranked(items))
  <2>1. PICK items, r : Return(Results(items), r) /\ r.kind \in {"vectors", "ranking"}
    <3>1. ASSUME NEW data, Embedded(data)
          PROVE  /\ Return(Results(data), ParseEmbedResponse(data))
                 /\ ParseEmbedResponse(data).kind = "vectors"
      BY <3>1 DEF Embedded, ParseEmbedResponse
    <3>2. ASSUME NEW items, Ranked(items)
          PROVE  /\ Return(Results(items), ParseRerankResponse(items))
                 /\ ParseRerankResponse(items).kind = "ranking"
      BY <3>2 DEF Ranked, ParseRerankResponse
    <3> QED
      BY <1>6, <3>1, <3>2
  <2>2. Results(items).kind = "results" /\ Results(items) # Nothing
    BY DEF Results, Nothing
  <2> QED
    BY <2>1, <2>2, ReturnAnswer DEF ResultKinds
<1>7. CASE Again
  BY <1>7 DEF Again, AnswerInv, CallInv, ReadByAdapter, Returned, AdmittedIsSendable, ResultKinds, Nothing,
              None, Operations
<1>8. CASE Begin \/ End \/ (\E line : ReadLine(line))
  <2>1. /\ pc \in {"idle", "streaming"} /\ pc' \in {"streaming", "over"}
        /\ op' = "stream"
        /\ UNCHANGED <<adapter, advertised, request, body, answer, result>>
    BY <1>8 DEF Begin, End, ReadLine, AnswerInv, CallInv
  <2> QED
    BY <2>1 DEF AnswerInv, CallInv, ReadByAdapter, Returned, AdmittedIsSendable, ResultKinds, Nothing, None,
                Operations
<1>9. CASE OtherBegins \/ OtherThinks \/ UNCHANGED vars
  <2>1. UNCHANGED <<adapter, call>>
    BY <1>9 DEF OtherBegins, OtherThinks, vars
  <2> QED
    BY <2>1, ZenonT(30) DEF call, AnswerInv, CallInv, ReadByAdapter, Returned, AdmittedIsSendable, Supported
<1> QED
  BY <1>1, <1>2, <1>3, <1>4, <1>5, <1>6, <1>7, <1>8, <1>9 DEF Next, Skip, Done, Event

LEMMA AnswerInvariant == Spec => []AnswerInv
BY AnswerInvInit, AnswerInvStep, PTL DEF Spec

(***************************************************************************)
(* Of what client.py and the enforcer admit, and for every request there   *)
(* is, each adapter can write all but a tool_choice that is a plain string *)
(* and, three of them, a list of blocks without an image; and a body says  *)
(* what the request said.                                                  *)
(***************************************************************************)
THEOREM SendableBodies == Spec => []AdmittedIsSendable
<1>1. AnswerInv => AdmittedIsSendable
  BY DEF AnswerInv
<1> QED
  BY <1>1, AnswerInvariant, PTL

(***************************************************************************)
(* parse_response of all eight adapters and _parse_chat_response of the    *)
(* client make the same of any answer that conforms to OpenAI's schema but *)
(* for the name of the model and the reasoning tokens, and quite the same  *)
(* of one that names no other model and has no such tokens; of any other   *)
(* answer the adapters raise nothing but errors of parsing.                *)
(***************************************************************************)
THEOREM ParsersAlike == Spec => []ParsersAgree
<1>1. AnswerInv => ParsersAgree
  BY SameParse, ParseResult DEF AnswerInv, ReadByAdapter, ParsersAgree
<1> QED
  BY <1>1, AnswerInvariant, PTL

-----------------------------------------------------------------------------
(* The JSON in a text.  json.loads and the loop of extract_json_object     *)
(* read the same characters: as long as the first knows what is open, the  *)
(* second knows how deep it is, and both end at the same character.        *)

LEMMA LessIsWellFounded == IsWellFoundedOn({ss \in Nat \X Nat : ss[1] < ss[2]}, Nat)
BY NatLessThanWellFounded DEF OpToRel

LEMMA LeastElement ==
    ASSUME NEW T \in SUBSET Nat, T # {}
    PROVE  \E m \in T : \A k \in T : m <= k
<1> DEFINE Less == {ss \in Nat \X Nat : ss[1] < ss[2]}
<1>1. \A m \in T, k \in T : ~(<<k, m>> \in Less) => m <= k
  OBVIOUS
<1>2. IsWellFoundedOn(Less, Nat)
  BY LessIsWellFounded
<1> HIDE DEF Less
<1>3. \E m \in T : \A k \in T : ~(<<k, m>> \in Less)
  BY <1>2, WFMin
<1> QED
  BY <1>1, <1>3

\* Induction, in terms of a set: what holds of m and passes from each number to the
\* next holds of all from m to n.
LEMMA Induction ==
    ASSUME NEW m \in Nat, NEW n \in Nat, NEW T,
           m \in T, \A i \in m..n - 1 : i \in T => i + 1 \in T
    PROVE  \A i \in m..n : i \in T
<1> DEFINE Missed == {i \in m..n : i \notin T}
<1>1. SUFFICES ASSUME Missed # {} PROVE FALSE
  OBVIOUS
<1>2. Missed \in SUBSET Nat
  OBVIOUS
<1> HIDE DEF Missed
<1>3. PICK i \in Missed : \A k \in Missed : i <= k
  BY <1>1, <1>2, LeastElement
<1>4. i \in m..n /\ i \notin T /\ i # m
  BY <1>3 DEF Missed
<1>5. i - 1 \in m..n - 1 /\ i - 1 \notin Missed
  BY <1>3, <1>4
<1>6. i - 1 \in T
  BY <1>5 DEF Missed
<1>7. i - 1 + 1 \in T
  BY <1>5, <1>6
<1> QED
  BY <1>4, <1>7

\* A function that begins with start and makes one step at each i.
HasRun(n, S, start, step) ==
    \E f \in [0..n -> S] : f[0] = start /\ \A i \in 1..n : f[i] = step[i][f[i - 1]]

\* Recursive functions over 0..n exist: with this, Reading, Scanning and Cleaned
\* are known by what they do with one more character.
LEMMA RunExists ==
    ASSUME NEW n \in Nat, NEW S, NEW start \in S, NEW step \in [1..n -> [S -> S]]
    PROVE  HasRun(n, S, start, step)
<1> DEFINE Runs(k) == {f \in [0..n -> S] :
                         f[0] = start /\ \A i \in 1..k : f[i] = step[i][f[i - 1]]}
           T == {k \in 0..n : Runs(k) # {}}
<1>1. 0 \in T
  <2>1. [i \in 0..n |-> start] \in Runs(0)
    OBVIOUS
  <2> QED
    BY <2>1
<1>2. ASSUME NEW k \in 0..n - 1, k \in T PROVE k + 1 \in T
  <2>1. PICK f \in [0..n -> S] : f[0] = start /\ \A i \in 1..k : f[i] = step[i][f[i - 1]]
    BY <1>2
  <2> DEFINE next == step[k + 1][f[k]]
             g == [f EXCEPT ![k + 1] = next]
  <2>2. k + 1 \in 1..n /\ k \in 0..n /\ k + 1 # 0
    OBVIOUS
  <2>3. next \in S
    BY <2>1, <2>2
  <2>4. g \in [0..n -> S] /\ g[0] = start /\ g[k + 1] = next
    BY <2>1, <2>2, <2>3
  <2>5. \A i \in 1..k : g[i] = f[i] /\ g[i - 1] = f[i - 1]
    BY <2>1
  <2>6. g[k] = f[k]
    BY <2>1, <2>2
  <2>7. \A i \in 1..k + 1 : g[i] = step[i][g[i - 1]]
    <3> HIDE DEF g
    <3>1. \A i \in 1..k : g[i] = step[i][g[i - 1]]
      BY <2>1, <2>5
    <3>2. g[k + 1] = step[k + 1][g[k + 1 - 1]]
      BY <2>4, <2>6
    <3> QED
      BY <3>1, <3>2
  <2>8. g \in Runs(k + 1)
    <3> HIDE DEF g
    <3> QED BY <2>4, <2>7
  <2> HIDE DEF g
  <2>9. Runs(k + 1) # {} /\ k + 1 \in 0..n
    BY <2>2, <2>8
  <2> QED
    BY <2>9
<1>3. n \in T
  <2> HIDE DEF T
  <2>1. \A i \in 0..n - 1 : i \in T => i + 1 \in T
    BY <1>2
  <2>2. \A i \in 0..n : i \in T
    BY <1>1, <2>1, Induction
  <2> QED
    BY <2>2
<1>4. Runs(n) # {}
  BY <1>3
<1> QED
  BY <1>4 DEF HasRun

Modes == {"value", "opened", "string", "escape", "colon", "after", "number", "bad"}
ReaderStates == [stack : Seq(Openers), mode : Modes, key : BOOLEAN]

Moved(p, mode, key) == [p EXCEPT !.mode = mode, !.key = key]

LEMMA MovedType ==
    ASSUME NEW p \in ReaderStates, NEW mode \in Modes, NEW key \in BOOLEAN
    PROVE  /\ Moved(p, mode, key) \in ReaderStates
           /\ Moved(p, mode, key).stack = p.stack
           /\ Moved(p, mode, key).mode = mode
BY DEF Moved, ReaderStates

\* What json.loads does with a character, inside of a string and elsewhere.
LEMMA InStringCases ==
    ASSUME NEW p \in ReaderStates, NEW c, p.mode \in {"string", "escape"}
    PROVE  \/ /\ p.mode = "string" /\ c = "quote"
              /\ InString(p, c) = Moved(p, IF p.key THEN "colon" ELSE "after", p.key)
           \/ /\ p.mode = "string" /\ c = "escape"
              /\ InString(p, c) = Moved(p, "escape", p.key)
           \/ /\ p.mode = "string" /\ c \notin {"quote", "escape", "nl"}
              /\ InString(p, c) = p
           \/ /\ p.mode = "escape" /\ c \in {"quote", "escape"}
              /\ InString(p, c) = Moved(p, "string", p.key)
           \/ InString(p, c) = Moved(p, "bad", p.key)
<1>1. \A mode \in Modes : [p EXCEPT !.mode = mode] = Moved(p, mode, p.key)
  BY DEF Moved, ReaderStates
<1>2. InString(p, c) =
        CASE p.mode = "string" /\ c = "quote" -> Moved(p, IF p.key THEN "colon" ELSE "after", p.key)
          [] p.mode = "string" /\ c = "escape" -> Moved(p, "escape", p.key)
          [] p.mode = "string" /\ c \notin {"quote", "escape", "nl"} -> p
          [] p.mode = "escape" /\ c \in {"quote", "escape"} -> Moved(p, "string", p.key)
          [] OTHER -> Moved(p, "bad", p.key)
  BY <1>1 DEF InString, Modes
<1> QED
  BY <1>2

Enclosing(p) == IF p.stack = <<>> THEN "nothing" ELSE Last(p.stack)

LEMMA BetweenCases ==
    ASSUME NEW p \in ReaderStates, NEW c
    PROVE  \/ c = "nl" /\ Between(p, c) = p
           \/ c = "nl" /\ p.mode = "number" /\ Between(p, c) = Moved(p, "after", FALSE)
           \/ /\ c \in Openers
              /\ p.mode = "value" \/ (p.mode = "opened" /\ Enclosing(p) = "[")
              /\ Between(p, c) = [stack |-> Append(p.stack, c), mode |-> "opened", key |-> FALSE]
           \/ /\ c = "quote"
              /\ Between(p, c) \in {Moved(p, "string", FALSE), Moved(p, "string", TRUE)}
           \/ c = "1" /\ Between(p, c) = Moved(p, "number", FALSE)
           \/ c = "colon" /\ Between(p, c) = Moved(p, "value", FALSE)
           \/ /\ p.stack # <<>> /\ c = Closer[Last(p.stack)]
              /\ Between(p, c) = [stack |-> Front(p.stack), mode |-> "after", key |-> FALSE]
           \/ Between(p, c) = Moved(p, "bad", FALSE)
<1> DEFINE in == Enclosing(p)
           awaits == p.mode = "value" \/ (p.mode = "opened" /\ in = "[")
           A1 == c = "nl"
           A2 == awaits /\ c \in Openers
           A3 == awaits /\ c = "quote"
           A4 == (awaits \/ p.mode = "number") /\ c = "1"
           A5 == p.mode = "opened" /\ in = "{" /\ c = "quote"
           A6 == p.mode = "colon" /\ c = "colon"
           A7 == p.mode \in {"opened", "after", "number"} /\ in # "nothing" /\ c = Closer[in]
<1>1. Between(p, c) =
        CASE A1 -> IF p.mode = "number" THEN Moved(p, "after", FALSE) ELSE p
          [] A2 -> [stack |-> Append(p.stack, c), mode |-> "opened", key |-> FALSE]
          [] A3 -> Moved(p, "string", FALSE)
          [] A4 -> Moved(p, "number", FALSE)
          [] A5 -> Moved(p, "string", TRUE)
          [] A6 -> Moved(p, "value", FALSE)
          [] A7 -> [stack |-> Front(p.stack), mode |-> "after", key |-> FALSE]
          [] OTHER -> Moved(p, "bad", FALSE)
  BY DEF Between, Moved, Enclosing, ReaderStates
<1>2. A7 => p.stack # <<>> /\ c = Closer[Last(p.stack)]
  BY DEF Enclosing
<1>3. A2 => c \in Openers /\ (p.mode = "value" \/ (p.mode = "opened" /\ Enclosing(p) = "["))
  OBVIOUS
<1> QED
  <2> HIDE DEF in
  <2> QED BY <1>1, <1>2, <1>3

LEMMA ReadCharType ==
    ASSUME NEW p \in ReaderStates, NEW c
    PROVE  ReadChar(p, c) \in ReaderStates
<1>1. p.stack \in Seq(Openers) /\ p.key \in BOOLEAN
  BY DEF ReaderStates
<1>2. \A mode \in Modes, key \in BOOLEAN : Moved(p, mode, key) \in ReaderStates
  BY MovedType
<1>3. CASE p.mode \in {"string", "escape"}
  <2>1. /\ Moved(p, "colon", p.key) \in ReaderStates /\ Moved(p, "after", p.key) \in ReaderStates
        /\ Moved(p, "escape", p.key) \in ReaderStates /\ Moved(p, "string", p.key) \in ReaderStates
        /\ Moved(p, "bad", p.key) \in ReaderStates
    BY <1>1, <1>2 DEF Modes
  <2>2. InString(p, c) \in ReaderStates
    BY <1>3, <2>1, InStringCases
  <2> QED
    BY <1>3, <2>2 DEF ReadChar
<1>4. CASE p.mode \notin {"string", "escape"}
  <2>1. ASSUME NEW opener \in Openers
        PROVE [stack |-> Append(p.stack, opener), mode |-> "opened", key |-> FALSE] \in ReaderStates
    BY <1>1 DEF ReaderStates, Modes
  <2>2. ASSUME p.stack # <<>>
        PROVE [stack |-> Front(p.stack), mode |-> "after", key |-> FALSE] \in ReaderStates
    <3>1. Front(p.stack) \in Seq(Openers)
      BY <1>1, <2>2 DEF Front
    <3> QED
      BY <3>1 DEF ReaderStates, Modes
  <2>3. /\ Moved(p, "string", FALSE) \in ReaderStates /\ Moved(p, "string", TRUE) \in ReaderStates
        /\ Moved(p, "number", FALSE) \in ReaderStates /\ Moved(p, "value", FALSE) \in ReaderStates
        /\ Moved(p, "after", FALSE) \in ReaderStates /\ Moved(p, "bad", FALSE) \in ReaderStates
    BY <1>2 DEF Modes
  <2>4. Between(p, c) \in ReaderStates
    BY <2>1, <2>2, <2>3, BetweenCases
  <2> QED
    BY <1>4, <2>4 DEF ReadChar
<1> QED
  BY <1>3, <1>4

\* json.loads reads a text character by character.
LEMMA ReadByChar ==
    ASSUME NEW text, NEW n \in Nat, Len(text) = n
    PROVE  /\ Reading(text) \in [0..n -> ReaderStates]
           /\ Reading(text)[0] = NothingRead
           /\ \A i \in 1..n : Reading(text)[i] = ReadChar(Reading(text)[i - 1], text[i])
<1> DEFINE Defines(f) == f = [i \in 0..n |-> IF i = 0 THEN NothingRead
                                             ELSE ReadChar(f[i - 1], text[i])]
<1>1. NothingRead \in ReaderStates
  BY DEF NothingRead, ReaderStates, Modes
<1>2. PICK step : step = [i \in 1..n |-> [p \in ReaderStates |-> ReadChar(p, text[i])]]
  OBVIOUS
<1>3. /\ step \in [1..n -> [ReaderStates -> ReaderStates]]
      /\ \A i \in 1..n, p \in ReaderStates : step[i][p] = ReadChar(p, text[i])
  BY <1>2, ReadCharType
<1>4. PICK f \in [0..n -> ReaderStates] :
        f[0] = NothingRead /\ \A i \in 1..n : f[i] = step[i][f[i - 1]]
  <2>1. HasRun(n, ReaderStates, NothingRead, step)
    BY <1>1, <1>3, RunExists
  <2> QED
    BY <2>1 DEF HasRun
<1>5. \A i \in 1..n : f[i] = ReadChar(f[i - 1], text[i])
  BY <1>3, <1>4
<1>6. Defines(f)
  BY <1>4, <1>5
<1>7. Reading(text) = CHOOSE g : Defines(g)
  BY DEF Reading
<1>8. Defines(Reading(text))
  <2> HIDE DEF Defines
  <2> QED BY <1>6, <1>7
<1> DEFINE read == Reading(text)
<1>9. /\ DOMAIN read = 0..n /\ read[0] = NothingRead
      /\ \A i \in 1..n : read[i] = ReadChar(read[i - 1], text[i])
      /\ read = [i \in 0..n |-> read[i]]
  BY <1>8
<1> HIDE DEF read
<1>10. \A i \in 0..n : read[i] \in ReaderStates
  <2> DEFINE T == {i \in 0..n : read[i] \in ReaderStates}
  <2>1. 0 \in T
    BY <1>1, <1>9
  <2>2. ASSUME NEW i \in 0..n - 1, i \in T PROVE i + 1 \in T
    <3>1. PICK k \in 1..n : k = i + 1 /\ k - 1 = i /\ k \in 0..n
      OBVIOUS
    <3>2. read[k] = ReadChar(read[k - 1], text[k])
      BY <1>9
    <3> QED
      BY <2>2, <3>1, <3>2, ReadCharType
  <2> HIDE DEF T
  <2>3. \A i \in 0..n : i \in T
    BY <2>1, <2>2, Induction
  <2> QED
    BY <2>3 DEF T
<1> QED
  BY <1>9, <1>10 DEF read

\* What is no JSON so far does not become JSON with more characters.
LEMMA BadStays ==
    ASSUME NEW p \in ReaderStates, NEW c, p.mode = "bad"
    PROVE  ReadChar(p, c).mode = "bad"
<1>1. ReadChar(p, c) = Between(p, c)
  BY DEF ReadChar
<1>2. Between(p, c) = IF c = "nl" THEN p ELSE Moved(p, "bad", FALSE)
  BY DEF Between, Moved
<1>3. Moved(p, "bad", FALSE).mode = "bad"
  BY MovedType DEF Modes
<1> QED
  BY <1>1, <1>2, <1>3

LEMMA HoldsAtTheEnd ==
    ASSUME NEW n \in Nat, NEW m \in 0..n, NEW f,
           NEW Holds, \A i \in m..n - 1 : f[i] \in Holds => f[i + 1] \in Holds,
           f[m] \in Holds
    PROVE  f[n] \in Holds
<1> DEFINE T == {i \in m..n : f[i] \in Holds}
<1>1. m \in T
  OBVIOUS
<1>2. \A i \in m..n - 1 : i \in T => i + 1 \in T
  OBVIOUS
<1> HIDE DEF T
<1>3. m \in Nat /\ n \in m..n
  OBVIOUS
<1>4. \A i \in m..n : i \in T
  BY <1>1, <1>2, <1>3, Induction
<1> QED
  BY <1>3, <1>4 DEF T

\* The outermost bracket has been closed, or this is no JSON.
Closed == {p \in ReaderStates : p.mode = "bad" \/ (p.mode = "after" /\ p.stack = <<>>)}

LEMMA ClosedStays ==
    ASSUME NEW p \in Closed, NEW c
    PROVE  /\ ReadChar(p, c) \in Closed
           /\ c # "nl" => ReadChar(p, c).mode = "bad"
<1>1. p \in ReaderStates /\ ReadChar(p, c) \in ReaderStates
  BY ReadCharType DEF Closed
<1>2. CASE p.mode = "bad"
  BY <1>1, <1>2, BadStays DEF Closed
<1>3. CASE p.mode = "after" /\ p.stack = <<>>
  <2>1. ReadChar(p, c) = Between(p, c)
    BY <1>3 DEF ReadChar
  <2>2. Between(p, c) = IF c = "nl" THEN p ELSE Moved(p, "bad", FALSE)
    BY <1>3 DEF Between, Moved
  <2>3. Moved(p, "bad", FALSE).mode = "bad"
    BY <1>1, MovedType DEF Modes
  <2> QED
    BY <1>1, <1>3, <2>1, <2>2, <2>3 DEF Closed
<1> QED
  BY <1>2, <1>3 DEF Closed

\* A text that is a JSON object or array is read without an error, and its first
\* bracket is closed by its last character and not before.
LEMMA InsideBlock ==
    ASSUME NEW text \in Seq(Chars), NEW opener \in Openers, IsBlock(text, opener)
    PROVE  LET n == Len(text)
               read == Reading(text) IN
           /\ n > 1 /\ text[1] = opener /\ text[n] = Closer[opener]
           /\ read[1] = [stack |-> <<opener>>, mode |-> "opened", key |-> FALSE]
           /\ read[n].stack = <<>> /\ read[n].mode \in {"after", "number"}
           /\ \A i \in 0..n : read[i].mode # "bad"
           /\ \A i \in 1..n - 1 : read[i].stack # <<>>
<1> DEFINE read == Reading(text)
<1>1. PICK n \in Nat : n = Len(text)
  OBVIOUS
<1>2. /\ read \in [0..n -> ReaderStates] /\ read[0] = NothingRead
      /\ \A i \in 1..n : read[i] = ReadChar(read[i - 1], text[i])
  BY <1>1, ReadByChar
<1>3. read[n].stack = <<>> /\ read[n].mode \in {"after", "number"}
  BY <1>1 DEF IsBlock, IsJson
<1> HIDE DEF read
<1>4. n # 0
  BY <1>2, <1>3 DEF NothingRead
<1>5. text # <<>> /\ text[1] = opener /\ text[n] = Closer[opener]
  BY <1>1, <1>4 DEF IsBlock, Last
<1>6. opener # Closer[opener] /\ Closer[opener] # "nl"
  BY DEF Openers, Closer
<1>7. n > 1
  BY <1>4, <1>5, <1>6
<1>8. \A i \in 1..n : read[i - 1] \in ReaderStates /\ read[i] \in ReaderStates
  BY <1>2
<1>9. read[1] = [stack |-> <<opener>>, mode |-> "opened", key |-> FALSE]
  <2>1. read[1] = ReadChar(NothingRead, opener)
    BY <1>2, <1>5, <1>7
  <2>2. ReadChar(NothingRead, opener) = Between(NothingRead, opener)
    BY DEF ReadChar, NothingRead
  <2>3. Between(NothingRead, opener) =
          [stack |-> Append(<<>>, opener), mode |-> "opened", key |-> FALSE]
    BY DEF Between, NothingRead, Openers
  <2> QED
    BY <2>1, <2>2, <2>3
<1>10. ASSUME NEW i \in 0..n, read[i].mode = "bad" PROVE FALSE
  <2> DEFINE Bad == {p \in ReaderStates : p.mode = "bad"}
  <2>1. ASSUME NEW k \in i..n - 1, read[k] \in Bad PROVE read[k + 1] \in Bad
    <3>1. PICK l \in 1..n : l = k + 1 /\ l - 1 = k
      OBVIOUS
    <3>2. read[l] = ReadChar(read[k], text[l]) /\ read[l] \in ReaderStates
      BY <1>2, <1>8, <3>1
    <3> QED
      BY <2>1, <3>1, <3>2, BadStays
  <2>2. read[i] \in Bad
    BY <1>2, <1>10
  <2> HIDE DEF Bad
  <2>3. read[n] \in Bad
    BY <2>1, <2>2, HoldsAtTheEnd
  <2> QED
    BY <1>3, <2>3 DEF Bad
<1>11. ASSUME NEW i \in 1..n - 1, read[i].stack = <<>> PROVE FALSE
  <2> DEFINE Open == {p \in ReaderStates : p.stack # <<>> \/ p \in Closed}
  <2>1. ASSUME NEW k \in 1..n - 1, read[k] \in Open PROVE read[k + 1] \in Open
    <3>1. PICK l \in 1..n : l = k + 1 /\ l - 1 = k
      OBVIOUS
    <3>2. read[l] = ReadChar(read[k], text[l]) /\ read[l] \in ReaderStates /\ read[k] \in ReaderStates
      BY <1>2, <1>8, <3>1
    <3>3. CASE read[k] \in Closed
      BY <3>1, <3>2, <3>3, ClosedStays
    <3>4. CASE read[k].stack # <<>>
      <4> PICK p \in ReaderStates : p = read[k]
        BY <3>2
      <4> PICK c : c = text[l]
        OBVIOUS
      <4>1. \/ ReadChar(p, c).stack = p.stack
            \/ ReadChar(p, c).stack = Append(p.stack, c)
            \/ ReadChar(p, c).mode = "after" /\ ReadChar(p, c).stack = Front(p.stack)
        <5>1. \A mode \in Modes, key \in BOOLEAN : Moved(p, mode, key).stack = p.stack
          BY MovedType
        <5>2. p.key \in BOOLEAN
          BY DEF ReaderStates
        <5>3. CASE p.mode \in {"string", "escape"}
          <6>1. InString(p, c).stack = p.stack
            BY <5>1, <5>2, <5>3, InStringCases DEF Modes
          <6> QED BY <5>3, <6>1 DEF ReadChar
        <5>4. CASE p.mode \notin {"string", "escape"}
          <6>1. /\ Moved(p, "string", FALSE).stack = p.stack /\ Moved(p, "string", TRUE).stack = p.stack
                /\ Moved(p, "number", FALSE).stack = p.stack /\ Moved(p, "value", FALSE).stack = p.stack
                /\ Moved(p, "after", FALSE).stack = p.stack /\ Moved(p, "bad", FALSE).stack = p.stack
            BY <5>1 DEF Modes
          <6>2. \/ Between(p, c).stack = p.stack
                \/ Between(p, c).stack = Append(p.stack, c)
                \/ Between(p, c).mode = "after" /\ Between(p, c).stack = Front(p.stack)
            <7> PICK b : b = Between(p, c)
              OBVIOUS
            <7>1. \/ b \in {p, Moved(p, "string", FALSE), Moved(p, "string", TRUE),
                             Moved(p, "number", FALSE), Moved(p, "value", FALSE),
                             Moved(p, "after", FALSE), Moved(p, "bad", FALSE)}
                  \/ b = [stack |-> Append(p.stack, c), mode |-> "opened", key |-> FALSE]
                  \/ b = [stack |-> Front(p.stack), mode |-> "after", key |-> FALSE]
              BY BetweenCases
            <7>2. \/ b.stack = p.stack \/ b.stack = Append(p.stack, c)
                  \/ b.mode = "after" /\ b.stack = Front(p.stack)
              <8>1. CASE b = [stack |-> Append(p.stack, c), mode |-> "opened", key |-> FALSE]
                BY <8>1
              <8>2. CASE b = [stack |-> Front(p.stack), mode |-> "after", key |-> FALSE]
                BY <8>2
              <8>3. CASE b \in {p, Moved(p, "string", FALSE), Moved(p, "string", TRUE),
                               Moved(p, "number", FALSE), Moved(p, "value", FALSE),
                               Moved(p, "after", FALSE), Moved(p, "bad", FALSE)}
                BY <6>1, <8>3
              <8> QED
                BY <7>1, <8>1, <8>2, <8>3
            <7> QED
              BY <7>2
          <6> QED BY <5>4, <6>2 DEF ReadChar
        <5> QED
          BY <5>3, <5>4
      <4>2. ReadChar(p, c) \in Open
        <5>1. ReadChar(p, c) \in ReaderStates
          BY ReadCharType
        <5>2. Append(p.stack, c) # <<>>
          BY SMTT(30) DEF ReaderStates
        <5> QED
          BY <3>4, <4>1, <5>1, <5>2 DEF Closed
      <4> QED
        BY <3>1, <3>2, <4>2
    <3> QED
      BY <2>1, <3>3, <3>4
  <2> DEFINE T == {k \in 1..n : read[k] \in Open}
  <2>2. read[1] \in Open
    <3>1. read[1] \in ReaderStates
      BY <1>7, <1>8
    <3>2. read[1].stack # <<>>
      BY <1>9
    <3> QED
      BY <3>1, <3>2
  <2>3. \A k \in 1..n : k \in T
    <3>1. 1 \in T
      BY <1>7, <2>2
    <3>2. \A k \in 1..n - 1 : k \in T => k + 1 \in T
      <4> HIDE DEF Open
      <4> QED BY <2>1
    <3> HIDE DEF T
    <3> QED BY <3>1, <3>2, Induction
  <2>4. read[i] \in Closed
    BY <1>11, <2>3
  <2>5. ASSUME NEW k \in i..n - 1, read[k] \in Closed PROVE read[k + 1] \in Closed
    <3>1. PICK l \in 1..n : l = k + 1 /\ l - 1 = k
      OBVIOUS
    <3>2. read[l] = ReadChar(read[k], text[l])
      BY <1>2, <3>1
    <3> QED
      BY <2>5, <3>1, <3>2, ClosedStays
  <2>6. PICK m \in Nat : m = n - 1 /\ i \in 0..m
    BY <1>7
  <2>7. read[m] \in Closed
    <3>1. \A k \in i..m - 1 : read[k] \in Closed => read[k + 1] \in Closed
      BY <2>5, <2>6
    <3> QED
      BY <2>4, <2>6, <3>1, HoldsAtTheEnd
  <2>8. read[n] = ReadChar(read[m], text[n])
    BY <1>2, <1>7, <2>6
  <2> QED
    BY <1>3, <1>5, <1>6, <2>7, <2>8, ClosedStays
<1> QED
  <2>1. /\ n > 1 /\ text[1] = opener /\ text[n] = Closer[opener]
        /\ read[1] = [stack |-> <<opener>>, mode |-> "opened", key |-> FALSE]
        /\ read[n].stack = <<>> /\ read[n].mode \in {"after", "number"}
        /\ \A i \in 0..n : read[i].mode # "bad"
        /\ \A i \in 1..n - 1 : read[i].stack # <<>>
    BY <1>3, <1>5, <1>7, <1>9, <1>10, <1>11
  <2> QED
    BY <1>1, <2>1 DEF read

LEMMA RunTyped ==
    ASSUME NEW n \in Nat, NEW f, NEW S, f[0] \in S,
           \A i \in 1..n : f[i - 1] \in S => f[i] \in S
    PROVE  \A i \in 0..n : f[i] \in S
<1> DEFINE T == {i \in 0..n : f[i] \in S}
<1>1. 0 \in T
  OBVIOUS
<1>2. ASSUME NEW i \in 0..n - 1, i \in T PROVE i + 1 \in T
  <2>1. PICK k \in 1..n : k = i + 1 /\ k - 1 = i /\ k \in 0..n
    OBVIOUS
  <2> QED
    BY <1>2, <2>1
<1> HIDE DEF T
<1>3. \A i \in 0..n : i \in T
  BY <1>1, <1>2, Induction
<1> QED
  BY <1>3 DEF T

ScanStates == [depth : Int, in_string : BOOLEAN, escape : BOOLEAN, i : Nat, end : Nat]

LEMMA ScanCharType ==
    ASSUME NEW s \in ScanStates, NEW c, NEW opener \in Openers
    PROVE  ScanChar(s, c, opener) \in ScanStates
<1>1. s.i + 1 \in Nat /\ s.depth + 1 \in Int /\ s.depth - 1 \in Int
  BY DEF ScanStates
<1> QED
  BY <1>1 DEF ScanChar, ScanStates

\* The loop of extract_json_object takes a text character by character.
LEMMA ScannedByChar ==
    ASSUME NEW text, NEW n \in Nat, Len(text) = n, NEW opener \in Openers
    PROVE  /\ Scanning(text, opener) \in [0..n -> ScanStates]
           /\ Scanning(text, opener)[0] = AtOpener
           /\ \A i \in 1..n : Scanning(text, opener)[i] =
                                ScanChar(Scanning(text, opener)[i - 1], text[i], opener)
<1> DEFINE Defines(f) == f = [i \in 0..n |-> IF i = 0 THEN AtOpener
                                             ELSE ScanChar(f[i - 1], text[i], opener)]
<1>1. AtOpener \in ScanStates
  BY DEF AtOpener, ScanStates
<1>2. PICK step : step = [i \in 1..n |-> [s \in ScanStates |-> ScanChar(s, text[i], opener)]]
  OBVIOUS
<1>3. /\ step \in [1..n -> [ScanStates -> ScanStates]]
      /\ \A i \in 1..n, s \in ScanStates : step[i][s] = ScanChar(s, text[i], opener)
  BY <1>2, ScanCharType
<1>4. PICK f \in [0..n -> ScanStates] :
        f[0] = AtOpener /\ \A i \in 1..n : f[i] = step[i][f[i - 1]]
  <2>1. HasRun(n, ScanStates, AtOpener, step)
    BY <1>1, <1>3, RunExists
  <2> QED
    BY <2>1 DEF HasRun
<1>5. \A i \in 1..n : f[i] = ScanChar(f[i - 1], text[i], opener)
  BY <1>3, <1>4
<1>6. Defines(f)
  BY <1>4, <1>5
<1>7. Scanning(text, opener) = CHOOSE g : Defines(g)
  BY DEF Scanning
<1>8. Defines(Scanning(text, opener))
  <2> HIDE DEF Defines
  <2> QED BY <1>6, <1>7
<1> PICK scan : scan = Scanning(text, opener)
  OBVIOUS
<1>9. /\ DOMAIN scan = 0..n /\ scan[0] = AtOpener
      /\ \A i \in 1..n : scan[i] = ScanChar(scan[i - 1], text[i], opener)
      /\ scan = [i \in 0..n |-> scan[i]]
  <2> PICK step1 : step1 = [i \in 0..n |-> IF i = 0 THEN AtOpener
                                         ELSE ScanChar(scan[i - 1], text[i], opener)]
    OBVIOUS
  <2>1. scan = step1
    BY <1>8
  <2>2. DOMAIN step1 = 0..n /\ step1[0] = AtOpener
        /\ \A i \in 1..n : step1[i] = ScanChar(scan[i - 1], text[i], opener)
    OBVIOUS
  <2>3. step1 = [i \in 0..n |-> step1[i]]
    OBVIOUS
  <2> QED
    BY <2>1, <2>2, <2>3
<1>10. \A i \in 0..n : scan[i] \in ScanStates
  <2>1. \A i \in 1..n : scan[i - 1] \in ScanStates => scan[i] \in ScanStates
    BY <1>9, ScanCharType, ZenonT(60)
  <2> QED
    BY <1>1, <1>9, <2>1, RunTyped
<1> QED
  BY <1>9, <1>10

\* How many brackets of the opener's kind are open.
Depth(stack, opener) == Cardinality({k \in DOMAIN stack : stack[k] = opener})

LEMMA DepthOf ==
    ASSUME NEW stack \in Seq(Openers), NEW opener \in Openers
    PROVE  /\ Depth(stack, opener) \in Nat
           /\ \A c \in Openers :
                Depth(Append(stack, c), opener) =
                  Depth(stack, opener) + (IF c = opener THEN 1 ELSE 0)
<1> PICK n \in Nat : n = Len(stack)
  OBVIOUS
<1> DEFINE at == {k \in 1..n : stack[k] = opener}
<1>1. DOMAIN stack = 1..n /\ {k \in DOMAIN stack : stack[k] = opener} = at
  OBVIOUS
<1>2. Depth(stack, opener) = Cardinality(at) /\ IsFiniteSet(at) /\ Cardinality(at) \in Nat
  <2>1. IsFiniteSet(1..n)
    BY FS_Interval
  <2>2. IsFiniteSet(at)
    BY <2>1, FS_Subset
  <2>3. Depth(stack, opener) = Cardinality(at)
    BY <1>1 DEF Depth
  <2> QED
    BY <2>2, <2>3, FS_CardinalityType
<1>3. ASSUME NEW c \in Openers
      PROVE  Depth(Append(stack, c), opener) =
               Depth(stack, opener) + (IF c = opener THEN 1 ELSE 0)
  <2> DEFINE more == {k \in DOMAIN Append(stack, c) : Append(stack, c)[k] = opener}
  <2>1. DOMAIN Append(stack, c) = 1..n + 1 /\ Append(stack, c)[n + 1] = c
        /\ \A k \in 1..n : Append(stack, c)[k] = stack[k]
    OBVIOUS
  <2>2. n + 1 \notin at
    OBVIOUS
  <2>3. CASE c = opener
    <3>1. more = at \cup {n + 1}
      BY <2>1, <2>3
    <3>2. Cardinality(more) = Cardinality(at) + 1
      <4> HIDE DEF at, more
      <4> QED BY <1>2, <2>2, <3>1, FS_AddElement
    <3>3. Depth(Append(stack, c), opener) = Cardinality(more)
      BY DEF Depth
    <3> HIDE DEF at, more
    <3> QED
      BY <1>2, <2>3, <3>2, <3>3
  <2>4. CASE c # opener
    <3>1. more = at
      BY <2>1, <2>4
    <3>2. Depth(Append(stack, c), opener) = Cardinality(more)
      BY DEF Depth
    <3> HIDE DEF at, more
    <3> QED
      BY <1>2, <2>4, <3>1, <3>2
  <2> QED
    BY <2>3, <2>4
<1> QED
  BY <1>2, <1>3

LEMMA DepthOfOne ==
    ASSUME NEW opener \in Openers
    PROVE  Depth(<<opener>>, opener) = 1
<1>1. {k \in DOMAIN <<opener>> : <<opener>>[k] = opener} = {1}
  OBVIOUS
<1> QED
  BY <1>1, FS_Singleton DEF Depth

LEMMA DepthOfOpen ==
    ASSUME NEW stack \in Seq(Openers), NEW opener \in Openers, stack # <<>>, stack[1] = opener
    PROVE  Depth(stack, opener) > 0
<1> DEFINE at == {k \in DOMAIN stack : stack[k] = opener}
<1>1. 1 \in at
  OBVIOUS
<1>2. IsFiniteSet(at)
  <2>1. IsFiniteSet(1..Len(stack))
    BY FS_Interval
  <2> QED
    BY <2>1, FS_Subset
<1>3. Cardinality(at) \in Nat /\ Cardinality(at) # 0
  <2> HIDE DEF at
  <2> QED BY <1>1, <1>2, FS_CardinalityType, FS_EmptySet
<1> QED
  BY <1>3 DEF Depth

\* The loop, which knows a depth only, stands where json.loads stands with its stack.
Follows(s, p, opener) ==
    /\ p \in ReaderStates /\ s \in ScanStates
    /\ p.mode # "bad" /\ p.stack # <<>> /\ p.stack[1] = opener
    /\ s.end = 0 /\ s.depth = Depth(p.stack, opener)
    /\ s.in_string <=> p.mode \in {"string", "escape"}
    /\ s.escape <=> p.mode = "escape"

LEMMA FrontAndLast ==
    ASSUME NEW S, NEW s \in Seq(S), s # <<>>
    PROVE  Front(s) \in Seq(S) /\ Last(s) \in S /\ s = Append(Front(s), Last(s))
<1> PICK n \in Nat \ {0} : n = Len(s)
  OBVIOUS
<1>1. Front(s) = [i \in 1..n - 1 |-> s[i]] /\ Last(s) = s[n]
  BY DEF Front, Last
<1>2. Front(s) \in Seq(S) /\ Len(Front(s)) = n - 1
  BY <1>1
<1>3. Len(Append(Front(s), Last(s))) = Len(s)
  BY <1>2
<1>4. \A i \in 1..n : s[i] = Append(Front(s), Last(s))[i]
  BY <1>1, <1>2
<1> QED
  BY <1>1, <1>2, <1>3, <1>4

LEMMA FollowsInString ==
    ASSUME NEW opener \in Openers, NEW p, NEW s, NEW c, Follows(s, p, opener),
           p.mode \in {"string", "escape"}, ReadChar(p, c).mode # "bad"
    PROVE  /\ Follows(ScanChar(s, c, opener), ReadChar(p, c), opener)
           /\ ScanChar(s, c, opener).i = s.i + 1
<1>1. p \in ReaderStates /\ s \in ScanStates /\ p.key \in BOOLEAN
  BY DEF Follows, ReaderStates
<1>2. /\ s.end = 0 /\ s.in_string /\ s.depth = Depth(p.stack, opener)
      /\ s.escape <=> p.mode = "escape"
  BY DEF Follows
<1>3. ScanChar(s, c, opener) =
        [s EXCEPT !.i = @ + 1, !.escape = ~s.escape /\ c = "escape",
                  !.in_string = s.escape \/ c # "quote"]
  BY <1>1, <1>2 DEF ScanChar, ScanStates
<1> PICK t : t = ScanChar(s, c, opener)
  OBVIOUS
<1>4. /\ t \in ScanStates /\ t.i = s.i + 1 /\ t.end = 0 /\ t.depth = s.depth
      /\ t.escape <=> ~s.escape /\ c = "escape"
      /\ t.in_string <=> s.escape \/ c # "quote"
  <2>1. t \in ScanStates
    BY <1>1, ScanCharType
  <2>2. t = [s EXCEPT !.i = @ + 1, !.escape = ~s.escape /\ c = "escape",
                      !.in_string = s.escape \/ c # "quote"]
    BY <1>3
  <2> QED
    BY <1>1, <1>2, <2>1, <2>2 DEF ScanStates
<1> PICK r : r = ReadChar(p, c)
  OBVIOUS
<1>5. \A mode \in Modes : /\ Moved(p, mode, p.key) \in ReaderStates
                          /\ Moved(p, mode, p.key).stack = p.stack
                          /\ Moved(p, mode, p.key).mode = mode
  BY <1>1, MovedType
<1>6. r = InString(p, c)
  BY DEF ReadChar
<1>7. r \in ReaderStates /\ r.mode # "bad"
  BY <1>1, ReadCharType
<1>8. /\ r.stack = p.stack
      /\ r.mode \in {"string", "escape"} <=> t.in_string
      /\ r.mode = "escape" <=> t.escape
  <2>1. CASE p.mode = "string" /\ c = "quote"
    <3>1. r = Moved(p, IF p.key THEN "colon" ELSE "after", p.key)
      BY <1>1, <1>6, <2>1 DEF InString, Moved
    <3> QED
      BY <1>1, <1>2, <1>4, <1>5, <2>1, <3>1 DEF Modes
  <2>2. CASE p.mode = "string" /\ c = "escape"
    <3>1. r = Moved(p, "escape", p.key)
      BY <1>1, <1>6, <2>2, InStringCases, <1>7, <1>5 DEF Modes
    <3> QED
      BY <1>1, <1>2, <1>4, <1>5, <2>2, <3>1 DEF Modes
  <2>3. CASE p.mode = "string" /\ c \notin {"quote", "escape"}
    <3>1. r = p
      BY <1>1, <1>6, <2>3, InStringCases, <1>7, <1>5 DEF Modes
    <3> QED
      BY <1>1, <1>2, <1>4, <2>3, <3>1
  <2>4. CASE p.mode = "escape"
    <3>1. r = Moved(p, "string", p.key)
      BY <1>1, <1>6, <2>4, InStringCases, <1>7, <1>5 DEF Modes
    <3> QED
      BY <1>1, <1>2, <1>4, <1>5, <2>4, <3>1 DEF Modes
  <2> QED
    BY <2>1, <2>2, <2>3, <2>4
<1> QED
  BY <1>2, <1>4, <1>7, <1>8 DEF Follows

LEMMA FollowsBetween ==
    ASSUME NEW opener \in Openers, NEW p, NEW s, NEW c, Follows(s, p, opener),
           p.mode \notin {"string", "escape"}, ReadChar(p, c).mode # "bad",
           ReadChar(p, c).stack # <<>>
    PROVE  /\ Follows(ScanChar(s, c, opener), ReadChar(p, c), opener)
           /\ ScanChar(s, c, opener).i = s.i + 1
<1>1. p \in ReaderStates /\ s \in ScanStates /\ p.stack \in Seq(Openers) /\ p.stack # <<>>
  BY DEF Follows, ReaderStates
<1>2. /\ s.end = 0 /\ ~s.in_string /\ ~s.escape /\ s.depth = Depth(p.stack, opener)
      /\ p.stack[1] = opener
  BY DEF Follows
<1> PICK t : t = ScanChar(s, c, opener)
  OBVIOUS
<1> PICK r : r = ReadChar(p, c)
  OBVIOUS
<1>3. t \in ScanStates /\ r \in ReaderStates /\ r.mode # "bad" /\ r.stack # <<>>
  BY <1>1, ScanCharType, ReadCharType
<1>4. r = Between(p, c)
  BY DEF ReadChar
<1>5. /\ "quote" \notin {opener, Closer[opener]} /\ opener # Closer[opener]
      /\ {"nl", "1", "colon"} \cap {"quote", opener, Closer[opener]} = {}
      /\ \A o \in Openers : /\ o # "quote" /\ o # Closer[opener] /\ Closer[o] # "quote" /\ Closer[o] # opener
                            /\ Closer[o] = Closer[opener] <=> o = opener
  BY DEF Openers, Closer
<1>6. /\ c = "quote" => t = [s EXCEPT !.i = @ + 1, !.in_string = TRUE]
      /\ c = opener => t = [s EXCEPT !.i = @ + 1, !.depth = @ + 1]
      /\ c = Closer[opener] /\ s.depth # 1 => t = [s EXCEPT !.i = @ + 1, !.depth = @ - 1, !.end = 0]
      /\ c \notin {"quote", opener, Closer[opener]} => t = [s EXCEPT !.i = @ + 1]
  <2>1. CASE c = "quote"
    BY <1>2, <1>5, <2>1 DEF ScanChar
  <2>2. CASE c = opener
    <3>1. t = [[s EXCEPT !.i = @ + 1] EXCEPT !.depth = @ + 1]
      BY <1>2, <1>5, <2>2 DEF ScanChar
    <3> QED
      BY <1>1, <1>5, <2>2, <3>1 DEF ScanStates
  <2>3. CASE c = Closer[opener]
    <3> DEFINE next == [s EXCEPT !.i = @ + 1]
    <3>1. t = [next EXCEPT !.depth = @ - 1, !.end = IF s.depth = 1 THEN next.i ELSE 0]
      <4> HIDE DEF next
      <4>1. ScanChar(s, c, opener) =
              [next EXCEPT !.depth = @ - 1, !.end = IF s.depth = 1 THEN next.i ELSE 0]
        BY <1>2, <1>5, <2>3 DEF ScanChar, next
      <4> QED BY <4>1
    <3> QED
      BY <1>1, <1>5, <2>3, <3>1 DEF ScanStates
  <2>4. CASE c \notin {"quote", opener, Closer[opener]}
    BY <1>2, <1>5, <2>4 DEF ScanChar
  <2> QED
    BY <1>5, <2>1, <2>2, <2>3, <2>4
<1>7. /\ t.i = s.i + 1 \/ (c = Closer[opener] /\ s.depth = 1)
      /\ c = "quote" => t.end = 0 /\ t.in_string /\ ~t.escape /\ t.depth = s.depth
      /\ c = opener => t.end = 0 /\ ~t.in_string /\ ~t.escape /\ t.depth = s.depth + 1
      /\ c = Closer[opener] /\ s.depth # 1 =>
           t.end = 0 /\ ~t.in_string /\ ~t.escape /\ t.depth = s.depth - 1
      /\ c \notin {"quote", opener, Closer[opener]} =>
           t.end = 0 /\ ~t.in_string /\ ~t.escape /\ t.depth = s.depth
  BY <1>1, <1>2, <1>6 DEF ScanStates
<1>8. \A mode \in Modes, key \in BOOLEAN : /\ Moved(p, mode, key).stack = p.stack
                                           /\ Moved(p, mode, key).mode = mode
  BY <1>1, MovedType
<1>9. \/ c = "nl" /\ r.stack = p.stack /\ r.mode \notin {"string", "escape"}
      \/ c \in Openers /\ r.stack = Append(p.stack, c) /\ r.mode = "opened"
      \/ c = "quote" /\ r.stack = p.stack /\ r.mode = "string"
      \/ c \in {"1", "colon"} /\ r.stack = p.stack /\ r.mode \in {"number", "value"}
      \/ c = Closer[Last(p.stack)] /\ r.stack = Front(p.stack) /\ r.mode = "after"
  <2>1. \/ c = "nl" /\ r = p
        \/ c = "nl" /\ p.mode = "number" /\ r = Moved(p, "after", FALSE)
        \/ c \in Openers /\ r = [stack |-> Append(p.stack, c), mode |-> "opened", key |-> FALSE]
        \/ c = "quote" /\ r \in {Moved(p, "string", FALSE), Moved(p, "string", TRUE)}
        \/ c = "1" /\ r = Moved(p, "number", FALSE)
        \/ c = "colon" /\ r = Moved(p, "value", FALSE)
        \/ /\ c = Closer[Last(p.stack)]
           /\ r = [stack |-> Front(p.stack), mode |-> "after", key |-> FALSE]
        \/ r = Moved(p, "bad", FALSE)
    BY <1>1, <1>4, BetweenCases
  <2>2. CASE c \in Openers /\ r = [stack |-> Append(p.stack, c), mode |-> "opened", key |-> FALSE]
    BY <2>2
  <2>3. CASE c = Closer[Last(p.stack)] /\ r = [stack |-> Front(p.stack), mode |-> "after", key |-> FALSE]
    BY <2>3
  <2>4. r # Moved(p, "bad", FALSE)
    BY <1>3, <1>8 DEF Modes
  <2>5. /\ Moved(p, "after", FALSE).stack = p.stack /\ Moved(p, "after", FALSE).mode = "after"
        /\ Moved(p, "string", FALSE).stack = p.stack /\ Moved(p, "string", FALSE).mode = "string"
        /\ Moved(p, "string", TRUE).stack = p.stack /\ Moved(p, "string", TRUE).mode = "string"
        /\ Moved(p, "number", FALSE).stack = p.stack /\ Moved(p, "number", FALSE).mode = "number"
        /\ Moved(p, "value", FALSE).stack = p.stack /\ Moved(p, "value", FALSE).mode = "value"
    BY <1>8 DEF Modes
  <2> QED
    BY <2>1, <2>2, <2>3, <2>4, <2>5
<1>10. r.stack[1] = opener /\ (r.mode \in {"string", "escape"} <=> c = "quote")
       /\ (c = Closer[opener] => s.depth # 1)
       /\ Depth(r.stack, opener) =
            Depth(p.stack, opener) + (IF c = opener THEN 1 ELSE 0)
                                   - (IF c = Closer[opener] THEN 1 ELSE 0)
  <2>1. Depth(p.stack, opener) \in Nat
    BY <1>1, DepthOf
  <2>2. CASE c \in Openers /\ r.stack = Append(p.stack, c) /\ r.mode = "opened"
    <3>1. r.stack[1] = opener
      BY <1>1, <1>2, <2>2
    <3>2. Depth(r.stack, opener) = Depth(p.stack, opener) + (IF c = opener THEN 1 ELSE 0)
      BY <1>1, <2>2, DepthOf
    <3> QED
      BY <1>5, <2>1, <2>2, <3>1, <3>2
  <2>3. CASE c = Closer[Last(p.stack)] /\ r.stack = Front(p.stack) /\ r.mode = "after"
    <3>1. PICK front \in Seq(Openers), last \in Openers :
            p.stack = Append(front, last) /\ front = r.stack /\ last = Last(p.stack)
      BY <1>1, <2>3, FrontAndLast
    <3>2. front # <<>> /\ front[1] = opener
      BY <1>2, <1>3, <3>1
    <3>3. Depth(p.stack, opener) = Depth(front, opener) + (IF last = opener THEN 1 ELSE 0)
      BY <3>1, DepthOf
    <3>4. Depth(front, opener) > 0 /\ Depth(front, opener) \in Nat
      BY <3>2, DepthOf, DepthOfOpen
    <3>5. c = Closer[opener] <=> last = opener
      BY <1>5, <2>3, <3>1
    <3>6. c # opener /\ c # "quote"
      BY <1>5, <2>3, <3>1
    <3> QED
      BY <1>2, <2>3, <3>1, <3>2, <3>3, <3>4, <3>5, <3>6
  <2>4. CASE c \notin Openers /\ c # Closer[opener] /\ r.stack = p.stack /\ (r.mode \in {"string", "escape"} <=> c = "quote")
    BY <1>2, <2>1, <2>4
  <2>5. c \in {"nl", "quote", "1", "colon"} => c \notin Openers /\ c # Closer[opener]
    BY DEF Openers, Closer
  <2> QED
    BY <1>9, <2>2, <2>3, <2>4, <2>5
<1>11. Depth(r.stack, opener) = t.depth
  <2>1. Depth(p.stack, opener) \in Nat
    BY <1>1, DepthOf
  <2> QED
    BY <1>2, <1>7, <1>5, <1>10, <2>1
<1>12. t.end = 0 /\ t.i = s.i + 1 /\ ~t.escape /\ (t.in_string <=> c = "quote")
  BY <1>7, <1>5, <1>10
<1>13. r.mode # "escape"
  BY <1>9
<1> QED
  BY <1>3, <1>10, <1>11, <1>12, <1>13 DEF Follows

\* Where json.loads closes the first bracket, the loop ends.
LEMMA FollowsToTheEnd ==
    ASSUME NEW opener \in Openers, NEW p, NEW s, NEW c, Follows(s, p, opener),
           ReadChar(p, c).mode # "bad", ReadChar(p, c).stack = <<>>
    PROVE  ScanChar(s, c, opener).end = s.i + 1
<1>1. p \in ReaderStates /\ s \in ScanStates /\ p.stack \in Seq(Openers) /\ p.stack # <<>>
  BY DEF Follows, ReaderStates
<1>2. s.end = 0 /\ s.depth = Depth(p.stack, opener) /\ p.stack[1] = opener
  BY DEF Follows
<1> PICK r : r = ReadChar(p, c)
  OBVIOUS
<1>3. p.mode \notin {"string", "escape"}
  <2>1. p.mode \in {"string", "escape"} => Follows(ScanChar(s, c, opener), r, opener)
    BY FollowsInString
  <2> QED
    BY <2>1 DEF Follows
<1>4. r = Between(p, c)
  BY <1>3 DEF ReadChar
<1>5. c = Closer[Last(p.stack)] /\ Front(p.stack) = <<>>
  <2>1. /\ Moved(p, "after", FALSE).stack = p.stack
        /\ Moved(p, "string", FALSE).stack = p.stack /\ Moved(p, "string", TRUE).stack = p.stack
        /\ Moved(p, "number", FALSE).stack = p.stack /\ Moved(p, "value", FALSE).stack = p.stack
        /\ Moved(p, "bad", FALSE).stack = p.stack
    BY <1>1, MovedType DEF Modes
  <2>2. \/ r \in {p, Moved(p, "string", FALSE), Moved(p, "string", TRUE), Moved(p, "number", FALSE),
                  Moved(p, "value", FALSE), Moved(p, "after", FALSE), Moved(p, "bad", FALSE)}
        \/ r = [stack |-> Append(p.stack, c), mode |-> "opened", key |-> FALSE]
        \/ /\ c = Closer[Last(p.stack)]
           /\ r = [stack |-> Front(p.stack), mode |-> "after", key |-> FALSE]
    BY <1>1, <1>4, BetweenCases
  <2>3. r \notin {p, Moved(p, "string", FALSE), Moved(p, "string", TRUE), Moved(p, "number", FALSE),
                  Moved(p, "value", FALSE), Moved(p, "after", FALSE), Moved(p, "bad", FALSE)}
    BY <1>1, <2>1
  <2>4. r # [stack |-> Append(p.stack, c), mode |-> "opened", key |-> FALSE]
    <3>1. Append(p.stack, c) # <<>>
      BY <1>1
    <3> QED
      BY <3>1
  <2>5. r = [stack |-> Front(p.stack), mode |-> "after", key |-> FALSE] => Front(p.stack) = <<>>
    OBVIOUS
  <2> QED
    BY <2>2, <2>3, <2>4, <2>5
<1>6. p.stack = <<opener>>
  <2>1. PICK last \in Openers : p.stack = Append(<<>>, last)
    BY <1>1, <1>5, FrontAndLast
  <2> QED
    BY <1>2, <2>1
<1>7. c = Closer[opener] /\ s.depth = 1
  <2>1. Last(<<opener>>) = opener
    BY DEF Last
  <2> QED
    BY <1>2, <1>5, <1>6, <2>1, DepthOfOne
<1>8. ~s.in_string /\ c # "quote" /\ c # opener
  BY <1>3, <1>7 DEF Follows, Openers, Closer
<1> DEFINE next == [s EXCEPT !.i = @ + 1]
<1>9. ScanChar(s, c, opener) = [next EXCEPT !.depth = @ - 1, !.end = next.i]
  BY <1>2, <1>7, <1>8 DEF ScanChar
<1> QED
  BY <1>1, <1>9 DEF ScanStates

\* A character that json.loads accepts inside of the block keeps them together.
LEMMA FollowsOn ==
    ASSUME NEW opener \in Openers, NEW p, NEW s, NEW c, Follows(s, p, opener),
           ReadChar(p, c).mode # "bad", ReadChar(p, c).stack # <<>>
    PROVE  /\ Follows(ScanChar(s, c, opener), ReadChar(p, c), opener)
           /\ ScanChar(s, c, opener).i = s.i + 1
<1>1. CASE p.mode \in {"string", "escape"}
  BY <1>1, FollowsInString
<1>2. CASE p.mode \notin {"string", "escape"}
  BY <1>2, FollowsBetween
<1> QED
  BY <1>1, <1>2

\* Whatever comes after a block of JSON, the loop ends where the block does.
LEMMA ScanOfBlock ==
    ASSUME NEW opener \in Openers, NEW object \in Seq(Chars), IsBlock(object, opener),
           NEW after \in Seq(Chars)
    PROVE  Scanning(object \o after, opener)[Len(object \o after)].end = Len(object)
<1>1. \A p, s, c :
        Follows(s, p, opener) /\ ReadChar(p, c).mode # "bad" /\ ReadChar(p, c).stack # <<>> =>
        Follows(ScanChar(s, c, opener), ReadChar(p, c), opener) /\ ScanChar(s, c, opener).i = s.i + 1
  BY FollowsOn
<1>2. object \o after \in Seq(Chars)
  BY ConcatProperties
<1> PICK text \in Seq(Chars) : text = object \o after
  BY <1>2
<1> PICK n \in Nat : n = Len(object)
  OBVIOUS
<1> PICK N \in Nat : N = Len(text) /\ n <= N
  OBVIOUS
<1>3. \A i \in 1..n : text[i] = object[i] /\ i \in 1..N
  OBVIOUS
<1> PICK scan : scan = Scanning(text, opener)
  OBVIOUS
<1> PICK read : read = Reading(object)
  OBVIOUS
<1>4. /\ scan \in [0..N -> ScanStates] /\ scan[0] = AtOpener
      /\ \A i \in 1..N : scan[i] = ScanChar(scan[i - 1], text[i], opener)
  BY ScannedByChar
<1>5. /\ read \in [0..n -> ReaderStates] /\ read[0] = NothingRead
      /\ \A i \in 1..n : read[i] = ReadChar(read[i - 1], object[i])
  BY ReadByChar
<1>6. /\ n > 1 /\ object[1] = opener /\ object[n] = Closer[opener]
      /\ read[1] = [stack |-> <<opener>>, mode |-> "opened", key |-> FALSE]
      /\ read[n].stack = <<>>
      /\ \A i \in 0..n : read[i].mode # "bad"
      /\ \A i \in 1..n - 1 : read[i].stack # <<>>
  BY InsideBlock
<1>7. n > 1
  BY <1>6
<1>8. n - 1 \in Nat
  BY <1>7
<1> PICK m \in Nat : m = n - 1
  BY <1>8
<1>9. m \in 1..n /\ m \in 1..N /\ m \in 0..n /\ n \in 1..N
  BY <1>6
<1> DEFINE T == {i \in 1..m : Follows(scan[i], read[i], opener) /\ scan[i].i = i}
<1>10. 1 \in T
  <2>1. scan[1] = ScanChar(AtOpener, opener, opener)
    BY <1>3, <1>4, <1>6
  <2>2. opener # "quote" /\ opener # Closer[opener]
    BY DEF Openers, Closer
  <2>3. /\ AtOpener.i = 0 /\ AtOpener.end = 0 /\ AtOpener.depth = 0
        /\ ~AtOpener.in_string /\ ~AtOpener.escape /\ AtOpener \in ScanStates
    BY DEF AtOpener, ScanStates
  <2>4. ScanChar(AtOpener, opener, opener) =
          [[AtOpener EXCEPT !.i = @ + 1] EXCEPT !.depth = @ + 1]
    BY <2>2, <2>3 DEF ScanChar
  <2>5. /\ scan[1].i = 1 /\ scan[1].end = 0 /\ scan[1].depth = 1
        /\ ~scan[1].in_string /\ ~scan[1].escape
    BY <2>1, <2>4, <2>3 DEF ScanStates
  <2>6. read[1].mode = "opened" /\ read[1].stack = <<opener>> /\ <<opener>> # <<>> /\ <<opener>>[1] = opener
    BY <1>6
  <2>7. 1 \in 0..N /\ 1 \in 0..n
    BY <1>6
  <2>8. scan[1] \in ScanStates /\ read[1] \in ReaderStates
    BY <1>4, <1>5, <2>7
  <2>9. Follows(scan[1], read[1], opener)
    BY <2>5, <2>6, <2>8, DepthOfOne DEF Follows
  <2> QED
    BY <1>6, <2>5, <2>9
<1>11. ASSUME NEW i \in 1..m - 1, i \in T PROVE i + 1 \in T
  <2> PICK k \in 1..m : k = i + 1 /\ k - 1 = i /\ k \in 1..N /\ k \in 1..n /\ k \in 0..n /\ k \in 1..n - 1
    OBVIOUS
  <2>1. scan[k] = ScanChar(scan[i], object[k], opener) /\ read[k] = ReadChar(read[i], object[k])
    BY <1>3, <1>4, <1>5
  <2>2. read[k].mode # "bad" /\ read[k].stack # <<>>
    BY <1>6
  <2>3. Follows(scan[i], read[i], opener) /\ scan[i].i = i
    BY <1>11
  <2>4. Follows(scan[k], read[k], opener) /\ scan[k].i = scan[i].i + 1
    <3>1. ReadChar(read[i], object[k]).mode # "bad" /\ ReadChar(read[i], object[k]).stack # <<>>
      BY <2>1, <2>2
    <3> PICK p : p = read[i]
      OBVIOUS
    <3> PICK s : s = scan[i]
      OBVIOUS
    <3> PICK c : c = object[k]
      OBVIOUS
    <3>2. Follows(s, p, opener) /\ ReadChar(p, c).mode # "bad" /\ ReadChar(p, c).stack # <<>>
      BY <2>3, <3>1
    <3>3. /\ Follows(ScanChar(s, c, opener), ReadChar(p, c), opener)
          /\ ScanChar(s, c, opener).i = s.i + 1
      BY <1>1, <3>2
    <3> QED
      BY <2>1, <3>3
  <2> QED
    BY <2>3, <2>4
<1>12. m \in T
  <2> HIDE DEF T
  <2>1. \A i \in 1..m : i \in T
    BY <1>10, <1>11, Induction
  <2>2. m \in 1..m
    BY <1>9
  <2> QED
    BY <2>1, <2>2
<1>13. scan[n].end = n
  <2>1. Follows(scan[m], read[m], opener) /\ scan[m].i = m
    BY <1>12
  <2>2. scan[n] = ScanChar(scan[m], object[n], opener) /\ read[n] = ReadChar(read[m], object[n])
    BY <1>3, <1>4, <1>5
  <2>3. read[n].mode # "bad"
    BY <1>6
  <2>4. scan[n].end = scan[m].i + 1
    BY <1>6, <2>1, <2>2, <2>3, FollowsToTheEnd
  <2> QED
    BY <2>1, <2>4
<1> DEFINE Ended == {s \in ScanStates : s.end = n}
<1>14. ASSUME NEW i \in n..N - 1, scan[i] \in Ended PROVE scan[i + 1] \in Ended
  <2> PICK k \in 1..N : k = i + 1 /\ k - 1 = i
    OBVIOUS
  <2>1. scan[k] = ScanChar(scan[i], text[k], opener)
    BY <1>4
  <2>2. ScanChar(scan[i], text[k], opener) = scan[i]
    BY <1>6, <1>14 DEF ScanChar
  <2> QED
    BY <1>14, <2>1, <2>2
<1>15. scan[n] \in Ended
  BY <1>4, <1>13
<1>16. scan[N] \in Ended
  <2> HIDE DEF Ended
  <2>1. n \in 0..N
    OBVIOUS
  <2> QED
    BY <1>14, <1>15, <2>1, HoldsAtTheEnd
<1> QED
  BY <1>16

LEMMA NoBlock ==
    ASSUME NEW text, NEW opener, opener \notin Range(text)
    PROVE  Block(text, opener) = <<>>
BY DEF Block

LEMMA DropsFirst ==
    ASSUME NEW S, NEW s \in Seq(S), NEW t \in Seq(S)
    PROVE  SubSeq(s \o t, Len(s) + 1, Len(s \o t)) = t
<1> PICK m \in Nat : m = Len(s)
  OBVIOUS
<1> PICK n \in Nat : n = Len(t)
  OBVIOUS
<1> PICK st : st = s \o t
  OBVIOUS
<1>1. st \in Seq(S) /\ Len(st) = m + n
  BY ConcatProperties
<1>2. \A i \in 1..n : st[m + i] = t[i]
  OBVIOUS
<1> PICK rest : rest = SubSeq(st, m + 1, m + n)
  OBVIOUS
<1>3. rest \in Seq(S) /\ Len(rest) = n /\ \A i \in 1..n : rest[i] = st[m + i]
  BY <1>1
<1>4. \A i \in 1..n : rest[i] = t[i]
  BY <1>3, <1>2
<1>5. rest = t
  BY <1>3, <1>4, SeqEqual
<1> QED
  BY <1>1, <1>5

\* The block is found behind any text that does not have its opener.
LEMMA BlockFound ==
    ASSUME NEW opener \in Openers, NEW object \in Seq(Chars), IsBlock(object, opener),
           NEW before \in Seq(Chars), opener \notin Range(before), NEW after \in Seq(Chars)
    PROVE  Block(before \o object \o after, opener) = object
<1>1. before \o object \in Seq(Chars) /\ before \o object \o after \in Seq(Chars)
      /\ object \o after \in Seq(Chars)
  <2>1. before \o object \in Seq(Chars)
    BY ConcatProperties
  <2> QED
    BY <2>1, ConcatProperties
<1> PICK text \in Seq(Chars) : text = before \o object \o after
  BY <1>1
<1> PICK m \in Nat : m = Len(before)
  OBVIOUS
<1> PICK n \in Nat : n = Len(object)
  OBVIOUS
<1> PICK N \in Nat : N = Len(text) /\ N = m + n + Len(after)
  OBVIOUS
<1>2. n > 1 /\ object[1] = opener
  BY InsideBlock
<1>3. /\ \A i \in 1..m : text[i] = before[i] /\ text[i] # opener
      /\ m + 1 \in 1..N /\ text[m + 1] = opener
  <2>1. \A i \in 1..m : text[i] = before[i] /\ before[i] \in Range(before)
    <3>1. \A i \in 1..m : i \in DOMAIN before
      OBVIOUS
    <3>2. \A i \in 1..m : text[i] = before[i]
      OBVIOUS
    <3> QED
      BY <3>1, <3>2 DEF Range
  <2>2. m + 1 \in 1..N /\ text[m + 1] = object[1]
    BY <1>2
  <2> QED
    BY <1>2, <2>1, <2>2
<1>4. opener \in Range(text)
  <2>1. DOMAIN text = 1..N
    OBVIOUS
  <2> QED
    BY <1>3, <2>1 DEF Range
<1>5. Min({i \in DOMAIN text : text[i] = opener}) = m + 1
  <2> DEFINE at == {i \in DOMAIN text : text[i] = opener}
  <2>1. m + 1 \in at /\ \A i \in at : m + 1 <= i /\ i \in Nat
    BY <1>3
  <2> HIDE DEF at
  <2>2. \A k \in at : (\A i \in at : k <= i) <=> k = m + 1
    BY <2>1
  <2>3. Min(at) = m + 1
    BY <2>1, <2>2 DEF Min
  <2> QED
    BY <2>3 DEF at
<1>6. SubSeq(text, m + 1, N) = object \o after
  <2>1. text = before \o (object \o after)
    OBVIOUS
  <2>2. SubSeq(before \o (object \o after), Len(before) + 1, Len(before \o (object \o after))) =
          object \o after
    BY <1>1, DropsFirst
  <2> QED
    BY <2>1, <2>2
<1>7. SubSeq(object \o after, 1, n) = object
  OBVIOUS
<1>8. Block(text, opener) =
        SubSeq(object \o after, 1, Scanning(object \o after, opener)[Len(object \o after)].end)
  BY <1>4, <1>5, <1>6 DEF Block
<1> QED
  BY <1>7, <1>8, ScanOfBlock

LEMMA FenceRead ==
    ASSUME NEW p \in ReaderStates, ReadChar(p, "fence").mode # "bad"
    PROVE  p.mode = "string" /\ ReadChar(p, "fence") = p
<1>1. p.key \in BOOLEAN
  BY DEF ReaderStates
<1>2. Moved(p, "bad", FALSE).mode = "bad" /\ Moved(p, "bad", p.key).mode = "bad"
  BY <1>1, MovedType DEF Modes
<1>3. CASE p.mode \in {"string", "escape"}
  BY <1>2, <1>3, InStringCases DEF ReadChar
<1>4. CASE p.mode \notin {"string", "escape"}
  <2>1. "fence" \notin {"nl", "quote", "1", "colon"} \cup Openers
    BY DEF Openers
  <2>2. ASSUME p.stack # <<>>, "fence" = Closer[Last(p.stack)] PROVE FALSE
    <3>1. Last(p.stack) \in Openers
      BY <2>2, FrontAndLast DEF ReaderStates
    <3> QED
      BY <2>2, <3>1 DEF Closer, Openers
  <2>3. Between(p, "fence") = Moved(p, "bad", FALSE)
    BY <2>1, <2>2, BetweenCases
  <2> QED
    BY <1>2, <1>4, <2>3 DEF ReadChar
<1> QED
  BY <1>3, <1>4

LEMMA NewlineRead ==
    ASSUME NEW p \in ReaderStates, ReadChar(p, "nl").mode # "bad"
    PROVE  p.mode \notin {"string", "escape"} /\ ReadChar(p, "nl").mode # "string"
<1>1. p.key \in BOOLEAN
  BY DEF ReaderStates
<1>2. Moved(p, "bad", p.key).mode = "bad" /\ Moved(p, "after", FALSE).mode = "after"
  BY <1>1, MovedType DEF Modes
<1>3. CASE p.mode \in {"string", "escape"}
  BY <1>2, <1>3, InStringCases DEF ReadChar
<1>4. CASE p.mode \notin {"string", "escape"}
  <2>1. "nl" \notin {"quote", "1", "colon"} \cup Openers
    BY DEF Openers
  <2>2. ASSUME p.stack # <<>>, "nl" = Closer[Last(p.stack)] PROVE FALSE
    <3>1. Last(p.stack) \in Openers
      BY <2>2, FrontAndLast DEF ReaderStates
    <3> QED
      BY <2>2, <3>1 DEF Closer, Openers
  <2>3. Between(p, "nl") \in {p, Moved(p, "after", FALSE), Moved(p, "bad", FALSE)}
    BY <2>1, <2>2, BetweenCases
  <2>4. Moved(p, "bad", FALSE).mode = "bad"
    BY MovedType DEF Modes
  <2> QED
    BY <1>2, <1>4, <2>3, <2>4 DEF ReadChar
<1> QED
  BY <1>3, <1>4

\* _CODE_FENCE matches nothing inside of JSON: a fence would be in a string, where
\* no line begins or ends.
LEMMA NoFence ==
    ASSUME NEW opener \in Openers, NEW object \in Seq(Chars), IsBlock(object, opener),
           NEW before \in Seq(Chars), NEW after \in Seq(Chars), NEW i \in 1..Len(object)
    PROVE  ~Fenced(before \o object \o after, Len(before) + i)
<1> PICK text : text = before \o object \o after
  OBVIOUS
<1> PICK m \in Nat : m = Len(before)
  OBVIOUS
<1> PICK n \in Nat : n = Len(object)
  OBVIOUS
<1>1. SUFFICES ASSUME Fenced(text, m + i) PROVE FALSE
  OBVIOUS
<1>2. /\ \A k \in 1..n : text[m + k] = object[k]
      /\ Len(text) = m + n + Len(after)
  OBVIOUS
<1> PICK read : read = Reading(object)
  OBVIOUS
<1>3. /\ read \in [0..n -> ReaderStates]
      /\ \A k \in 1..n : read[k] = ReadChar(read[k - 1], object[k])
  BY ReadByChar
<1>4. /\ n > 1 /\ object[1] = opener /\ object[n] = Closer[opener]
      /\ \A k \in 0..n : read[k].mode # "bad"
  BY InsideBlock
<1>5. object[i] = "fence"
  BY <1>1, <1>2 DEF Fenced
<1>6. "fence" # opener /\ "fence" # Closer[opener]
  BY DEF Openers, Closer
<1>7. i # 1 /\ i # n
  BY <1>4, <1>5, <1>6
<1>8. /\ i - 1 \in 1..n /\ i + 1 \in 1..n /\ i \in 0..n /\ i - 1 \in 0..n /\ i + 1 \in 0..n
      /\ i - 1 - 1 \in 0..n /\ i + 1 - 1 = i
  BY <1>7
<1>9. read[i - 1].mode = "string" /\ read[i] = read[i - 1]
  <2>1. read[i] = ReadChar(read[i - 1], "fence") /\ read[i].mode # "bad" /\ read[i - 1] \in ReaderStates
    BY <1>3, <1>4, <1>5, <1>8
  <2> QED
    BY <2>1, FenceRead
<1>10. object[i + 1] # "nl"
  <2> PICK j \in 1..n : j = i + 1 /\ j - 1 = i
    BY <1>8
  <2>1. read[j] = ReadChar(read[j - 1], object[j])
    BY <1>3
  <2>2. read[j].mode # "bad" /\ read[i] \in ReaderStates
    BY <1>3, <1>4, <1>8
  <2> QED
    BY <1>9, <2>1, <2>2, NewlineRead
<1>11. object[i - 1] # "nl"
  <2> PICK j \in 1..n : j = i - 1 /\ j - 1 \in 0..n
    BY <1>8
  <2>1. /\ read[j] = ReadChar(read[j - 1], object[j])
        /\ read[j].mode # "bad" /\ read[j - 1] \in ReaderStates
    BY <1>3, <1>4, <1>8
  <2> QED
    BY <1>9, <2>1, NewlineRead
<1>12. text[m + i - 1] = object[i - 1] /\ text[m + i + 1] = object[i + 1]
  <2>1. m + (i - 1) = m + i - 1 /\ m + (i + 1) = m + i + 1
    OBVIOUS
  <2> QED
    BY <1>2, <1>8, <2>1
<1>13. m + i # 1 /\ m + i # Len(text)
  BY <1>2, <1>7
<1> QED
  BY <1>1, <1>10, <1>11, <1>12, <1>13 DEF Fenced

\* What Cleaned does with one more character.
KeptOf(text, kept) ==
    /\ kept \in [0..Len(text) -> Seq(Chars)]
    /\ kept[0] = <<>>
    /\ \A i \in 1..Len(text) :
         kept[i] = IF Fenced(text, i) THEN kept[i - 1] ELSE Append(kept[i - 1], text[i])
    /\ Cleaned(text) = kept[Len(text)]

LEMMA Kept ==
    ASSUME NEW text \in Seq(Chars)
    PROVE  \E kept : KeptOf(text, kept)
<1> PICK n \in Nat : n = Len(text)
  OBVIOUS
<1> DEFINE Next1(i, before) == IF Fenced(text, i) THEN before ELSE Append(before, text[i])
           Defines(f) == f = [i \in 0..n |-> IF i = 0 THEN <<>> ELSE Next1(i, f[i - 1])]
<1>1. <<>> \in Seq(Chars)
  OBVIOUS
<1>2. ASSUME NEW i \in 1..n, NEW before \in Seq(Chars)
      PROVE  Next1(i, before) \in Seq(Chars)
  <2>1. text[i] \in Chars
    OBVIOUS
  <2>2. Append(before, text[i]) \in Seq(Chars)
    BY <2>1
  <2> QED
    BY <2>2
<1> HIDE DEF Next1
<1>3. PICK step : step = [i \in 1..n |-> [before \in Seq(Chars) |-> Next1(i, before)]]
  OBVIOUS
<1>4. /\ step \in [1..n -> [Seq(Chars) -> Seq(Chars)]]
      /\ \A i \in 1..n, before \in Seq(Chars) : step[i][before] = Next1(i, before)
  BY <1>2, <1>3
<1>5. PICK f \in [0..n -> Seq(Chars)] :
        f[0] = <<>> /\ \A i \in 1..n : f[i] = step[i][f[i - 1]]
  <2>1. HasRun(n, Seq(Chars), <<>>, step)
    BY <1>1, <1>4, RunExists
  <2> QED
    BY <2>1 DEF HasRun
<1>6. ASSUME NEW i \in 1..n PROVE f[i] = Next1(i, f[i - 1])
  <2>1. f[i - 1] \in Seq(Chars) /\ f[i] = step[i][f[i - 1]]
    BY <1>5
  <2> QED
    BY <1>4, <2>1
<1>7. Defines(f)
  BY <1>5, <1>6
<1> DEFINE kept == CHOOSE g : Defines(g)
<1>8. Defines(kept)
  <2> HIDE DEF Defines
  <2> QED BY <1>7
<1> HIDE DEF kept
<1>9. /\ DOMAIN kept = 0..n /\ kept[0] = <<>>
      /\ \A i \in 1..n : kept[i] = Next1(i, kept[i - 1])
      /\ kept = [i \in 0..n |-> kept[i]]
  <2> PICK k : k = [i \in 0..n |-> IF i = 0 THEN <<>> ELSE Next1(i, kept[i - 1])]
    OBVIOUS
  <2>1. kept = k
    BY <1>8
  <2>2. DOMAIN k = 0..n /\ k[0] = <<>> /\ \A i \in 1..n : k[i] = Next1(i, kept[i - 1])
    OBVIOUS
  <2>3. k = [i \in 0..n |-> k[i]]
    OBVIOUS
  <2> QED
    BY <2>1, <2>2, <2>3
<1>10. \A i \in 0..n : kept[i] \in Seq(Chars)
  <2>1. \A i \in 1..n : kept[i - 1] \in Seq(Chars) => kept[i] \in Seq(Chars)
    BY <1>2, <1>9
  <2>2. kept[0] \in Seq(Chars)
    BY <1>1, <1>9
  <2> PICK f1 : f1 = kept
    OBVIOUS
  <2>3. \A i \in 0..n : f1[i] \in Seq(Chars)
    BY <2>1, <2>2, RunTyped
  <2> QED
    BY <2>3
<1>11. Cleaned(text) = kept[n]
  BY DEF Cleaned, kept, Next1
<1>12. KeptOf(text, kept)
  BY <1>9, <1>10, <1>11 DEF KeptOf, Next1
<1> QED
  BY <1>12

LEMMA RangeAppend ==
    ASSUME NEW s \in Seq(Chars), NEW c \in Chars
    PROVE  Range(Append(s, c)) = Range(s) \cup {c}
<1> PICK n \in Nat : n = Len(s) /\ DOMAIN s = 1..n
  OBVIOUS
<1> PICK t : t = Append(s, c)
  OBVIOUS
<1>1. DOMAIN t = 1..n + 1 /\ t[n + 1] = c /\ \A i \in 1..n : t[i] = s[i]
  OBVIOUS
<1>2. 1..n + 1 = (1..n) \cup {n + 1}
  OBVIOUS
<1> QED
  BY <1>1, <1>2 DEF Range

LEMMA ConcatAppend ==
    ASSUME NEW s \in Seq(Chars), NEW t \in Seq(Chars), NEW c \in Chars
    PROVE  Append(s \o t, c) = s \o Append(t, c)
<1> PICK a : a = Append(s \o t, c)
  OBVIOUS
<1> PICK b : b = s \o Append(t, c)
  OBVIOUS
<1>1. a \in Seq(Chars) /\ b \in Seq(Chars) /\ Len(a) = Len(b)
  OBVIOUS
<1>2. \A i \in 1..Len(a) : a[i] = b[i]
  OBVIOUS
<1> QED
  BY <1>1, <1>2, SeqEqual

LEMMA SubSeqAppend ==
    ASSUME NEW s \in Seq(Chars), NEW i \in 1..Len(s)
    PROVE  SubSeq(s, 1, i) = Append(SubSeq(s, 1, i - 1), s[i])
<1> PICK a : a = SubSeq(s, 1, i)
  OBVIOUS
<1> PICK b : b = Append(SubSeq(s, 1, i - 1), s[i])
  OBVIOUS
<1>1. a \in Seq(Chars) /\ b \in Seq(Chars) /\ Len(a) = i /\ Len(b) = i
  OBVIOUS
<1>2. \A j \in 1..i : a[j] = b[j]
  OBVIOUS
<1> QED
  BY <1>1, <1>2, SeqEqual

LEMMA RangeConcat ==
    ASSUME NEW s \in Seq(Chars), NEW t \in Seq(Chars)
    PROVE  Range(s \o t) = Range(s) \cup Range(t)
<1> PICK m \in Nat : m = Len(s) /\ DOMAIN s = 1..m
  OBVIOUS
<1> PICK n \in Nat : n = Len(t) /\ DOMAIN t = 1..n
  OBVIOUS
<1> PICK st : st = s \o t
  OBVIOUS
<1>1. DOMAIN st = 1..m + n /\ \A i \in 1..m : st[i] = s[i] /\ i \in 1..m + n
  OBVIOUS
<1>2. \A i \in 1..n : st[m + i] = t[i] /\ m + i \in 1..m + n
  OBVIOUS
<1>3. ASSUME NEW c \in Range(st) PROVE c \in Range(s) \cup Range(t)
  <2> PICK i \in 1..m + n : c = st[i]
    BY <1>1, <1>3 DEF Range
  <2>1. CASE i \in 1..m
    BY <1>1, <2>1 DEF Range
  <2>2. CASE i \notin 1..m
    <3> PICK j \in 1..n : i = m + j
      <4>1. i - m \in 1..n /\ i = m + (i - m)
        BY <2>2
      <4> QED BY <4>1
    <3>1. c = t[j]
      BY <1>2
    <3> QED
      BY <3>1 DEF Range
  <2> QED
    BY <2>1, <2>2
<1>4. ASSUME NEW c \in Range(s) PROVE c \in Range(st)
  <2> PICK i \in 1..m : c = s[i]
    BY <1>4 DEF Range
  <2> QED
    BY <1>1 DEF Range
<1>5. ASSUME NEW c \in Range(t) PROVE c \in Range(st)
  <2> PICK j \in 1..n : c = t[j]
    BY <1>5 DEF Range
  <2> PICK k \in 1..m + n : k = m + j
    BY <1>2
  <2>1. c = st[k]
    BY <1>2
  <2> QED
    BY <1>1, <2>1 DEF Range
<1> QED
  BY <1>3, <1>4, <1>5

\* The text is the object, with what remains of the text around it.
CleanedTo(text, before, object, after, p, q) ==
    /\ p \in Seq(Chars) /\ Range(p) \subseteq Range(before)
    /\ q \in Seq(Chars) /\ Range(q) \subseteq Range(after)
    /\ text = p \o object \o q

Collects(t, start, s) ==
    \E q \in Seq(Chars) : t = start \o q /\ Range(q) \subseteq Range(s)

LEMMA CollectsNothing ==
    ASSUME NEW start \in Seq(Chars), NEW s
    PROVE  Collects(start, start, s)
<1>1. start = start \o <<>>
  BY ConcatEmptySeq
<1>2. Range(<<>>) \subseteq Range(s) /\ <<>> \in Seq(Chars)
  BY DEF Range
<1> QED
  BY <1>1, <1>2 DEF Collects

LEMMA CollectsMore ==
    ASSUME NEW start \in Seq(Chars), NEW s, NEW t, Collects(t, start, s),
           NEW c \in Chars, c \in Range(s)
    PROVE  Collects(Append(t, c), start, s)
<1> PICK q \in Seq(Chars) : t = start \o q /\ Range(q) \subseteq Range(s)
  BY DEF Collects
<1>1. Append(start \o q, c) = start \o Append(q, c)
  BY ConcatAppend
<1>2. Range(Append(q, c)) = Range(q) \cup {c}
  BY RangeAppend
<1>3. Append(q, c) \in Seq(Chars)
  BY AppendProperties
<1> QED
  BY <1>1, <1>2, <1>3 DEF Collects

LEMMA Collected ==
    ASSUME NEW s \in Seq(Chars), NEW n \in Nat, n = Len(s),
           NEW start \in Seq(Chars), NEW f, f[0] = start,
           \A i \in 1..n : f[i] = f[i - 1] \/ f[i] = Append(f[i - 1], s[i])
    PROVE  Collects(f[n], start, s)
<1> DEFINE T == {i \in 0..n : Collects(f[i], start, s)}
<1>1. 0 \in T
  BY CollectsNothing
<1>2. ASSUME NEW i \in 0..n - 1, i \in T PROVE i + 1 \in T
  <2> PICK k \in 1..n : k = i + 1 /\ k - 1 = i
    OBVIOUS
  <2>1. s[k] \in Chars /\ s[k] \in Range(s)
    BY DEF Range
  <2>2. Collects(f[i], start, s)
    BY <1>2
  <2>3. f[k] = f[i] \/ f[k] = Append(f[i], s[k])
    OBVIOUS
  <2>4. Collects(Append(f[i], s[k]), start, s)
    BY <2>1, <2>2, CollectsMore
  <2>5. Collects(f[k], start, s)
    BY <2>2, <2>3, <2>4
  <2> QED
    BY <2>5
<1> HIDE DEF T
<1>3. n \in T
  <2>1. \A i \in 0..n : i \in T
    BY <1>1, <1>2, Induction
  <2> QED
    BY <2>1
<1> QED
  BY <1>3 DEF T

LEMMA CopiesMore ==
    ASSUME NEW s \in Seq(Chars), NEW start \in Seq(Chars), NEW k \in 1..Len(s)
    PROVE  Append(start \o SubSeq(s, 1, k - 1), s[k]) = start \o SubSeq(s, 1, k)
<1>1. SubSeq(s, 1, k - 1) \in Seq(Chars) /\ s[k] \in Chars
  OBVIOUS
<1>2. SubSeq(s, 1, k) = Append(SubSeq(s, 1, k - 1), s[k])
  BY SubSeqAppend
<1> QED
  BY <1>1, <1>2, ConcatAppend, ZenonT(60)

Copies(t, start, s) == t = start \o s

LEMMA Copied ==
    ASSUME NEW s \in Seq(Chars), NEW n \in Nat, n = Len(s),
           NEW start \in Seq(Chars), NEW f, f[0] = start,
           \A i \in 1..n : f[i] = Append(f[i - 1], s[i])
    PROVE  Copies(f[n], start, s)
<1> DEFINE T == {i \in 0..n : f[i] = start \o SubSeq(s, 1, i)}
<1>1. 0 \in T
  <2>1. SubSeq(s, 1, 0) = <<>>
    OBVIOUS
  <2>2. start \o <<>> = start
    BY ConcatEmptySeq
  <2> QED
    BY <2>1, <2>2
<1>2. ASSUME NEW i \in 0..n - 1, i \in T PROVE i + 1 \in T
  <2> PICK k \in 1..n : k = i + 1 /\ k - 1 = i
    OBVIOUS
  <2>1. f[k - 1] = start \o SubSeq(s, 1, k - 1) /\ f[k] = Append(f[k - 1], s[k])
    BY <1>2
  <2>2. f[k] = start \o SubSeq(s, 1, k)
    BY <2>1, CopiesMore
  <2> QED
    BY <2>2
<1> HIDE DEF T
<1>3. n \in T
  <2>1. \A i \in 0..n : i \in T
    BY <1>1, <1>2, Induction
  <2> QED
    BY <2>1
<1>4. SubSeq(s, 1, n) = s
  OBVIOUS
<1> QED
  BY <1>3, <1>4 DEF T, Copies

\* Taking the fences out leaves the object as it is, and adds nothing around it.
LEMMA CleanedAround ==
    ASSUME NEW opener \in Openers, NEW object \in Seq(Chars), IsBlock(object, opener),
           NEW before \in Seq(Chars), NEW after \in Seq(Chars)
    PROVE  \E p, q : CleanedTo(Cleaned(before \o object \o after), before, object, after, p, q)
<1> PICK text : text = before \o object \o after
  OBVIOUS
<1> PICK m \in Nat : m = Len(before)
  OBVIOUS
<1> PICK n \in Nat : n = Len(object)
  OBVIOUS
<1> PICK l \in Nat : l = Len(after)
  OBVIOUS
<1>1. \A i \in 1..n : ~Fenced(text, m + i)
  BY NoFence
<1>2. /\ text \in Seq(Chars) /\ Len(text) = m + n + l
      /\ \A i \in 1..m : text[i] = before[i]
      /\ \A i \in 1..n : text[m + i] = object[i]
      /\ \A i \in 1..l : text[m + n + i] = after[i]
  <2>1. before \o object \in Seq(Chars) /\ Len(before \o object) = m + n
    BY ConcatProperties
  <2>2. text \in Seq(Chars) /\ Len(text) = m + n + l
    BY <2>1, ConcatProperties
  <2> QED
    BY <2>2
<1> PICK N \in Nat : N = m + n + l
  OBVIOUS
<1> PICK kept : KeptOf(text, kept)
  BY <1>2, Kept
<1>3. /\ kept[0] = <<>> /\ kept \in [0..N -> Seq(Chars)] /\ Cleaned(text) = kept[N]
      /\ \A i \in 1..N : kept[i] = Append(kept[i - 1], text[i]) \/ kept[i] = kept[i - 1]
      /\ \A i \in 1..N : ~Fenced(text, i) => kept[i] = Append(kept[i - 1], text[i])
  BY <1>2 DEF KeptOf
<1> DEFINE object1 == [i \in 0..n |-> kept[m + i]]
           after1 == [i \in 0..l |-> kept[m + n + i]]
<1>4. Collects(kept[m], <<>>, before)
  <2>1. <<>> \in Seq(Chars)
    OBVIOUS
  <2>2. \A i \in 1..m : i \in 1..N
    OBVIOUS
  <2>3. \A i \in 1..m : kept[i] = kept[i - 1] \/ kept[i] = Append(kept[i - 1], before[i])
    BY <1>2, <1>3, <2>2
  <2> QED
    BY <1>3, <2>1, <2>3, Collected
<1> PICK p \in Seq(Chars) : kept[m] = p /\ Range(p) \subseteq Range(before)
  <2>1. PICK p \in Seq(Chars) : kept[m] = <<>> \o p /\ Range(p) \subseteq Range(before)
    BY <1>4 DEF Collects
  <2> QED
    BY <2>1, ConcatEmptySeq
<1>5. kept[m + n] = p \o object
  <2>1. object1[0] = p /\ object1[n] = kept[m + n]
    <3>1. m + 0 = m
      OBVIOUS
    <3> QED BY <3>1
  <2>2. ASSUME NEW i \in 1..n PROVE object1[i] = Append(object1[i - 1], object[i])
    <3> PICK k \in 1..N : k = m + i /\ k - 1 = m + (i - 1)
      BY SMTT(30)
    <3>1. kept[k] = Append(kept[k - 1], object[i])
      <4>1. ~Fenced(text, k)
        BY <1>1
      <4>2. text[k] = object[i]
        BY <1>2
      <4> QED
        BY <1>3, <4>1, <4>2
    <3>2. object1[i] = kept[k] /\ object1[i - 1] = kept[k - 1]
      OBVIOUS
    <3> QED
      BY <3>1, <3>2
  <2> HIDE DEF object1
  <2>3. \A i \in 1..n : object1[i] = Append(object1[i - 1], object[i])
    BY <2>2
  <2>4. Copies(object1[n], p, object)
    BY <2>1, <2>3, Copied
  <2> QED
    BY <2>1, <2>4 DEF Copies
<1> PICK po \in Seq(Chars) : po = p \o object
  BY ConcatProperties
<1>6. Collects(kept[N], po, after)
  <2>1. after1[0] = po /\ after1[l] = kept[N]
    <3>1. m + n + 0 = m + n
      OBVIOUS
    <3> QED BY <1>5, <3>1
  <2>2. ASSUME NEW i \in 1..l
        PROVE  after1[i] = after1[i - 1] \/ after1[i] = Append(after1[i - 1], after[i])
    <3> PICK k \in 1..N : k = m + n + i /\ k - 1 = m + n + (i - 1)
      OBVIOUS
    <3>1. kept[k] = kept[k - 1] \/ kept[k] = Append(kept[k - 1], after[i])
      BY <1>2, <1>3
    <3>2. after1[i] = kept[k] /\ after1[i - 1] = kept[k - 1]
      OBVIOUS
    <3> QED
      BY <3>1, <3>2
  <2> HIDE DEF after1
  <2>3. Collects(after1[l], po, after)
    BY <2>1, <2>2, Collected
  <2> QED
    BY <2>1, <2>3
<1> PICK q \in Seq(Chars) : kept[N] = po \o q /\ Range(q) \subseteq Range(after)
  BY <1>6 DEF Collects
<1>7. CleanedTo(Cleaned(text), before, object, after, p, q)
  BY <1>3 DEF CleanedTo
<1> QED
  BY <1>7

LEMMA NotJson == ~IsJson(NoJson) /\ ~IsJson(<<>>)
<1>1. Reading(<<>>)[0] = NothingRead
  BY ReadByChar
<1>2. ~IsJson(<<>>)
  BY <1>1 DEF IsJson, NothingRead
<1>3. Reading(NoJson)[1] = Between(NothingRead, "no json")
  <2>1. Len(NoJson) = 1 /\ NoJson[1] = "no json"
    BY DEF NoJson
  <2> PICK text : text = NoJson
    OBVIOUS
  <2> PICK n \in Nat : n = 1
    OBVIOUS
  <2>2. Len(text) = n
    BY <2>1
  <2>3. Reading(text)[0] = NothingRead
        /\ \A i \in 1..n : Reading(text)[i] = ReadChar(Reading(text)[i - 1], text[i])
    BY <2>2, ReadByChar
  <2>4. Reading(NoJson)[0] = NothingRead
        /\ \A i \in 1..1 : Reading(NoJson)[i] = ReadChar(Reading(NoJson)[i - 1], NoJson[i])
    BY <2>3
  <2>5. Reading(NoJson)[1] = ReadChar(NothingRead, "no json")
    <3>1. 1 \in 1..1 /\ 1 - 1 = 0
      OBVIOUS
    <3> QED
      BY <2>1, <2>4, <3>1
  <2> QED
    BY <2>5 DEF ReadChar, NothingRead
<1>4. Between(NothingRead, "no json").mode = "bad"
  BY DEF Between, NothingRead, Openers
<1> QED
  BY <1>2, <1>3, <1>4 DEF IsJson, NoJson

LEMMA NotEmptyAround ==
    ASSUME NEW S, NEW s \in Seq(S), NEW t \in Seq(S), NEW u \in Seq(S), t # <<>>
    PROVE  s \o t \o u # <<>>
<1>1. s \o t \in Seq(S) /\ Len(s \o t) = Len(s) + Len(t)
  BY ConcatProperties
<1>2. Len(s \o t \o u) = Len(s) + Len(t) + Len(u)
  BY <1>1, ConcatProperties
<1>3. Len(t) \in Nat \ {0} /\ Len(s) \in Nat /\ Len(u) \in Nat
  BY EmptySeq, LenProperties
<1>4. Len(s \o t \o u) # 0
  BY <1>2, <1>3
<1> QED
  BY <1>4

LEMMA BlockOfCleaned ==
    ASSUME NEW opener \in Openers, NEW object \in Seq(Chars), IsBlock(object, opener),
           NEW before, opener \notin Range(before), NEW after,
           NEW text, NEW p, NEW q, CleanedTo(text, before, object, after, p, q)
    PROVE  Block(text, opener) = object
<1>1. /\ p \in Seq(Chars) /\ q \in Seq(Chars) /\ opener \notin Range(p)
      /\ text = p \o object \o q
  BY DEF CleanedTo
<1>2. Block(p \o object \o q, opener) = object
  BY <1>1, BlockFound
<1> QED
  BY <1>1, <1>2

\* Braces are tried before brackets.
FirstTried(text, opener) == opener = "{" \/ "{" \notin Range(text)

\* The object is what extract_json_object finds, unless all of the text is JSON.
Extracts(text, object) ==
    /\ text # <<>>
    /\ ExtractJsonObject(text) # NoJson
    /\ ExtractJsonObject(text) = IF IsJson(Cleaned(text)) THEN Cleaned(text) ELSE object

\* Fences, search and both kinds of brackets together.
LEMMA BlockExtracted ==
    ASSUME NEW opener \in Openers, NEW object \in Seq(Chars), IsBlock(object, opener),
           NEW before \in Seq(Chars), NEW after \in Seq(Chars),
           opener \notin Range(before),
           FirstTried(before \o object \o after, opener)
    PROVE  Extracts(before \o object \o after, object)
<1> PICK text : text = before \o object \o after
  OBVIOUS
<1> PICK p, q : CleanedTo(Cleaned(text), before, object, after, p, q)
  BY CleanedAround
<1>1. /\ p \in Seq(Chars) /\ Range(p) \subseteq Range(before)
      /\ q \in Seq(Chars) /\ Range(q) \subseteq Range(after)
      /\ Cleaned(text) = p \o object \o q
  BY DEF CleanedTo
<1>2. IsJson(object) /\ object # <<>>
  BY NotJson DEF IsBlock
<1>3. text # <<>>
  BY <1>2, NotEmptyAround
<1>4. Block(Cleaned(text), opener) = object
  BY BlockOfCleaned
<1>5. opener # "{" => opener = "[" /\ Block(Cleaned(text), "{") = <<>>
  <2>1. Range(text) = Range(before) \cup Range(object) \cup Range(after)
    <3>1. before \o object \in Seq(Chars)
      BY ConcatProperties
    <3> QED
      BY <3>1, RangeConcat
  <2>2. Range(p \o object \o q) = Range(p) \cup Range(object) \cup Range(q)
    <3>1. p \o object \in Seq(Chars)
      BY <1>1, ConcatProperties
    <3> QED
      BY <1>1, <3>1, RangeConcat
  <2>3. opener # "{" => "{" \notin Range(Cleaned(text))
    BY <1>1, <2>1, <2>2 DEF FirstTried
  <2> QED
    BY <2>3, NoBlock DEF Openers
<1>6. ExtractJsonObject(text) = IF IsJson(Cleaned(text)) THEN Cleaned(text) ELSE object
  BY <1>2, <1>4, <1>5 DEF ExtractJsonObject
<1> QED
  BY <1>2, <1>3, <1>6, NotJson DEF Extracts

LEMMA TextExtracted ==
    ASSUME NEW content \in WrittenTexts, NEW opener \in Openers,
           IsBlock(content.object, opener), opener \notin Range(content.before),
           FirstTried(Text(content), opener)
    PROVE Extracts(Text(content), content.object)
<1>1. /\ content.before \in Seq(Chars) /\ content.object \in Seq(Chars)
      /\ content.after \in Seq(Chars)
  BY DEF WrittenTexts
<1>2. Text(content) = content.before \o content.object \o content.after
  BY DEF Text
<1> QED
  BY <1>1, <1>2, BlockExtracted

\* What parse_structured_output makes of the text becomes the response's parsed.
LEMMA BlockParsed ==
    ASSUME NEW reply, NEW counted, NEW asked, asked.schema,
           reply.choices, ~Unnamed(Functions(reply.calls)),
           reply.conforms, NEW object,
           Extracts(Text(reply.content), object)
    PROVE  LET r == Parsed(reply, asked, counted)
               cleaned == Cleaned(Text(reply.content))
           IN  /\ r.kind = "response"
               /\ r.parsed = IF IsJson(cleaned) THEN cleaned ELSE object
<1>1. Structured(reply, asked.schema) = ExtractJsonObject(Text(reply.content))
  BY DEF Structured, Extracts
<1> PICK payload : payload = ExtractJsonObject(Text(reply.content))
  OBVIOUS
<1> PICK calls : calls = Functions(reply.calls)
  OBVIOUS
<1>2. PICK own : Parsed(reply, asked, counted) = Read(reply, asked.schema, own)
  BY DEF Parsed
<1>3. ~Unnamed(calls) /\ payload # NoJson
  BY DEF Extracts
<1>4. /\ Read(reply, asked.schema, own).kind = "response"
      /\ Read(reply, asked.schema, own).parsed = payload
  BY <1>1, <1>3 DEF Read
<1> QED
  BY <1>2, <1>4 DEF Extracts

-----------------------------------------------------------------------------
(* The text of an answer to a request with an output_schema is one that a  *)
(* model writes.                                                           *)

WrittenInv ==
    answer.kind = "answer" /\ request.schema => answer \in StructuredAnswers

LEMMA WrittenReturned ==
    ASSUME NEW a, NEW r, Return(a, r), WrittenInv,
           a.kind = "answer" /\ request.schema => a \in StructuredAnswers
    PROVE  WrittenInv'
BY DEF Return, WrittenInv

LEMMA WrittenInvStep == AnswerInv /\ WrittenInv /\ [Next]_vars => WrittenInv'
<1> SUFFICES ASSUME AnswerInv, WrittenInv, [Next]_vars PROVE WrittenInv'
  OBVIOUS
<1>1. CASE \/ \E r \in Requests, more \in SUBSET {"vision"} : Ask("chat", r, {"chat", "tools"} \cup more)
           \/ \E what \in {"embeddings", "rerank"} : Ask(what, Nothing, {what})
  <2>1. pc = "idle" /\ answer' = answer
    BY <1>1 DEF Ask
  <2>2. answer = Nothing
    BY <2>1 DEF AnswerInv, CallInv
  <2> QED
    BY <2>1, <2>2 DEF WrittenInv, Nothing
<1>2. CASE \E a \in (IF op = "chat" /\ request.schema THEN StructuredAnswers ELSE Answers) : Answered(a)
  <2> PICK a \in (IF op = "chat" /\ request.schema THEN StructuredAnswers ELSE Answers) : Answered(a)
    BY <1>2
  <2> DEFINE r == ParseResponse(adapter, a, request)
  <2>1. op = "chat" /\ Return(a, r)
    BY DEF Answered
  <2> HIDE DEF r
  <2>2. request.schema => a \in StructuredAnswers
    BY <2>1
  <2> QED
    BY <2>1, <2>2, WrittenReturned
<1>3. CASE \E status \in Statuses : Refused(status)
  <2> PICK status : Refused(status)
    BY <1>3
  <2> PICK a : a = [kind |-> "error", status |-> status]
    OBVIOUS
  <2>1. a.kind # "answer" /\ Return(a, TranslateError(adapter, status))
    BY DEF Refused
  <2> QED
    BY <2>1, WrittenReturned
<1>4. CASE (\E data \in Data : Embedded(data)) \/ (\E items \in Items : Ranked(items))
  <2>1. PICK items, r : Return(Results(items), r)
    BY <1>4 DEF Embedded, Ranked
  <2>2. Results(items).kind # "answer"
    BY DEF Results
  <2> QED
    BY <2>1, <2>2, WrittenReturned
<1>5. CASE Again
  BY <1>5 DEF Again, WrittenInv, Nothing
<1>6. CASE Format \/ Begin \/ End \/ (\E line : ReadLine(line))
  BY <1>6 DEF Format, Begin, End, ReadLine, WrittenInv
<1>7. CASE OtherBegins \/ OtherThinks \/ UNCHANGED vars
  <2>1. UNCHANGED call
    BY <1>7 DEF OtherBegins, OtherThinks, vars
  <2> QED
    BY <2>1 DEF call, WrittenInv
<1> QED
  BY <1>1, <1>2, <1>3, <1>4, <1>5, <1>6, <1>7 DEF Next, Skip, Done, Event

LEMMA BlockReturned ==
    ASSUME NEW a \in Chats, NEW reply, NEW asked, asked.schema,
           reply.choices, ~Unnamed(Functions(reply.calls)), reply.conforms,
           NEW object, Extracts(Text(reply.content), object)
    PROVE  LET r == ParseResponse(a, reply, asked)
               cleaned == Cleaned(Text(reply.content))
           IN  /\ r.kind = "response"
               /\ r.parsed = IF IsJson(cleaned) THEN cleaned ELSE object
<1>1. PICK counted \in {PromptNames, AllNames} :
        ParseResponse(a, reply, asked) = Parsed(reply, asked, counted)
  BY AnyParser
<1>2. /\ Parsed(reply, asked, counted).kind = "response"
      /\ Parsed(reply, asked, counted).parsed =
           IF IsJson(Cleaned(Text(reply.content))) THEN Cleaned(Text(reply.content)) ELSE object
  BY BlockParsed
<1> QED
  BY <1>1, <1>2

(***************************************************************************)
(* extract_json_object, in all eight adapters: the object a model gives is *)
(* the one that is parsed, however long, however deeply nested, whatever   *)
(* its strings hold and whatever stands around it, as long as no brace     *)
(* comes before it; and so is an array, where no brace is to be found.     *)
(***************************************************************************)
THEOREM ObjectsFound == Spec => []FindsObject
<1>1. Init => WrittenInv
  BY DEF Init, WrittenInv, Nothing
<1>2. Spec => []WrittenInv
  BY <1>1, WrittenInvStep, AnswerInvariant, PTL DEF Spec
<1>3. AnswerInv /\ WrittenInv => FindsObject
  <2> SUFFICES ASSUME AnswerInv, WrittenInv, answer.kind = "answer", request.schema,
                      NEW opener \in Openers,
                      answer.choices, ~Unnamed(Functions(answer.calls)), answer.conforms,
                      IsBlock(answer.content.object, opener),
                      opener \notin Range(answer.content.before),
                      opener = "{" \/ "{" \notin Range(Text(answer.content))
               PROVE  LET cleaned == Cleaned(Text(answer.content)) IN
                      /\ result.kind = "response"
                      /\ result.parsed = IF IsJson(cleaned) THEN cleaned ELSE answer.content.object
    BY DEF FindsObject
  <2>1. adapter \in Chats /\ result = ParseResponse(adapter, answer, request)
    BY DEF AnswerInv, ReadByAdapter
  <2>2. answer.content \in WrittenTexts
    BY AdaptersAssumption DEF WrittenInv
  <2>3. FirstTried(Text(answer.content), opener)
    BY DEF FirstTried
  <2>4. Extracts(Text(answer.content), answer.content.object)
    BY <2>2, <2>3, TextExtracted
  <2> PICK object : object = answer.content.object
    OBVIOUS
  <2> PICK a \in Chats : a = adapter
    BY <2>1
  <2>5. LET cleaned == Cleaned(Text(answer.content)) IN
        /\ ParseResponse(a, answer, request).kind = "response"
        /\ ParseResponse(a, answer, request).parsed =
             IF IsJson(cleaned) THEN cleaned ELSE object
    BY <2>4, BlockReturned, ZenonT(60)
  <2> QED
    BY <2>1, <2>5
<1> QED
  BY <1>2, <1>3, AnswerInvariant, PTL

-----------------------------------------------------------------------------
(* Streams.                                                                *)

Finishes == Reasons \cup {"null", "other", None}

Chunks == [content : BOOLEAN, finish : Finishes, is_final : BOOLEAN, ttft : BOOLEAN, call : BOOLEAN]

Readers == [ttft_recorded : BOOLEAN, reasoning : Seq({"mine"}), out : Seq(Chunks),
            ended : {"no", "returned", "failed"}]

\* The time is recorded with one chunk, and no content comes before it.
Timed(out, recorded) ==
    /\ \A i, j \in 1..Len(out) : out[i].ttft /\ out[j].ttft => i = j
    /\ \A i \in 1..Len(out) : out[i].ttft => Contents(out, i - 1) = 0
    /\ recorded <=> \E i \in 1..Len(out) : out[i].ttft
    /\ Contents(out, Len(out)) > 0 => recorded

FinalFree(out, n) == \A i \in 1..n : ~out[i].is_final

EndsFinal(out) == Len(out) > 0 /\ out[Len(out)].is_final

Told == [lines : Nat, content : Nat, reasoning : Nat, finished : BOOLEAN, done : BOOLEAN]

\* A reader r, while the call is at p, that has been sent what t says.
Following(r, t, p) ==
    /\ r \in Readers /\ t \in Told
    /\ Timed(r.out, r.ttft_recorded)
    /\ r.ended # "failed" => Contents(r.out, Len(r.out)) = t.content
    /\ FinalFree(r.out, Len(r.out) - 1)
    /\ t.finished \/ t.done => r.ended = "failed" \/ EndsFinal(r.out)
    /\ p = "idle" => r = NewReader /\ t = NothingTold
    /\ p = "streaming" /\ ~t.done => FinalFree(r.out, Len(r.out))
    /\ p = "streaming" => ~t.finished
    /\ r.ended # "no" => p = "over"

StreamInv == Following(reader, told, pc)

LEMMA ContentsType ==
    ASSUME NEW chunks, NEW n \in Nat PROVE Contents(chunks, n) \in Nat
<1>1. IsFiniteSet(1..n)
  BY FS_Interval
<1>2. IsFiniteSet({i \in 1..n : chunks[i].content})
  BY <1>1, FS_Subset
<1> QED
  BY <1>2, FS_CardinalityType DEF Contents

\* What one more chunk adds.
LEMMA ContentsAppend ==
    ASSUME NEW chunks \in Seq(Chunks), NEW c \in Chunks
    PROVE  /\ \A n \in 0..Len(chunks) : Contents(Append(chunks, c), n) = Contents(chunks, n)
           /\ Contents(Append(chunks, c), Len(chunks) + 1)
                = Contents(chunks, Len(chunks)) + (IF c.content THEN 1 ELSE 0)
<1> DEFINE more == Append(chunks, c)
           old == {i \in 1..Len(chunks) : chunks[i].content}
           new == {i \in 1..Len(chunks) + 1 : more[i].content}
<1>1. Len(chunks) \in Nat
  OBVIOUS
<1>2. \A i \in 1..Len(chunks) : more[i] = chunks[i]
  OBVIOUS
<1>3. more[Len(chunks) + 1] = c
  OBVIOUS
<1>4. \A n \in 0..Len(chunks) : Contents(more, n) = Contents(chunks, n)
  <2> SUFFICES ASSUME NEW n \in 0..Len(chunks) PROVE Contents(more, n) = Contents(chunks, n)
    OBVIOUS
  <2>1. {i \in 1..n : more[i].content} = {i \in 1..n : chunks[i].content}
    BY <1>1, <1>2
  <2> QED
    BY <2>1 DEF Contents
<1>5. IsFiniteSet(old)
  <2>1. IsFiniteSet(1..Len(chunks)) /\ old \in SUBSET (1..Len(chunks))
    BY <1>1, FS_Interval
  <2> QED
    BY <2>1, FS_Subset
<1>6. new = IF c.content THEN old \cup {Len(chunks) + 1} ELSE old
  <2> HIDE DEF more
  <2>1. \A i \in 1..Len(chunks) + 1 : i \in 1..Len(chunks) \/ i = Len(chunks) + 1
    BY <1>1
  <2>2. 1..Len(chunks) \subseteq 1..Len(chunks) + 1 /\ Len(chunks) + 1 \in 1..Len(chunks) + 1
    BY <1>1
  <2> QED
    BY <1>2, <1>3, <2>1, <2>2
<1>7. Len(chunks) + 1 \notin old
  BY <1>1
<1>8. Cardinality(old) \in Nat
  BY <1>5, FS_CardinalityType
<1>9. Cardinality(new) = Cardinality(old) + (IF c.content THEN 1 ELSE 0)
  <2> HIDE DEF old, new
  <2>1. Cardinality(old \cup {Len(chunks) + 1}) = Cardinality(old) + 1
    BY <1>5, <1>7, FS_AddElement
  <2> QED
    BY <1>6, <1>8, <2>1
<1> QED
  BY <1>4, <1>9 DEF Contents

\* One more chunk.
LEMMA ChunkYielded ==
    ASSUME NEW out \in Seq(Chunks), NEW c \in Chunks, NEW recorded \in BOOLEAN,
           Timed(out, recorded), FinalFree(out, Len(out)),
           c.ttft => ~recorded, c.content => recorded \/ c.ttft
    PROVE  LET more == Append(out, c)
           IN  /\ more \in Seq(Chunks)
               /\ Timed(more, recorded \/ c.ttft)
               /\ FinalFree(more, Len(more) - 1)
               /\ Contents(more, Len(more)) = Contents(out, Len(out)) + (IF c.content THEN 1 ELSE 0)
               /\ IF c.is_final THEN EndsFinal(more) ELSE FinalFree(more, Len(more))
<1>0. PICK n \in Nat : n = Len(out)
  OBVIOUS
<1>1. PICK more : more = Append(out, c)
  OBVIOUS
<1>1a. more \in Seq(Chunks)
  BY <1>1
<1>2. /\ Len(more) = n + 1 /\ more[n + 1] = c
      /\ \A i \in 1..n : more[i] = out[i]
  BY <1>0, <1>1
<1>3. \A i \in 1..n + 1 : i \in 1..n \/ i = n + 1
  OBVIOUS
<1>4. /\ \A k \in 0..n : Contents(more, k) = Contents(out, k)
      /\ Contents(more, n + 1) = Contents(out, n) + (IF c.content THEN 1 ELSE 0)
      /\ Contents(out, n) \in Nat
  BY <1>0, <1>1, ContentsAppend, ContentsType
<1>5. /\ c.ttft \in BOOLEAN /\ c.content \in BOOLEAN /\ c.is_final \in BOOLEAN
  BY DEF Chunks
<1>6. Timed(more, recorded \/ c.ttft)
  <2>1. \A i, j \in 1..n + 1 : more[i].ttft /\ more[j].ttft => i = j
    BY <1>0, <1>2, <1>3 DEF Timed
  <2>2. ASSUME NEW i \in 1..n + 1, more[i].ttft PROVE Contents(more, i - 1) = 0
    <3>1. CASE i \in 1..n
      <4>1. Contents(out, i - 1) = 0
        BY <1>0, <1>2, <2>2, <3>1 DEF Timed
      <4>2. i - 1 \in 0..n
        BY <3>1
      <4> QED
        BY <1>4, <4>1, <4>2
    <3>2. CASE i = n + 1
      <4>1. ~recorded
        BY <1>2, <2>2, <3>2
      <4>2. ~(Contents(out, n) > 0)
        BY <1>0, <4>1 DEF Timed
      <4>3. n \in 0..n /\ i - 1 = n
        BY <3>2
      <4> QED
        BY <1>4, <4>2, <4>3
    <3> QED
      BY <1>3, <3>1, <3>2
  <2>3. (recorded \/ c.ttft) <=> \E i \in 1..n + 1 : more[i].ttft
    <3>1. n + 1 \in 1..n + 1 /\ \A i \in 1..n : i \in 1..n + 1
      OBVIOUS
    <3>2. recorded <=> \E i \in 1..n : out[i].ttft
      BY <1>0 DEF Timed
    <3> QED
      BY <1>2, <1>3, <3>1, <3>2
  <2>4. Contents(more, n + 1) > 0 => recorded \/ c.ttft
    <3>1. Contents(out, n) > 0 => recorded
      BY <1>0 DEF Timed
    <3> QED
      BY <1>4, <1>5, <3>1
  <2> QED
    BY <1>2, <2>1, <2>2, <2>3, <2>4 DEF Timed
<1>7. FinalFree(more, n)
  BY <1>0, <1>2 DEF FinalFree
<1>8. IF c.is_final THEN EndsFinal(more) ELSE FinalFree(more, n + 1)
  BY <1>2, <1>3, <1>5, <1>7 DEF EndsFinal, FinalFree
<1> QED
  BY <1>0, <1>1, <1>1a, <1>2, <1>4, <1>6, <1>7, <1>8

\* What reading an event makes of a reader.
EventRead(r, e, s) ==
    /\ s \in Readers
    /\ Timed(s.out, s.ttft_recorded)
    /\ FinalFree(s.out, Len(s.out) - 1)
    /\ s.ended # "failed" =>
         /\ Contents(s.out, Len(s.out)) = Contents(r.out, Len(r.out)) + (IF e.content THEN 1 ELSE 0)
         /\ IF e.finish = None THEN s.ended = "no" /\ FinalFree(s.out, Len(s.out))
                               ELSE s.ended = "returned" /\ EndsFinal(s.out)

LEMMA FailedRead ==
    ASSUME NEW r \in Readers, Timed(r.out, r.ttft_recorded), FinalFree(r.out, Len(r.out)), NEW e, NEW q
    PROVE  EventRead(q, e, Fails(r))
<1>1. PICK s \in Readers : s = Fails(r)
  BY DEF Fails, Readers
<1>2. s.out = r.out /\ s.ttft_recorded = r.ttft_recorded /\ s.ended = "failed"
  BY <1>1 DEF Fails, Readers
<1>3. FinalFree(r.out, Len(r.out) - 1)
  BY DEF FinalFree, Readers
<1> QED
  BY <1>1, <1>2, <1>3 DEF EventRead

LEMMA FinishType ==
    ASSUME NEW raw PROVE MapFinishReason(raw) \in Finishes /\ None \in Finishes
BY DEF MapFinishReason, Finishes

LEMMA OwnEventRead ==
    ASSUME NEW r \in Readers, r.ended = "no", NEW e \in StreamEvents,
           Timed(r.out, r.ttft_recorded), FinalFree(r.out, Len(r.out))
    PROVE  EventRead(r, e, OwnEvent(r, e))
<1>1. PICK c : c = [content |-> e.content, is_final |-> e.finish # None,
                    finish |-> IF e.finish = None THEN None ELSE MapFinishReason(e.finish),
                    ttft |-> e.content /\ ~r.ttft_recorded, call |-> e.call = "begins"]
  OBVIOUS
<1>2. /\ c \in Chunks /\ (c.content <=> e.content) /\ (c.is_final <=> e.finish # None)
      /\ c.ttft <=> e.content /\ ~r.ttft_recorded
  BY <1>1, FinishType DEF Chunks, StreamEvents
<1>3. CASE e.call = "unnamed"
  BY <1>3, FailedRead DEF OwnEvent
<1>4. CASE e.call # "unnamed"
  <2>1. r.out \in Seq(Chunks) /\ r.ttft_recorded \in BOOLEAN /\ e.content \in BOOLEAN
    BY DEF Readers, StreamEvents
  <2>2. PICK s : s = [Yields(r, c) EXCEPT !.ttft_recorded = @ \/ e.content,
                                          !.ended = IF e.finish = None THEN "no" ELSE "returned"]
    OBVIOUS
  <2>3. OwnEvent(r, e) = s
    BY <1>1, <1>4, <2>2 DEF OwnEvent
  <2>4. PICK more : more = Append(r.out, c)
    OBVIOUS
  <2>4a. more \in Seq(Chunks)
    BY <1>2, <2>1, <2>4
  <2>5. /\ s \in Readers /\ s.out = more
        /\ s.ended = IF e.finish = None THEN "no" ELSE "returned"
        /\ s.ttft_recorded <=> r.ttft_recorded \/ c.ttft
    BY <1>2, <2>1, <2>2, <2>4, <2>4a DEF Yields, Readers
  <2>6. /\ Timed(more, r.ttft_recorded \/ c.ttft)
        /\ FinalFree(more, Len(more) - 1)
        /\ Contents(more, Len(more)) = Contents(r.out, Len(r.out)) + (IF c.content THEN 1 ELSE 0)
        /\ IF c.is_final THEN EndsFinal(more) ELSE FinalFree(more, Len(more))
    BY <1>2, <2>1, <2>4, ChunkYielded
  <2>7. Timed(more, s.ttft_recorded)
    BY <2>5, <2>6 DEF Timed
  <2> QED
    BY <1>2, <2>3, <2>5, <2>6, <2>7 DEF EventRead
<1> QED
  BY <1>3, <1>4

\* The base class yields the time in a chunk of its own before the content.
LEMMA BaseEventRead ==
    ASSUME NEW r \in Readers, r.ended = "no", NEW e \in StreamEvents,
           Timed(r.out, r.ttft_recorded), FinalFree(r.out, Len(r.out)),
           e.content => r.ttft_recorded
    PROVE  EventRead(r, e, BaseEvent(r, e))
<1>1. PICK c : c = [content |-> e.content, finish |-> e.finish, is_final |-> e.finish # None,
                    ttft |-> FALSE, call |-> e.call = "begins"]
  OBVIOUS
<1>2. CASE e.call \in {"goes on", "unnamed"} \/ e.finish \notin Reasons \cup {"null", None}
  BY <1>2, FailedRead DEF BaseEvent
<1>3. CASE ~(e.call \in {"goes on", "unnamed"} \/ e.finish \notin Reasons \cup {"null", None})
  <2>1. /\ c \in Chunks /\ (c.content <=> e.content) /\ (c.is_final <=> e.finish # None) /\ ~c.ttft
        /\ r.out \in Seq(Chunks) /\ r.ttft_recorded \in BOOLEAN
    BY <1>1, <1>3 DEF Chunks, StreamEvents, Finishes, Readers
  <2>2. PICK s : s = [Yields(r, c) EXCEPT !.ended = IF e.finish = None THEN "no" ELSE "returned"]
    OBVIOUS
  <2>3. BaseEvent(r, e) = s
    BY <1>1, <1>3, <2>2 DEF BaseEvent
  <2>4. PICK more : more = Append(r.out, c)
    OBVIOUS
  <2>5. more \in Seq(Chunks)
    BY <2>1, <2>4
  <2>6. /\ s \in Readers /\ s.out = more
        /\ s.ended = IF e.finish = None THEN "no" ELSE "returned"
        /\ s.ttft_recorded = r.ttft_recorded
    BY <2>1, <2>2, <2>4, <2>5 DEF Yields, Readers
  <2>7. /\ Timed(more, r.ttft_recorded \/ c.ttft)
        /\ FinalFree(more, Len(more) - 1)
        /\ Contents(more, Len(more)) = Contents(r.out, Len(r.out)) + (IF c.content THEN 1 ELSE 0)
        /\ IF c.is_final THEN EndsFinal(more) ELSE FinalFree(more, Len(more))
    BY <2>1, <2>4, ChunkYielded
  <2>8. Timed(more, s.ttft_recorded)
    BY <2>1, <2>6, <2>7 DEF Timed
  <2> QED
    BY <2>1, <2>3, <2>6, <2>7, <2>8 DEF EventRead
<1> QED
  BY <1>2, <1>3

LEMMA TimeYielded ==
    ASSUME NEW r \in Readers, Timed(r.out, r.ttft_recorded), FinalFree(r.out, Len(r.out)),
           ~r.ttft_recorded
    PROVE  LET s == [Yields(r, TtftChunk) EXCEPT !.ttft_recorded = TRUE]
           IN  /\ s \in Readers /\ s.ended = r.ended /\ s.ttft_recorded
               /\ Timed(s.out, s.ttft_recorded) /\ FinalFree(s.out, Len(s.out))
               /\ Contents(s.out, Len(s.out)) = Contents(r.out, Len(r.out))
<1>1. /\ TtftChunk \in Chunks /\ ~TtftChunk.content /\ ~TtftChunk.is_final /\ TtftChunk.ttft
  BY DEF TtftChunk, FinalChunk, Chunks, Finishes
<1>2. PICK s : s = [Yields(r, TtftChunk) EXCEPT !.ttft_recorded = TRUE]
  OBVIOUS
<1>3. PICK more : more = Append(r.out, TtftChunk)
  OBVIOUS
<1>4. r.out \in Seq(Chunks) /\ more \in Seq(Chunks) /\ r.ttft_recorded \in BOOLEAN
  BY <1>1, <1>3 DEF Readers
<1>5. /\ s \in Readers /\ s.out = more /\ s.ended = r.ended /\ s.ttft_recorded
  BY <1>2, <1>3, <1>4 DEF Yields, Readers
<1>6. /\ Timed(more, r.ttft_recorded \/ TtftChunk.ttft)
      /\ FinalFree(more, Len(more))
      /\ Contents(more, Len(more)) = Contents(r.out, Len(r.out)) + 0
  BY <1>1, <1>3, <1>4, ChunkYielded
<1>7. Timed(more, s.ttft_recorded)
  BY <1>1, <1>5, <1>6 DEF Timed
<1>8. Contents(r.out, Len(r.out)) \in Nat
  BY <1>4, ContentsType
<1>9. Timed(s.out, s.ttft_recorded) /\ FinalFree(s.out, Len(s.out))
  BY <1>5, <1>6, <1>7 DEF Timed, FinalFree
<1>10. Contents(s.out, Len(s.out)) = Contents(r.out, Len(r.out))
  BY <1>5, <1>6, <1>8
<1> QED
  BY <1>2, <1>5, <1>9, <1>10

LEMMA EventReadByAll ==
    ASSUME NEW a \in Chats \cup {"custom"}, NEW r \in Readers, r.ended = "no", NEW e \in StreamEvents,
           Timed(r.out, r.ttft_recorded), FinalFree(r.out, Len(r.out))
    PROVE  EventRead(r, e, HandleStreaming(a, r, e))
<1>0. e.kind = "event" /\ "mine" \in {"mine"}
  BY DEF StreamEvents
<1>1. CASE a \in Chats \ {"deepseek"}
  <2>1. HandleStreaming(a, r, e) = OwnEvent(r, e)
    BY <1>0, <1>1 DEF Chats, HandleStreaming, DoubaoLine, GlmLine, HunyuanLine, KimiLine, MiniMaxLine,
                      QwenLine, StepFunLine, OwnLine
  <2> QED
    BY <2>1, OwnEventRead
<1>2. CASE a = "deepseek"
  <2>1. PICK q : q = IF Thinks(e) THEN [r EXCEPT !.reasoning = Append(@, "mine")] ELSE r
    OBVIOUS
  <2>2. q \in Readers /\ q.out = r.out /\ q.ttft_recorded = r.ttft_recorded /\ q.ended = r.ended
    <3>1. /\ r.reasoning \in Seq({"mine"}) /\ Append(r.reasoning, "mine") \in Seq({"mine"})
          /\ "mine" \in {"mine"}
      BY DEF Readers
    <3>2. CASE Thinks(e)
      <4>1. PICK more \in Seq({"mine"}) : more = Append(r.reasoning, "mine")
        BY <3>1
      <4>2. q = [r EXCEPT !.reasoning = more]
        BY <2>1, <3>2, <4>1
      <4> QED
        BY <4>2 DEF Readers
    <3>3. CASE ~Thinks(e)
      BY <2>1, <3>3
    <3> QED
      BY <3>2, <3>3
  <2>3. HandleStreaming(a, r, e) = OwnEvent(q, e)
    BY <1>0, <1>2, <2>1 DEF HandleStreaming, DeepSeekLine, OwnLine
  <2>4. EventRead(q, e, OwnEvent(q, e))
    BY <2>2, OwnEventRead
  <2> QED
    BY <2>2, <2>3, <2>4 DEF EventRead
<1>3. CASE a = "custom" /\ e.content /\ ~r.ttft_recorded
  <2>1. PICK q : q = [Yields(r, TtftChunk) EXCEPT !.ttft_recorded = TRUE]
    OBVIOUS
  <2>2. /\ q \in Readers /\ q.ended = r.ended /\ q.ttft_recorded
        /\ Timed(q.out, q.ttft_recorded) /\ FinalFree(q.out, Len(q.out))
        /\ Contents(q.out, Len(q.out)) = Contents(r.out, Len(r.out))
    BY <1>3, <2>1, TimeYielded
  <2>3. HandleStreaming(a, r, e) = BaseEvent(q, e)
    BY <1>0, <1>3, <2>1 DEF HandleStreaming, BaseLine, Chats
  <2>4. EventRead(q, e, BaseEvent(q, e))
    BY <2>2, BaseEventRead
  <2> QED
    BY <2>2, <2>3, <2>4 DEF EventRead
<1>4. CASE a = "custom" /\ ~(e.content /\ ~r.ttft_recorded)
  <2>1. HandleStreaming(a, r, e) = BaseEvent(r, e)
    BY <1>0, <1>4 DEF HandleStreaming, BaseLine, Chats
  <2> QED
    BY <1>4, <2>1, BaseEventRead
<1> QED
  BY <1>1, <1>2, <1>3, <1>4

\* [DONE] adds a final chunk; only the base class stops at it.
LEMMA DoneRead ==
    ASSUME NEW a \in Chats \cup {"custom"}, NEW r \in Readers, r.ended = "no",
           Timed(r.out, r.ttft_recorded), FinalFree(r.out, Len(r.out)), NEW line, line.kind = "done"
    PROVE  LET s == HandleStreaming(a, r, line)
           IN  /\ s \in Readers /\ s.ended \in {"no", "returned"}
               /\ Timed(s.out, s.ttft_recorded)
               /\ FinalFree(s.out, Len(s.out) - 1) /\ EndsFinal(s.out)
               /\ Contents(s.out, Len(s.out)) = Contents(r.out, Len(r.out))
<1>1. /\ FinalChunk \in Chunks /\ ~FinalChunk.content /\ FinalChunk.is_final /\ ~FinalChunk.ttft
  BY DEF FinalChunk, Chunks, Finishes
<1>2. PICK s : s = HandleStreaming(a, r, line)
  OBVIOUS
<1>3. s = Yields(r, FinalChunk) \/ s = [Yields(r, FinalChunk) EXCEPT !.ended = "returned"]
  BY <1>2 DEF Chats, HandleStreaming, DeepSeekLine, DoubaoLine, GlmLine, HunyuanLine, KimiLine, MiniMaxLine,
              QwenLine, StepFunLine, OwnLine, BaseLine, Thinks
<1>4. PICK more : more = Append(r.out, FinalChunk)
  OBVIOUS
<1>5. r.out \in Seq(Chunks) /\ more \in Seq(Chunks) /\ r.ttft_recorded \in BOOLEAN
  BY <1>1, <1>4 DEF Readers
<1>6. /\ s \in Readers /\ s.out = more /\ s.ended \in {"no", "returned"}
      /\ s.ttft_recorded = r.ttft_recorded
  BY <1>3, <1>4, <1>5 DEF Yields, Readers
<1>7. /\ Timed(more, r.ttft_recorded \/ FinalChunk.ttft)
      /\ FinalFree(more, Len(more) - 1) /\ EndsFinal(more)
      /\ Contents(more, Len(more)) = Contents(r.out, Len(r.out)) + 0
  BY <1>1, <1>4, <1>5, ChunkYielded
<1>8. Timed(more, s.ttft_recorded)
  BY <1>1, <1>5, <1>6, <1>7 DEF Timed
<1>9. Contents(r.out, Len(r.out)) \in Nat
  BY <1>5, ContentsType
<1> QED
  BY <1>2, <1>6, <1>7, <1>8, <1>9

LEMMA NothingRead_Same ==
    ASSUME NEW a \in Chats \cup {"custom"}, NEW r, NEW line, line.kind = "nothing"
    PROVE  HandleStreaming(a, r, line) = r
BY DEF Chats, HandleStreaming, DeepSeekLine, DoubaoLine, GlmLine, HunyuanLine, KimiLine, MiniMaxLine,
       QwenLine, StepFunLine, OwnLine, BaseLine, Thinks

LEMMA ContentsNone == ASSUME NEW chunks PROVE Contents(chunks, 0) = 0
<1>1. {i \in 1..0 : chunks[i].content} = {}
  OBVIOUS
<1> QED
  BY <1>1, FS_EmptySet DEF Contents

LEMMA NewReaderFollows == Following(NewReader, NothingTold, "idle")
<1>1. PICK r : r = NewReader
  OBVIOUS
<1>2. r \in Readers /\ r.out = <<>> /\ ~r.ttft_recorded /\ r.ended = "no"
  <2>1. <<>> \in Seq({"mine"}) /\ <<>> \in Seq(Chunks)
    OBVIOUS
  <2> QED
    BY <1>1, <2>1 DEF NewReader, Readers
<1>3. Len(r.out) = 0 /\ Contents(r.out, 0) = 0
  BY <1>2, ContentsNone
<1>4. PICK t : t = NothingTold
  OBVIOUS
<1>5. t \in Told /\ t.content = 0 /\ ~t.finished /\ ~t.done
  BY <1>4 DEF NothingTold, Told
<1>6. Timed(r.out, r.ttft_recorded)
  BY <1>2, <1>3 DEF Timed
<1>7. FinalFree(r.out, Len(r.out) - 1)
  BY <1>3 DEF FinalFree
<1>8. Following(r, t, "idle")
  BY <1>1, <1>2, <1>3, <1>4, <1>5, <1>6, <1>7 DEF Following
<1> QED
  BY <1>1, <1>4, <1>8

LEMMA StreamInvInit == Init => StreamInv
BY NewReaderFollows DEF Init, StreamInv

\* Steps that leave the reader alone.
LEMMA ReaderKept ==
    ASSUME StreamInv, UNCHANGED stream,
           pc' = "idle" => pc = "idle",
           pc' = "streaming" => pc \in {"idle", "streaming"},
           pc = "over" => pc' = "over"
    PROVE  StreamInv'
<1>1. reader' = reader /\ told' = told
  BY DEF stream
<1>2. pc = "idle" => FinalFree(reader.out, Len(reader.out)) /\ ~told.finished
  BY DEF StreamInv, Following, NewReader, NothingTold, FinalFree
<1> QED
  BY <1>1, <1>2 DEF StreamInv, Following

\* Reading a line, as far as the handlers do not differ.
LEMMA LineRead ==
    ASSUME AnswerInv, StreamInv, NEW line, ReadLine(line)
    PROVE  /\ adapter \in Chats \cup {"custom"}
           /\ reader \in Readers /\ reader.ended = "no" /\ told \in Told /\ ~told.finished
           /\ Timed(reader.out, reader.ttft_recorded)
           /\ Contents(reader.out, Len(reader.out)) = told.content
           /\ reader' = HandleStreaming(adapter, reader, line)
           /\ pc' = IF reader'.ended = "no" THEN "streaming" ELSE "over"
BY AdaptersAssumption DEF ReadLine, AnswerInv, CallInv, StreamInv, Following, Readers

LEMMA StreamInvStep ==
    ASSUME AnswerInv, StreamInv, [Next]_vars PROVE StreamInv'
<1> USE AdaptersAssumption
<1>1. CASE \/ \E what, r, model : Ask(what, r, model)
           \/ Format
           \/ \E a, r : Return(a, r)
           \/ Begin \/ OtherBegins \/ OtherThinks \/ UNCHANGED vars
  <2>1. /\ UNCHANGED stream
        /\ pc' = "idle" => pc = "idle"
        /\ pc' = "streaming" => pc \in {"idle", "streaming"}
        /\ pc = "over" => pc' = "over"
    BY <1>1 DEF Ask, Format, Return, Begin, OtherBegins, OtherThinks, vars, call
  <2> QED
    BY <2>1, ReaderKept
<1>2. CASE Again
  <2>1. reader' = NewReader /\ told' = NothingTold /\ pc' = "idle"
    BY <1>2 DEF Again
  <2> QED
    BY <2>1, NewReaderFollows DEF StreamInv
<1>3. CASE End
  <2>1. /\ pc = "streaming" /\ pc' = "over" /\ told' = told /\ reader \in Readers
    BY <1>3 DEF End, StreamInv, Following
  <2>2. /\ reader' \in Readers /\ reader'.out = reader.out
        /\ reader'.ttft_recorded = reader.ttft_recorded /\ reader'.ended \in {"returned", "failed"}
    BY <1>3, <2>1 DEF End, Fails, Readers
  <2>3. reader.ended = "no"
    BY <2>1 DEF StreamInv, Following, Readers
  <2> QED
    BY <2>1, <2>2, <2>3 DEF StreamInv, Following
<1>4. CASE Skip
  <2>1. PICK line : line.kind = "nothing" /\ ReadLine(line)
    BY <1>4 DEF Skip
  <2>2. /\ adapter \in Chats \cup {"custom"} /\ reader' = HandleStreaming(adapter, reader, line)
        /\ reader.ended = "no" /\ told \in Told
        /\ pc' = IF reader'.ended = "no" THEN "streaming" ELSE "over"
    BY <2>1, LineRead
  <2>3. reader' = reader /\ pc' = "streaming" /\ pc = "streaming"
    BY <2>1, <2>2, NothingRead_Same DEF ReadLine
  <2>4. /\ told' \in Told /\ told'.content = told.content
        /\ told'.finished = told.finished /\ told'.done = told.done
    BY <1>4, <2>2 DEF Skip, Told
  <2> QED
    BY <2>2, <2>3, <2>4 DEF StreamInv, Following
<1>5. CASE Done
  <2>1. PICK line : line.kind = "done" /\ ReadLine(line)
    BY <1>5 DEF Done
  <2>2. /\ adapter \in Chats \cup {"custom"} /\ reader' = HandleStreaming(adapter, reader, line)
        /\ reader \in Readers /\ reader.ended = "no" /\ told \in Told /\ ~told.finished
        /\ Timed(reader.out, reader.ttft_recorded)
        /\ Contents(reader.out, Len(reader.out)) = told.content
        /\ pc' = IF reader'.ended = "no" THEN "streaming" ELSE "over"
    BY <2>1, LineRead
  <2>3. FinalFree(reader.out, Len(reader.out))
    BY <1>5, <2>1 DEF Done, ReadLine, StreamInv, Following
  <2>4. /\ reader' \in Readers /\ reader'.ended \in {"no", "returned"}
        /\ Timed(reader'.out, reader'.ttft_recorded)
        /\ FinalFree(reader'.out, Len(reader'.out) - 1) /\ EndsFinal(reader'.out)
        /\ Contents(reader'.out, Len(reader'.out)) = Contents(reader.out, Len(reader.out))
    BY <2>1, <2>2, <2>3, DoneRead
  <2>5. /\ told' \in Told /\ told'.content = told.content
        /\ told'.finished = told.finished /\ told'.done
    <3>1. PICK l \in Nat : l = told.lines + 1
      BY <2>2 DEF Told
    <3>2. told' = [told EXCEPT !.lines = l, !.done = TRUE]
      BY <1>5, <3>1 DEF Done
    <3> QED
      BY <2>2, <3>2 DEF Told
  <2> QED
    BY <2>2, <2>4, <2>5 DEF StreamInv, Following
<1>6. CASE \E e \in Events : Event(e)
  <2>1. PICK e \in StreamEvents : Event(e) /\ ReadLine(e)
    BY <1>6 DEF Event
  <2>2. /\ adapter \in Chats \cup {"custom"} /\ reader' = HandleStreaming(adapter, reader, e)
        /\ reader \in Readers /\ reader.ended = "no" /\ told \in Told
        /\ Timed(reader.out, reader.ttft_recorded)
        /\ Contents(reader.out, Len(reader.out)) = told.content
        /\ pc' = IF reader'.ended = "no" THEN "streaming" ELSE "over"
    BY <2>1, LineRead
  <2>3. FinalFree(reader.out, Len(reader.out))
    BY <2>1 DEF Event, ReadLine, StreamInv, Following
  <2>4. EventRead(reader, e, reader')
    BY <2>2, <2>3, EventReadByAll
  <2>5. /\ told' \in Told /\ told'.content = told.content + (IF e.content THEN 1 ELSE 0)
        /\ (told'.finished <=> e.finish # None) /\ ~told'.done
    <3>1. PICK c \in Nat : c = told.content + (IF e.content THEN 1 ELSE 0)
      BY <2>2 DEF Told
    <3>2. PICK b \in Nat : b = told.reasoning + (IF e.reasoning THEN 1 ELSE 0)
      BY <2>2 DEF Told
    <3>3. PICK l \in Nat : l = told.lines + 1
      BY <2>2 DEF Told
    <3>4. told' = [lines |-> l, done |-> FALSE, finished |-> e.finish # None, content |-> c, reasoning |-> b]
      BY <2>1, <3>1, <3>2, <3>3 DEF Event
    <3> QED
      BY <3>1, <3>4 DEF Told
  <2>6. reader' \in Readers /\ Timed(reader'.out, reader'.ttft_recorded)
        /\ FinalFree(reader'.out, Len(reader'.out) - 1)
    BY <2>4 DEF EventRead
  <2>7. reader'.ended # "failed" => Contents(reader'.out, Len(reader'.out)) = told'.content
    BY <2>2, <2>4, <2>5 DEF EventRead
  <2>8. told'.finished => reader'.ended = "failed" \/ (reader'.ended = "returned" /\ EndsFinal(reader'.out))
    <3>1. reader'.ended # "failed" /\ e.finish # None => reader'.ended = "returned" /\ EndsFinal(reader'.out)
      BY <2>4 DEF EventRead
    <3> QED
      BY <2>5, <3>1
  <2>9. reader'.ended = "no" => ~told'.finished /\ FinalFree(reader'.out, Len(reader'.out))
    BY <2>4, <2>5 DEF EventRead
  <2> QED
    BY <2>2, <2>5, <2>6, <2>7, <2>8, <2>9 DEF StreamInv, Following
<1> QED
  BY <1>1, <1>2, <1>3, <1>4, <1>5, <1>6 DEF Next, Answered, Refused, Embedded, Ranked

LEMMA StreamInvariant == Spec => []StreamInv
<1>1. AnswerInv /\ StreamInv /\ [Next]_vars => StreamInv'
  BY StreamInvStep
<1> QED
  BY <1>1, StreamInvInit, AnswerInvariant, PTL DEF Spec

(***************************************************************************)
(* All nine handle_streaming loops deliver a stream alike, however long it *)
(* is: each content once, one final chunk and that as the last, the time   *)
(* to the first token once and before any content.                         *)
(***************************************************************************)
THEOREM StreamsAlike == Spec => []StreamDelivered
<1>1. ASSUME StreamInv PROVE StreamDelivered
  <2>1. PICK out : out = reader.out
    OBVIOUS
  <2>2. out \in Seq(Chunks) /\ DOMAIN out = 1..Len(out)
    BY <1>1, <2>1 DEF StreamInv, Following, Readers
  <2>3. Last(out) = out[Len(out)]
    BY DEF Last
  <2>4. PICK times : times = {i \in DOMAIN out : out[i].ttft}
    OBVIOUS
  <2>5. Timed(out, reader.ttft_recorded)
    BY <1>1, <2>1 DEF StreamInv, Following
  <2>6. /\ \A i, j \in times : i = j
        /\ \A i \in times : Contents(out, i - 1) = 0
        /\ Contents(out, Len(out)) > 0 => times # {}
    BY <2>2, <2>4, <2>5 DEF Timed
  <2>7. Contents(out, Len(out)) = told.content \/ reader.ended = "failed"
    BY <1>1, <2>1 DEF StreamInv, Following
  <2>8. \A i \in 1..Len(out) - 1 : ~out[i].is_final
    BY <1>1, <2>1 DEF StreamInv, Following, FinalFree
  <2>9. told.finished \/ told.done => reader.ended = "failed" \/ Last(out).is_final
    BY <1>1, <2>1, <2>3 DEF StreamInv, Following, EndsFinal
  <2> QED
    BY <2>1, <2>4, <2>6, <2>7, <2>8, <2>9 DEF StreamDelivered
<1> QED
  BY <1>1, StreamInvariant, PTL

(***************************************************************************)
(* The adapters' variables keep their types: a call that is over has a     *)
(* result, and a generator that has ended is not read again.               *)
(***************************************************************************)
THEOREM AdapterTypes == Spec => []TypeOK
<1>1. AnswerInv /\ StreamInv => TypeOK
  BY DEF AnswerInv, CallInv, Returned, StreamInv, Following, Readers, TypeOK, Operations
<1> QED
  BY <1>1, AnswerInvariant, StreamInvariant, PTL
=============================================================================
