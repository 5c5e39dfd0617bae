----------------------------- MODULE MCAdapters -----------------------------
(***************************************************************************)
(* Requests, answers and texts for Adapters: every way in which one of     *)
(* them differs for the code, alone or in pairs.                           *)
(***************************************************************************)
EXTENDS Adapters, Integers

Message(role, form, image) ==
    [role |-> role, content |-> [form |-> form, image |-> image],
     calls |-> FALSE, call_id |-> FALSE]

Messages ==
    {<<Message("user", "text", FALSE)>>,
     <<Message("user", "blocks", FALSE)>>,
     <<Message("user", "blocks", TRUE), Message("user", "text", FALSE)>>,
     <<[Message("assistant", "none", FALSE) EXCEPT !.calls = TRUE],
       [Message("tool", "text", FALSE) EXCEPT !.call_id = TRUE]>>}

Request == [model |-> "another", messages |-> <<Message("user", "text", FALSE)>>, options |-> {},
            tools |-> FALSE, tool_choice |-> None, schema |-> FALSE]

MCRequests ==
    {Request,
     [Request EXCEPT !.model = "glm-4.7", !.options = {"temperature 0"}, !.schema = TRUE]}
    \cup {[Request EXCEPT !.messages = messages, !.tools = TRUE, !.tool_choice = choice,
                          !.options = {"temperature 0", "stop", "user"}] :
            messages \in Messages, choice \in {None, "AUTO", "auto"}}

Plain == [before |-> <<"x">>, object |-> <<>>, after |-> <<>>]
NoText == [Plain EXCEPT !.before = <<>>]

Call(type, named) == [type |-> type, named |-> named]

Regular ==
    [kind : {"answer"}, choices : {TRUE}, message : {"dict"}, content : {Plain, NoText},
     finish : Reasons \cup {None, "null", "surprise"}, usage : {"prompt_tokens", "input_tokens",
     "in the choice", "absent", "null"}, conforms : {TRUE}, model : {None}, reasoning : {FALSE},
     calls : {<<>>, <<Call("function", TRUE)>>, <<Call("function", TRUE), Call("custom", FALSE)>>,
              <<Call("function", FALSE)>>}]

Empty == [kind |-> "answer", choices |-> TRUE, message |-> "null", content |-> NoText,
          finish |-> "stop", usage |-> "prompt_tokens", conforms |-> TRUE,
          model |-> None, reasoning |-> FALSE, calls |-> <<>>]

\* Answers that name a model or count reasoning tokens.
Telling ==
    {[Empty EXCEPT !.message = "dict", !.content = Plain, !.usage = usage, !.model = model,
                   !.reasoning = thought] :
        usage \in {"prompt_tokens", "input_tokens", "in the choice"},
        model \in {None, "another", "dated"}, thought \in BOOLEAN}

MCAnswers == Regular \cup Telling \cup {Empty, [Empty EXCEPT !.choices = FALSE]}

Key == <<"quote", "x", "quote", "colon">>
Object(value) == <<"{">> \o Key \o value \o <<"}">>
String(inside) == <<"quote">> \o inside \o <<"quote">>

Objects ==
    {<<"{", "nl", "}">>, Object(String(<<"}">>)), Object(String(<<"{", "escape", "quote">>)),
     Object(String(<<"escape", "escape">>)), Object(Object(String(<<"fence">>))),
     Object(<<"[">> \o Object(<<"1", "1">>) \o <<"]">>),
     <<"{", "1", "}">>, <<"{", "quote", "}">>,
     <<"[", "1", "]">>, <<"[", "[">> \o String(<<"]", "fence">>) \o <<"]", "nl", "]">>}

Before == {<<>>, <<"x", "fence", "nl">>, <<"fence", "quote">>, <<"[">>, <<"}">>, <<"[", "1", "]">>,
           <<"{", "x", "}">>, <<"escape">>}

After == {<<>>, <<"nl", "fence">>, <<"fence">>, <<"}">>, <<"{">>, <<"quote", "}">>, <<"]">>}

Written(before, object, after) ==
    [Empty EXCEPT !.message = "dict",
                  !.content = [before |-> before, object |-> object, after |-> after]]

MCStructuredAnswers ==
    {Written(before, object, after) : before \in Before, object \in Objects, after \in After}
    \cup {[Written(<<>>, object, <<>>) EXCEPT !.conforms = FALSE] : object \in Objects}
    \cup {Written(<<>>, <<>>, <<>>)}

MCData == {<<>>, <<[index |-> 0], [index |-> 1]>>, <<[index |-> 1], [index |-> 0]>>}

Item(index, score) == [index |-> index, relevance_score |-> score, score |-> 1]

MCItems ==
    {<<>>} \cup {<<Item(i, s), Item(1 - i, t)>> : i \in 0..1, s, t \in {NoScore, 0, 2}}
    \cup {<<Item(0, NoScore), [Item(1, NoScore) EXCEPT !.score = NoScore], Item(2, 2)>>}

MCEvents ==
    {e \in [kind : {"event"}, content : BOOLEAN, reasoning : BOOLEAN,
            finish : {None, "stop", "surprise"}, call : {"none", "begins", "goes on", "unnamed"}] :
        e.reasoning => ~e.content /\ e.call = "none"}
=============================================================================
