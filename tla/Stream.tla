------------------------------- MODULE Stream -------------------------------
(***************************************************************************)
(* client.py, _execute_streaming_chat: the generator that turns the lines  *)
(* of one provider's answer into StreamChunks, for one request and the     *)
(* caller who iterates over it.                                            *)
(*                                                                         *)
(* A line is an event that says nothing (blank, not JSON, no choices), the *)
(* [DONE] mark, one that is JSON of an unexpected shape, or an event.  A   *)
(* delta of content is abstracted to its presence: what validation covers  *)
(* is the number of deltas joined so far.                                  *)
(***************************************************************************)
EXTENDS Integers, Sequences, FiniteSets, SequencesExt

CONSTANTS
    Ids,        \* ids an event may carry
    MaxLines    \* bound: lines of the answer

ASSUME StreamAssumption == MaxLines \in Nat

VARIABLES
    output_schema,  \* the request has an output_schema
    callback,       \* the caller passed a stream_callback
    pc,             \* where the generator is
    lines,          \* lines read
    first_chunk, finish_reason, seen_ids, finalized,    \* its locals
    content_parts,  \* the number of deltas it has accumulated
    chunk,          \* the chunk under construction, or yielded last
    outcome,        \* how the generator ended
    out,            \* the chunks the caller has got
    called,         \* the chunks the callback has got
    arguments       \* history: parts of tool calls the provider has sent

request == <<output_schema, callback>>
parser == <<first_chunk, finish_reason, seen_ids, content_parts>>
vars == <<request, pc, lines, parser, finalized, chunk, outcome, out, called, arguments>>

NoId == "no id"

\* A tool call begins in an event with its id and goes on in others without.
ToolCalls == {"none", "begins", "goes on"}

Event == [content : BOOLEAN, finish : BOOLEAN, id : Ids \cup {NoId}, call : ToolCalls]

Unparsed == 0

Chunk == [content : BOOLEAN, finish : BOOLEAN, is_final : BOOLEAN, id : Ids \cup {NoId},
          ttft : BOOLEAN, calls : 0..1, parsed : 0..MaxLines]

\* StreamChunk(is_final=True, parsed=...): the one after [DONE] or at the end.
Closing(parsed) ==
    [content |-> FALSE, finish |-> FALSE, is_final |-> TRUE, id |-> NoId,
     ttft |-> FALSE, calls |-> 0, parsed |-> parsed]

ControlOK ==
    /\ output_schema \in BOOLEAN /\ callback \in BOOLEAN
    /\ pc \in {"new", "reading", "calling", "at chunk", "at done", "ended", "at end", "over"}
    /\ first_chunk \in BOOLEAN /\ finish_reason \in BOOLEAN /\ finalized \in BOOLEAN
    /\ outcome \in {"none", "returned", "refused", "network", "schema", "raised", "closed"}

CountsOK ==
    /\ lines \in 0..MaxLines
    /\ content_parts \in 0..(IF output_schema THEN lines ELSE 0)
    /\ arguments \in 0..lines

ChunksOK ==
    /\ seen_ids \subseteq Ids
    /\ chunk \in Chunk
    /\ out \in Seq(Chunk) /\ called \in Seq(Chunk)

TypeOK == ControlOK /\ CountsOK /\ ChunksOK

Init ==
    /\ output_schema \in BOOLEAN /\ callback \in BOOLEAN
    /\ pc = "new" /\ outcome = "none"
    /\ lines = 0 /\ arguments = 0
    /\ first_chunk = TRUE /\ finish_reason = FALSE /\ finalized = FALSE
    /\ seen_ids = {} /\ content_parts = 0
    /\ chunk = Closing(Unparsed)
    /\ out = <<>> /\ called = <<>>

-----------------------------------------------------------------------------
(* How the generator moves and ends.                                       *)

Goto(from, to) == pc = from /\ pc' = to /\ UNCHANGED outcome

\* The generator is over; leaving the with block closes the connection.
Ends(how) == pc' = "over" /\ outcome' = how

Yield(c) == chunk' = c /\ out' = Append(out, c)

Keep == UNCHANGED <<request, lines, parser, finalized, chunk, out, called, arguments>>

\* Where the generator stands at a yield, in the caller's hands.
Suspended == pc \in {"at chunk", "at done", "at end"}

\* _finalize_parsed: what it returns when the content conforms, and when it
\* raises ResponseParsingError (only for content there is).
Validated(parts) == IF output_schema THEN parts ELSE Unparsed

MayFailValidation(parts) == output_schema /\ parts > 0

-----------------------------------------------------------------------------
(* The request.                                                            *)

\* Resolution, capability or key check fails, or the status is not 200.
Refused == pc = "new" /\ Ends("refused") /\ Keep

Connect == Goto("new", "reading") /\ Keep

\* httpx.RequestError, before the answer or in the middle of it: also every
\* timeout of httpx, which is one.
NetworkError == pc \in {"new", "reading"} /\ Ends("network") /\ Keep

-----------------------------------------------------------------------------
(* One line of the answer.                                                 *)

ReadLine == pc = "reading" /\ lines < MaxLines /\ lines' = lines + 1

\* Blank, not JSON, or without choices.
Skip ==
    /\ ReadLine
    /\ UNCHANGED <<request, pc, parser, finalized, chunk, outcome, out, called, arguments>>

\* An event without the dictionaries or enumerators it should have: the
\* exception is no httpx.RequestError and leaves as it is.
Malformed ==
    /\ ReadLine
    /\ Ends("raised")
    /\ UNCHANGED <<request, parser, finalized, chunk, out, called, arguments>>

\* [DONE]: the closing chunk is yielded before `finalized` is set.
Done ==
    /\ ReadLine
    /\ \/ /\ pc' = "at done" /\ UNCHANGED outcome
          /\ Yield(Closing(Validated(content_parts)))
       \/ /\ MayFailValidation(content_parts)
          /\ Ends("schema")
          /\ UNCHANGED <<chunk, out>>
    /\ UNCHANGED <<request, parser, finalized, called, arguments>>

FirstContent_AnyChunk(e) == first_chunk

\* TTFT is taken at the first chunk with content.
FirstContent(e) == first_chunk /\ e.content

\* An id is shown once.
ShownId(e) == IF e.id \in seen_ids THEN NoId ELSE e.id

Parts_AfterFinish(e) == content_parts + (IF e.content /\ output_schema /\ ~e.finish THEN 1 ELSE 0)

Parts_WithoutSchema(e) == content_parts + (IF e.content THEN 1 ELSE 0)

\* content_parts once this event's content was appended.
Parts(e) == content_parts + (IF e.content /\ output_schema THEN 1 ELSE 0)

\* A part of a tool call without an id is left out.
ShownCalls(e) == IF e.call = "begins" THEN 1 ELSE 0

ChunkOf(e) ==
    [content |-> e.content, finish |-> e.finish, is_final |-> e.finish, id |-> ShownId(e),
     ttft |-> FirstContent(e), calls |-> ShownCalls(e),
     parsed |-> IF e.finish THEN Validated(Parts(e)) ELSE Unparsed]

\* Everything an event changes before its chunk is shown to anyone.
Parse(e) ==
    /\ first_chunk' = (first_chunk /\ ~FirstContent(e))
    /\ finish_reason' = e.finish
    /\ seen_ids' = seen_ids \cup ({e.id} \ {NoId})
    /\ content_parts' = Parts(e)
    /\ finalized' = (finalized \/ (e.finish /\ output_schema))
    /\ e.call = "goes on" => arguments > 0
    /\ arguments' = arguments + (IF e.call = "none" THEN 0 ELSE 1)
    /\ UNCHANGED <<request, called>>

GoesToCallback_ContentOnly(e) == callback /\ e.content

\* Any chunk made of an event goes to the callback first, if there is one.
GoesToCallback(e) == callback

Delta(e) ==
    /\ ReadLine
    /\ Parse(e)
    /\ UNCHANGED outcome
    /\ IF GoesToCallback(e)
         THEN pc' = "calling" /\ chunk' = ChunkOf(e) /\ UNCHANGED out
         ELSE pc' = "at chunk" /\ Yield(ChunkOf(e))

\* The content does not conform: the terminal chunk is never shown.
BadSchema(e) ==
    /\ ReadLine
    /\ e.finish /\ MayFailValidation(Parts(e))
    /\ Parse(e)
    /\ Ends("schema")
    /\ UNCHANGED <<chunk, out>>

\* callback(chunk) returns, and the chunk is yielded.
CallbackReturns ==
    /\ Goto("calling", "at chunk")
    /\ called' = Append(called, chunk)
    /\ Yield(chunk)
    /\ UNCHANGED <<request, lines, parser, finalized, arguments>>

CallbackRaises ==
    /\ pc = "calling"
    /\ Ends("raised")
    /\ called' = Append(called, chunk)
    /\ UNCHANGED <<request, lines, parser, finalized, chunk, out, arguments>>

-----------------------------------------------------------------------------
(* The end of the answer.                                                  *)

\* The provider ends its answer without [DONE] or finish_reason.
AnswerEnds == Goto("reading", "ended") /\ Keep

NeedsClosing_Always == output_schema /\ content_parts > 0

NeedsClosing == output_schema /\ content_parts > 0 /\ ~finalized

\* Content no chunk has validated yet is validated in one more chunk.
Close ==
    /\ pc = "ended"
    /\ \/ /\ NeedsClosing
          /\ Goto("ended", "at end")
          /\ Yield(Closing(Validated(content_parts)))
       \/ /\ NeedsClosing
          /\ Ends("schema")
          /\ UNCHANGED <<chunk, out>>
       \/ /\ ~NeedsClosing
          /\ Ends("returned")
          /\ UNCHANGED <<chunk, out>>
    /\ UNCHANGED <<request, lines, parser, finalized, called, arguments>>

-----------------------------------------------------------------------------
(* The caller.                                                             *)

\* After a chunk with a finish_reason the loop breaks.
ResumeChunk == Goto("at chunk", IF finish_reason THEN "ended" ELSE "reading") /\ Keep

ResumeDone ==
    /\ Goto("at done", "ended")
    /\ finalized' = TRUE
    /\ UNCHANGED <<request, lines, parser, chunk, out, called, arguments>>

ResumeEnd == pc = "at end" /\ Ends("returned") /\ Keep

\* The caller closes or drops the generator at a yield, or before it began.
Abandon == (Suspended \/ pc = "new") /\ Ends("closed") /\ Keep

Over == pc = "over" /\ UNCHANGED vars

Next ==
    \/ Refused \/ Connect \/ NetworkError
    \/ Skip \/ Malformed \/ Done
    \/ \E e \in Event : Delta(e) \/ BadSchema(e)
    \/ CallbackReturns \/ CallbackRaises
    \/ AnswerEnds \/ Close
    \/ ResumeChunk \/ ResumeDone \/ ResumeEnd \/ Abandon
    \/ Over

Spec == Init /\ [][Next]_vars

-----------------------------------------------------------------------------
(* Properties.                                                             *)

(***************************************************************************)
(* Whatever the provider sends, after a chunk with is_final the caller     *)
(* gets no other, although three places of the code yield a final chunk:   *)
(* a caller that stops at the first one misses nothing.                    *)
(***************************************************************************)
FinalChunkIsLast == \A i \in 1..Len(out) - 1 : ~out[i].is_final

\* How many of the first n chunks have content.
Contents(chunks, n) == Cardinality({i \in 1..n : chunks[i].content})

(***************************************************************************)
(* With an output_schema, content is validated once, as a whole, and in    *)
(* time: a final chunk carries the object parsed from every delta the      *)
(* caller has by then, and a stream that gave content does not return      *)
(* without such a chunk, even if the provider sends neither [DONE] nor a   *)
(* finish_reason.                                                          *)
(***************************************************************************)
ValidatedWhole ==
    output_schema =>
        /\ \A i \in 1..Len(out) :
             out[i].parsed = IF out[i].is_final THEN Contents(out, i) ELSE Unparsed
        /\ outcome = "returned" /\ Contents(out, Len(out)) > 0 => Last(out).is_final

(***************************************************************************)
(* ttft_ms is on the first chunk that has content and on no other, and no  *)
(* id is shown twice, also when events without content or with another id  *)
(* come between.                                                           *)
(***************************************************************************)
ShownOnce ==
    /\ \A i \in 1..Len(out) : out[i].ttft <=> out[i].content /\ Contents(out, i) = 1
    /\ \A i, j \in 1..Len(out) : i # j /\ out[i].id # NoId => out[i].id # out[j].id

(***************************************************************************)
(* The callback gets the chunks made of events in the caller's order, and  *)
(* each before the caller does: all the caller has, but for the closing    *)
(* chunk of [DONE] or of an answer that just ends, and one more only if it *)
(* raised on it.                                                           *)
(***************************************************************************)
CallbackFirst ==
    callback => \/ called = out
                \/ \E n \in 0..MaxLines : out = Append(called, Closing(n))
                \/ outcome = "raised" /\ called = Append(out, chunk)
=============================================================================
