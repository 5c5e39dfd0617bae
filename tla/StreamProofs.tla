---------------------------- MODULE StreamProofs ----------------------------
(***************************************************************************)
(* What is proved of the streaming generator, for answers of any length    *)
(* and any ids.                                                            *)
(***************************************************************************)
EXTENDS Stream, FiniteSetTheorems, TLAPS

LEMMA ClosingType ==
    ASSUME NEW parts \in 0..MaxLines PROVE Closing(Validated(parts)) \in Chunk
<1>1. Validated(parts) \in 0..MaxLines
  BY StreamAssumption DEF Validated, Unparsed
<1> QED
  BY <1>1 DEF Closing, Chunk

LEMMA ChunkTypes ==
    ASSUME CountsOK
    PROVE  /\ content_parts \in 0..MaxLines
           /\ Closing(Validated(content_parts)) \in Chunk
<1>1. content_parts \in 0..MaxLines
  BY StreamAssumption DEF CountsOK
<1> QED
  BY <1>1, ClosingType

\* A delta adds at most one part, and only to a request with a schema.
LEMMA EventTypes ==
    ASSUME TypeOK, ReadLine, NEW e \in Event
    PROVE  /\ lines' \in 0..MaxLines
           /\ Parts(e) \in 0..(IF output_schema THEN lines' ELSE 0)
           /\ ChunkOf(e) \in Chunk
<1>1. /\ lines \in 0..MaxLines
      /\ content_parts \in 0..(IF output_schema THEN lines ELSE 0)
      /\ first_chunk \in BOOLEAN
  BY DEF TypeOK, CountsOK, ControlOK
<1>2. lines' = lines + 1 /\ lines' \in 0..MaxLines
  BY <1>1, StreamAssumption DEF ReadLine
<1>3. Parts(e) \in 0..(IF output_schema THEN lines' ELSE 0)
  BY <1>1, <1>2, StreamAssumption DEF Parts
<1>4. Parts(e) \in 0..MaxLines
  BY <1>2, <1>3, StreamAssumption
<1>5. /\ e.content \in BOOLEAN /\ e.finish \in BOOLEAN
      /\ ShownId(e) \in Ids \cup {NoId}
      /\ FirstContent(e) \in BOOLEAN
      /\ ShownCalls(e) \in 0..1
      /\ (IF e.finish THEN Validated(Parts(e)) ELSE Unparsed) \in 0..MaxLines
  BY <1>1, <1>4, StreamAssumption DEF Event, ShownId, FirstContent, ShownCalls, Validated,
     Unparsed
<1>6. ChunkOf(e) \in Chunk
  BY <1>5 DEF ChunkOf, Chunk
<1> QED
  BY <1>2, <1>3, <1>6

LEMMA TypeInit == Init => TypeOK
<1> SUFFICES ASSUME Init PROVE TypeOK
  OBVIOUS
<1>1. ControlOK
  BY DEF Init, ControlOK
<1>2. CountsOK
  BY StreamAssumption DEF Init, CountsOK
<1>3. chunk \in Chunk
  BY StreamAssumption DEF Init, Chunk, Closing, Unparsed
<1>4. ChunksOK
  BY <1>3 DEF Init, ChunksOK
<1> QED
  BY <1>1, <1>2, <1>4 DEF TypeOK

LEMMA ControlStep == ControlOK /\ [Next]_vars => ControlOK'
<1> SUFFICES ASSUME ControlOK, [Next]_vars PROVE ControlOK'
  OBVIOUS
<1> USE DEF ControlOK, request, parser
<1>1. CASE Refused \/ Connect \/ NetworkError \/ AnswerEnds
  BY <1>1 DEF Refused, Connect, NetworkError, AnswerEnds, Goto, Ends, Keep
<1>2. CASE ResumeChunk \/ ResumeDone \/ ResumeEnd \/ Abandon
  BY <1>2 DEF ResumeChunk, ResumeDone, ResumeEnd, Abandon, Goto, Ends, Keep
<1>3. CASE Skip \/ Malformed \/ Done
  BY <1>3, ZenonT(30) DEF Skip, Malformed, Done, Ends
<1>4. ASSUME NEW e \in Event, Delta(e) \/ BadSchema(e) PROVE ControlOK'
  BY <1>4 DEF Delta, BadSchema, Parse, Event, FirstContent, Ends
<1>5. CASE CallbackReturns \/ CallbackRaises \/ Close
  BY <1>5 DEF CallbackReturns, CallbackRaises, Close, Goto, Ends
<1>6. CASE UNCHANGED vars
  BY <1>6 DEF vars
<1> QED
  BY <1>1, <1>2, <1>3, <1>4, <1>5, <1>6 DEF Next, Over

LEMMA CountsStep == TypeOK /\ [Next]_vars => CountsOK'
<1> SUFFICES ASSUME TypeOK, [Next]_vars PROVE CountsOK'
  OBVIOUS
<1>0. CountsOK
  BY DEF TypeOK
<1> USE DEF CountsOK, request, parser
<1>1. CASE UNCHANGED <<output_schema, lines, content_parts, arguments>>
  BY <1>0, <1>1
<1>2. CASE Skip \/ Malformed \/ Done
  <2>1. ReadLine /\ UNCHANGED <<output_schema, content_parts, arguments>>
    BY <1>2 DEF Skip, Malformed, Done
  <2>2. lines' \in 0..MaxLines /\ arguments' \in 0..lines'
    BY <1>0, <2>1, StreamAssumption DEF ReadLine
  <2>3. content_parts' \in 0..(IF output_schema' THEN lines' ELSE 0)
    BY <1>0, <2>1, StreamAssumption DEF ReadLine
  <2> QED
    BY <2>2, <2>3
<1>3. ASSUME NEW e \in Event, Delta(e) \/ BadSchema(e) PROVE CountsOK'
  <2>1. ReadLine /\ Parse(e)
    BY <1>3 DEF Delta, BadSchema
  <2>2. /\ arguments' = arguments + (IF e.call = "none" THEN 0 ELSE 1)
        /\ lines' = lines + 1
    BY <2>1 DEF Parse, ReadLine
  <2>3. arguments' \in 0..lines'
    BY <1>0, <2>2, StreamAssumption
  <2> QED
    BY <2>1, <2>3, EventTypes DEF Parse
<1> QED
  BY <1>1, <1>2, <1>3 DEF Next, Over, vars, Refused, Connect, NetworkError, AnswerEnds,
     ResumeChunk, ResumeDone, ResumeEnd, Abandon, CallbackReturns, CallbackRaises, Close, Keep

LEMMA ChunksStep == TypeOK /\ [Next]_vars => ChunksOK'
<1> SUFFICES ASSUME TypeOK, [Next]_vars PROVE ChunksOK'
  OBVIOUS
<1>0. ChunksOK /\ CountsOK
  BY DEF TypeOK
<1> USE DEF request, parser
<1>1. CASE UNCHANGED <<seen_ids, chunk, out, called>>
  BY <1>0, <1>1 DEF ChunksOK
<1>2. CASE Done
  <2>1. UNCHANGED <<seen_ids, called>>
    BY <1>2 DEF Done
  <2>2. UNCHANGED <<chunk, out>> \/ Yield(Closing(Validated(content_parts)))
    BY <1>2 DEF Done
  <2> QED
    BY <1>0, <2>1, <2>2, ChunkTypes DEF Yield, ChunksOK
<1>3. ASSUME NEW e \in Event, Delta(e) \/ BadSchema(e) PROVE ChunksOK'
  <2>1. /\ ReadLine
        /\ Parse(e)
        /\ chunk' = chunk \/ chunk' = ChunkOf(e)
        /\ out' = out \/ out' = Append(out, ChunkOf(e))
    BY <1>3 DEF Delta, BadSchema, Yield
  <2>2. seen_ids' \subseteq Ids /\ UNCHANGED called
    BY <1>0, <2>1 DEF Parse, Event, ChunksOK
  <2>3. ChunkOf(e) \in Chunk
    BY <2>1, EventTypes
  <2>4. chunk' \in Chunk /\ out' \in Seq(Chunk)
    BY <1>0, <2>1, <2>3 DEF ChunksOK
  <2> QED
    BY <1>0, <2>2, <2>4 DEF ChunksOK
<1>4. CASE CallbackReturns \/ CallbackRaises
  <2>1. UNCHANGED seen_ids /\ called' = Append(called, chunk)
    BY <1>4 DEF CallbackReturns, CallbackRaises
  <2>2. UNCHANGED <<chunk, out>> \/ Yield(chunk)
    BY <1>4 DEF CallbackReturns, CallbackRaises
  <2> QED
    BY <1>0, <2>1, <2>2 DEF Yield, ChunksOK
<1>5. CASE Close
  <2>1. UNCHANGED <<seen_ids, called>>
    BY <1>5 DEF Close
  <2>2. UNCHANGED <<chunk, out>> \/ Yield(Closing(Validated(content_parts)))
    BY <1>5 DEF Close
  <2> QED
    BY <1>0, <2>1, <2>2, ChunkTypes DEF Yield, ChunksOK
<1> QED
  BY <1>1, <1>2, <1>3, <1>4, <1>5 DEF Next, Over, vars, Refused, Connect, NetworkError,
     AnswerEnds, Skip, Malformed, ResumeChunk, ResumeDone, ResumeEnd, Abandon, Keep

LEMMA TypeStep == TypeOK /\ [Next]_vars => TypeOK'
BY ControlStep, CountsStep, ChunksStep DEF TypeOK

(***************************************************************************)
(* The types of the streaming generator, for answers of any length: in     *)
(* particular content is accumulated only for a request with a schema.     *)
(***************************************************************************)
THEOREM StreamTypes == Spec => []TypeOK
BY TypeInit, TypeStep, PTL DEF Spec

-----------------------------------------------------------------------------
NoFinal(chunks) == \A i \in 1..Len(chunks) : ~chunks[i].is_final

\* A final chunk has been yielded only where nothing can follow it: at its
\* yield, after the loop with nothing left to validate, and when all is over.
FinalEndsIt ==
    /\ pc \in {"new", "reading", "calling"} => NoFinal(out)
    /\ pc = "at chunk" => finish_reason \/ NoFinal(out)
    /\ pc \in {"calling", "at chunk"} /\ finish_reason /\ output_schema => finalized
    /\ pc = "calling" => chunk.is_final = finish_reason
    /\ pc = "ended" => NoFinal(out) \/ ~NeedsClosing

IInv == TypeOK /\ FinalChunkIsLast /\ FinalEndsIt

\* A chunk may follow where none was final.
LEMMA OneMore ==
    ASSUME NEW chunks \in Seq(Chunk), NEW c \in Chunk, NoFinal(chunks)
    PROVE  /\ \A i \in 1..Len(Append(chunks, c)) - 1 : ~Append(chunks, c)[i].is_final
           /\ ~c.is_final => NoFinal(Append(chunks, c))
BY DEF NoFinal

LEMMA FinalInit == Init => IInv
BY TypeInit DEF Init, IInv, FinalChunkIsLast, FinalEndsIt, NoFinal

LEMMA FinalStep == IInv /\ [Next]_vars => IInv'
<1> SUFFICES ASSUME IInv, [Next]_vars PROVE (FinalChunkIsLast /\ FinalEndsIt)'
  BY TypeStep DEF IInv
<1> USE DEF IInv, request, parser
<1>1. CASE Refused \/ NetworkError \/ Abandon \/ ResumeEnd \/ Malformed \/ CallbackRaises
  BY <1>1 DEF Refused, NetworkError, Abandon, ResumeEnd, Malformed, CallbackRaises, Ends, Keep,
              FinalChunkIsLast, FinalEndsIt
<1>2. CASE Connect \/ AnswerEnds \/ Skip
  BY <1>2 DEF Connect, AnswerEnds, Skip, ReadLine, Goto, Keep, NoFinal, FinalChunkIsLast,
              FinalEndsIt
<1>3. CASE ResumeChunk \/ ResumeDone
  <2>1. UNCHANGED <<out, output_schema, content_parts, finish_reason>>
    BY <1>3 DEF ResumeChunk, ResumeDone, Keep
  <2>2. (NoFinal(out) <=> NoFinal(out)') /\ FinalChunkIsLast'
    BY <2>1 DEF NoFinal, FinalChunkIsLast
  <2>3. CASE ResumeChunk
    <3>1. pc = "at chunk" /\ finalized' = finalized
          /\ pc' = IF finish_reason THEN "ended" ELSE "reading"
      BY <2>3 DEF ResumeChunk, Goto, Keep
    <3>2. CASE finish_reason
      <4>1. ~NeedsClosing'
        BY <2>1, <3>1, <3>2 DEF NeedsClosing, FinalEndsIt
      <4> QED
        BY <2>2, <3>1, <3>2, <4>1 DEF FinalEndsIt
    <3>3. CASE ~finish_reason
      BY <2>1, <2>2, <3>1, <3>3 DEF FinalEndsIt
    <3> QED
      BY <3>2, <3>3
  <2>4. CASE ResumeDone
    BY <2>1, <2>2, <2>4 DEF ResumeDone, Goto, NeedsClosing, FinalEndsIt
  <2> QED
    BY <1>3, <2>3, <2>4
<1>4. CASE Done
  BY <1>4, ChunkTypes, OneMore DEF Done, ReadLine, Yield, Ends, TypeOK, ChunksOK, CountsOK,
              FinalChunkIsLast, FinalEndsIt
<1>5. ASSUME NEW e \in Event, Delta(e) PROVE (FinalChunkIsLast /\ FinalEndsIt)'
  <2>1. ChunkOf(e) \in Chunk /\ ChunkOf(e).is_final = finish_reason' /\ NoFinal(out)
    BY <1>5, EventTypes DEF Delta, ReadLine, Parse, ChunkOf, FinalEndsIt
  <2>2. finish_reason' /\ output_schema' => finalized'
    BY <1>5 DEF Delta, Parse
  <2>3. CASE pc' = "calling" /\ chunk' = ChunkOf(e) /\ UNCHANGED out
    BY <2>1, <2>2, <2>3 DEF FinalChunkIsLast, FinalEndsIt, NoFinal
  <2>4. CASE pc' = "at chunk" /\ Yield(ChunkOf(e))
    BY <2>1, <2>2, <2>4, OneMore DEF Yield, TypeOK, ChunksOK, FinalChunkIsLast, FinalEndsIt
  <2> QED
    BY <1>5, <2>3, <2>4 DEF Delta
<1>6. ASSUME NEW e \in Event, BadSchema(e) PROVE (FinalChunkIsLast /\ FinalEndsIt)'
  BY <1>6 DEF BadSchema, Ends, FinalChunkIsLast, FinalEndsIt
<1>7. CASE CallbackReturns
  BY <1>7, OneMore DEF CallbackReturns, Goto, Yield, TypeOK, ChunksOK, FinalChunkIsLast, FinalEndsIt
<1>8. CASE Close
  BY <1>8, ChunkTypes, OneMore DEF Close, Goto, Yield, Ends, TypeOK, ChunksOK, FinalChunkIsLast,
              FinalEndsIt
<1>9. CASE UNCHANGED vars
  BY <1>9 DEF vars, FinalChunkIsLast, FinalEndsIt, NoFinal, NeedsClosing
<1> QED
  BY <1>1, <1>2, <1>3, <1>4, <1>5, <1>6, <1>7, <1>8, <1>9 DEF Next, Over

(***************************************************************************)
(* Whatever a provider sends, and however long, no chunk follows one with  *)
(* is_final: of [DONE], finish_reason and the end of the answer only the   *)
(* first to come makes a final chunk.                                      *)
(***************************************************************************)
THEOREM FinalOnce == Spec => []FinalChunkIsLast
<1>1. IInv => FinalChunkIsLast
  BY DEF IInv
<1> QED
  BY <1>1, FinalInit, FinalStep, PTL DEF Spec

-----------------------------------------------------------------------------
(* Content, ids and the callback: what the locals say of the chunks shown. *)

Shown(n) == Contents(out, n)

\* A chunk the callback holds is not out yet.
Held == IF pc = "calling" /\ chunk.content THEN 1 ELSE 0

\* A final chunk is the last one out.
EndsFinal == out # <<>> /\ Last(out).is_final

\* The parts accumulated are those shown, and the chunk under way carries them
\* all if it is final; `finalized` stands for a final chunk.
Joined ==
    /\ output_schema /\ pc # "over" => content_parts = Shown(Len(out)) + Held
    /\ output_schema /\ pc = "calling" =>
         chunk.parsed = IF chunk.is_final THEN content_parts ELSE Unparsed
    /\ pc \in {"new", "reading"} => ~finalized
    /\ pc = "calling" /\ finalized => chunk.is_final
    /\ pc \in {"at chunk", "ended"} /\ finalized => EndsFinal
    /\ pc \in {"at done", "at end"} => EndsFinal

\* first_chunk says that no content was shown; the ids shown are seen ones, and
\* the chunk under way has another.
Firsts ==
    /\ pc # "over" => (first_chunk <=> Shown(Len(out)) + Held = 0)
    /\ pc = "calling" => (chunk.ttft <=> chunk.content /\ Shown(Len(out)) = 0)
    /\ pc # "over" => \A i \in 1..Len(out) : out[i].id \in seen_ids \cup {NoId}
    /\ pc = "calling" => /\ chunk.id \in seen_ids \cup {NoId}
                         /\ chunk.id # NoId => \A i \in 1..Len(out) : chunk.id # out[i].id

\* Until the closing chunk the callback has had what the caller has.
InStep ==
    /\ pc # "over" => outcome = "none"
    /\ callback /\ pc \in {"new", "reading", "calling", "at chunk"} => called = out
    /\ callback /\ pc = "ended" /\ ~finalized => called = out

ShownInv ==
    /\ IInv
    /\ ValidatedWhole /\ Joined
    /\ ShownOnce /\ Firsts
    /\ CallbackFirst /\ InStep

-----------------------------------------------------------------------------
(* One more chunk.                                                         *)

AllParsed(chunks) ==
    \A i \in 1..Len(chunks) :
        chunks[i].parsed = IF chunks[i].is_final THEN Contents(chunks, i) ELSE Unparsed

FirstTimed(chunks) ==
    \A i \in 1..Len(chunks) : chunks[i].ttft <=> chunks[i].content /\ Contents(chunks, i) = 1

DistinctIds(chunks) ==
    \A i, j \in 1..Len(chunks) : i # j /\ chunks[i].id # NoId => chunks[i].id # chunks[j].id

LEMMA ContentsType ==
    ASSUME NEW chunks, NEW n \in Nat PROVE Contents(chunks, n) \in Nat
<1>1. IsFiniteSet(1..n)
  BY FS_Interval
<1>2. IsFiniteSet({i \in 1..n : chunks[i].content})
  BY <1>1, FS_Subset
<1> QED
  BY <1>2, FS_CardinalityType DEF Contents

\* What one more chunk adds.
LEMMA ContentsAppend ==
    ASSUME NEW chunks \in Seq(Chunk), NEW c \in Chunk
    PROVE  /\ \A n \in 0..Len(chunks) : Contents(Append(chunks, c), n) = Contents(chunks, n)
           /\ Contents(Append(chunks, c), Len(chunks) + 1)
                = Contents(chunks, Len(chunks)) + (IF c.content THEN 1 ELSE 0)
<1> DEFINE more == Append(chunks, c)
           old == {i \in 1..Len(chunks) : chunks[i].content}
           new == {i \in 1..Len(chunks) + 1 : more[i].content}
<1>1. Len(chunks) \in Nat
  OBVIOUS
<1>2. \A i \in 1..Len(chunks) : more[i] = chunks[i]
  OBVIOUS
<1>3. more[Len(chunks) + 1] = c
  OBVIOUS
<1>4. \A n \in 0..Len(chunks) : Contents(more, n) = Contents(chunks, n)
  <2> SUFFICES ASSUME NEW n \in 0..Len(chunks) PROVE Contents(more, n) = Contents(chunks, n)
    OBVIOUS
  <2>1. {i \in 1..n : more[i].content} = {i \in 1..n : chunks[i].content}
    BY <1>1, <1>2
  <2> QED
    BY <2>1 DEF Contents
<1>5. IsFiniteSet(old)
  <2>1. IsFiniteSet(1..Len(chunks)) /\ old \in SUBSET (1..Len(chunks))
    BY <1>1, FS_Interval
  <2> QED
    BY <2>1, FS_Subset
<1>6. new = IF c.content THEN old \cup {Len(chunks) + 1} ELSE old
  <2> HIDE DEF more
  <2>1. \A i \in 1..Len(chunks) + 1 : i \in 1..Len(chunks) \/ i = Len(chunks) + 1
    BY <1>1
  <2>2. 1..Len(chunks) \subseteq 1..Len(chunks) + 1 /\ Len(chunks) + 1 \in 1..Len(chunks) + 1
    BY <1>1
  <2> QED
    BY <1>2, <1>3, <2>1, <2>2
<1>7. Len(chunks) + 1 \notin old
  BY <1>1
<1>8. Cardinality(old) \in Nat
  BY <1>5, FS_CardinalityType
<1>9. Cardinality(new) = Cardinality(old) + (IF c.content THEN 1 ELSE 0)
  <2> HIDE DEF old, new
  <2>1. Cardinality(old \cup {Len(chunks) + 1}) = Cardinality(old) + 1
    BY <1>5, <1>7, FS_AddElement
  <2> QED
    BY <1>6, <1>8, <2>1
<1> QED
  BY <1>4, <1>9 DEF Contents

LEMMA PlusZero == \A n \in Nat : n + 0 = n
OBVIOUS

LEMMA ShownNext ==
    ASSUME NEW c \in Chunk, out \in Seq(Chunk), out' = Append(out, c)
    PROVE  Shown(Len(out))' \in Nat
<1>1. out' \in Seq(Chunk)
  OBVIOUS
<1>2. Len(out') \in Nat
  BY <1>1
<1>3. PICK chunks, k : chunks = out' /\ k = Len(out')
  OBVIOUS
<1>4. Contents(chunks, k) \in Nat
  BY <1>2, <1>3, ContentsType
<1> QED
  BY <1>3, <1>4 DEF Shown, Contents

LEMMA OneOrNone ==
    ASSUME NEW n \in Nat, NEW b \in BOOLEAN
    PROVE  /\ n + (IF b THEN 1 ELSE 0) \in Nat
           /\ n + (IF b THEN 1 ELSE 0) + 0 = n + (IF b THEN 1 ELSE 0)
           /\ n + (IF b THEN 1 ELSE 0) = 0 <=> n = 0 /\ ~b
OBVIOUS

LEMMA ParsedAppend ==
    ASSUME NEW chunks \in Seq(Chunk), NEW c \in Chunk, AllParsed(chunks),
           c.parsed = IF c.is_final
                        THEN Contents(chunks, Len(chunks)) + (IF c.content THEN 1 ELSE 0)
                        ELSE Unparsed
    PROVE  AllParsed(Append(chunks, c))
<1> SUFFICES ASSUME NEW i \in 1..Len(Append(chunks, c))
             PROVE  Append(chunks, c)[i].parsed
                      = IF Append(chunks, c)[i].is_final THEN Contents(Append(chunks, c), i)
                                                         ELSE Unparsed
  BY DEF AllParsed
<1>1. CASE i \in 1..Len(chunks)
  <2>1. Append(chunks, c)[i] = chunks[i] /\ i \in 0..Len(chunks)
    BY <1>1
  <2> QED
    BY <1>1, <2>1, ContentsAppend DEF AllParsed
<1>2. CASE i = Len(chunks) + 1
  <2>1. Append(chunks, c)[i] = c
    BY <1>2
  <2> QED
    BY <1>2, <2>1, ContentsAppend
<1> QED
  BY <1>1, <1>2

LEMMA TimedAppend ==
    ASSUME NEW chunks \in Seq(Chunk), NEW c \in Chunk, FirstTimed(chunks),
           c.ttft <=> c.content /\ Contents(chunks, Len(chunks)) = 0
    PROVE  FirstTimed(Append(chunks, c))
<1> SUFFICES ASSUME NEW i \in 1..Len(Append(chunks, c))
             PROVE  Append(chunks, c)[i].ttft
                      <=> Append(chunks, c)[i].content /\ Contents(Append(chunks, c), i) = 1
  BY DEF FirstTimed
<1>1. CASE i \in 1..Len(chunks)
  <2>1. Append(chunks, c)[i] = chunks[i] /\ i \in 0..Len(chunks)
    BY <1>1
  <2> QED
    BY <1>1, <2>1, ContentsAppend DEF FirstTimed
<1>2. CASE i = Len(chunks) + 1
  <2>1. Append(chunks, c)[i] = c
    BY <1>2
  <2>2. Contents(chunks, Len(chunks)) \in Nat
    BY ContentsType
  <2>3. Contents(Append(chunks, c), i)
          = Contents(chunks, Len(chunks)) + (IF c.content THEN 1 ELSE 0)
    BY <1>2, ContentsAppend
  <2> QED
    BY <2>1, <2>2, <2>3
<1> QED
  BY <1>1, <1>2

LEMMA IdsAppend ==
    ASSUME NEW chunks \in Seq(Chunk), NEW c \in Chunk, DistinctIds(chunks),
           c.id # NoId => \A i \in 1..Len(chunks) : c.id # chunks[i].id
    PROVE  DistinctIds(Append(chunks, c))
BY DEF DistinctIds

LEMMA LastAppend ==
    ASSUME NEW chunks \in Seq(Chunk), NEW c \in Chunk
    PROVE  /\ Append(chunks, c) # <<>>
           /\ Last(Append(chunks, c)) = c
           /\ Len(Append(chunks, c)) = Len(chunks) + 1
BY DEF Last

LEMMA AppendAt ==
    ASSUME NEW chunks \in Seq(Chunk), NEW c \in Chunk, NEW i \in 1..Len(Append(chunks, c))
    PROVE  \/ i \in 1..Len(chunks) /\ Append(chunks, c)[i] = chunks[i]
           \/ Append(chunks, c)[i] = c
OBVIOUS

LEMMA ClosingFields ==
    ASSUME NEW n \in 0..MaxLines
    PROVE  /\ Closing(n) \in Chunk
           /\ Closing(n).is_final /\ ~Closing(n).content /\ ~Closing(n).ttft
           /\ Closing(n).id = NoId /\ Closing(n).parsed = n
BY DEF Closing, Chunk

\* The chunk made of an event.
LEMMA EventFields ==
    ASSUME TypeOK, ReadLine, NEW e \in Event
    PROVE  /\ ChunkOf(e) \in Chunk
           /\ ChunkOf(e).content = e.content /\ ChunkOf(e).is_final = e.finish
           /\ ChunkOf(e).id = ShownId(e) /\ ChunkOf(e).ttft = FirstContent(e)
           /\ ChunkOf(e).parsed = IF e.finish THEN Validated(Parts(e)) ELSE Unparsed
           /\ e.content \in BOOLEAN /\ e.finish \in BOOLEAN /\ e.id \in Ids \cup {NoId}
BY EventTypes DEF ChunkOf, Event

\* What ShownInv says of the types.
LEMMA ShownTypes ==
    ASSUME ShownInv
    PROVE  /\ out \in Seq(Chunk) /\ called \in Seq(Chunk) /\ chunk \in Chunk
           /\ content_parts \in 0..MaxLines
           /\ Shown(Len(out)) \in Nat
           /\ ControlOK /\ seen_ids \subseteq Ids
<1>1. TypeOK
  BY DEF ShownInv, IInv
<1>2. Len(out) \in Nat
  BY <1>1 DEF TypeOK, ChunksOK
<1> QED
  BY <1>1, <1>2, ChunkTypes, ContentsType DEF TypeOK, ChunksOK, Shown

-----------------------------------------------------------------------------
(* Validation.                                                             *)

Whole == ValidatedWhole /\ Joined

\* A step that shows nothing and ends the generator, but not by returning.
LEMMA WholeEnds ==
    ASSUME ShownInv, UNCHANGED <<out, output_schema>>, pc' = "over", outcome' # "returned"
    PROVE  Whole'
BY DEF ShownInv, Whole, ValidatedWhole, Joined

\* A step of the loop that shows nothing.
LEMMA WholeQuiet ==
    ASSUME ShownInv, UNCHANGED <<out, output_schema, content_parts, chunk, outcome>>,
           pc # "over", pc # "calling", pc' # "calling",
           pc' \in {"new", "reading"} => ~finalized',
           pc' \in {"at chunk", "ended"} /\ finalized' => EndsFinal,
           pc' \in {"at done", "at end"} => EndsFinal
    PROVE  Whole'
<1>1. outcome = "none"
  BY DEF ShownInv, InStep
<1>2. ValidatedWhole'
  BY <1>1 DEF ShownInv, ValidatedWhole
<1>3. output_schema => content_parts = Shown(Len(out)) + 0
  BY DEF ShownInv, Joined, Held
<1>4. Held' = 0 /\ Shown(Len(out))' = Shown(Len(out)) /\ (EndsFinal => EndsFinal')
  BY DEF Held, Shown, EndsFinal
<1>5. Joined'
  BY <1>3, <1>4 DEF Joined
<1> QED
  BY <1>2, <1>5 DEF Whole

\* A step that shows a chunk.
LEMMA WholeShows ==
    ASSUME ShownInv, NEW c \in Chunk, Yield(c), UNCHANGED <<output_schema, outcome>>,
           pc # "over", pc' \in {"at chunk", "at done", "at end"},
           output_schema =>
             /\ content_parts' = Shown(Len(out)) + (IF c.content THEN 1 ELSE 0)
             /\ c.parsed = IF c.is_final THEN content_parts' ELSE Unparsed,
           pc' = "at chunk" => (finalized' => c.is_final),
           pc' # "at chunk" => c.is_final
    PROVE  Whole'
<1>0. outcome = "none"
  BY DEF ShownInv, InStep
<1>1. out \in Seq(Chunk) /\ out' = Append(out, c)
  BY ShownTypes DEF Yield
<1>2. output_schema => AllParsed(out)
  BY DEF ShownInv, ValidatedWhole, AllParsed
<1>3. output_schema => AllParsed(out')
  BY <1>1, <1>2, ParsedAppend DEF Shown
<1>4. ValidatedWhole'
  BY <1>0, <1>3 DEF ValidatedWhole, AllParsed
<1>5. out' # <<>> /\ Last(out') = c /\ Len(out') = Len(out) + 1
  BY <1>1, LastAppend
<1>6. Shown(Len(out))' = Shown(Len(out)) + (IF c.content THEN 1 ELSE 0)
  BY <1>1, <1>5, ContentsAppend DEF Shown
<1>7. Shown(Len(out)) \in Nat
  BY ShownTypes
<1>8. output_schema' => content_parts' = Shown(Len(out))' + Held'
  <2>1. Held' = 0
    BY DEF Held
  <2>2. c.content \in BOOLEAN
    BY DEF Chunk
  <2>3. ASSUME output_schema' PROVE content_parts' = Shown(Len(out))'
    <3>1. output_schema
      BY <2>3
    <3>2. content_parts' = Shown(Len(out)) + (IF c.content THEN 1 ELSE 0)
      BY <3>1
    <3> QED
      BY <1>6, <3>2
  <2>4. Shown(Len(out))' + 0 = Shown(Len(out))'
    <3>1. Shown(Len(out))' \in Nat
      BY <1>1, ShownNext
    <3>2. PICK n \in Nat : n = Shown(Len(out))'
      BY <3>1
    <3>3. n + 0 = n
      BY PlusZero
    <3> QED
      BY <3>2, <3>3
  <2> QED
    BY <2>1, <2>3, <2>4
<1>9. Joined'
  BY <1>5, <1>8 DEF Joined, EndsFinal
<1> QED
  BY <1>4, <1>9 DEF Whole

LEMMA WholeStep == ShownInv /\ [Next]_vars => Whole'
<1> SUFFICES ASSUME ShownInv, [Next]_vars PROVE Whole'
  OBVIOUS
<1> USE DEF request, parser
<1>0. /\ Shown(Len(out)) \in Nat /\ content_parts \in 0..MaxLines
      /\ out \in Seq(Chunk) /\ chunk \in Chunk /\ ControlOK
  BY ShownTypes
<1>1. CASE Refused \/ NetworkError \/ Abandon \/ Malformed \/ CallbackRaises
  BY <1>1, WholeEnds DEF Refused, NetworkError, Abandon, Malformed, CallbackRaises, Ends, Keep
<1>2. ASSUME NEW e \in Event, BadSchema(e) PROVE Whole'
  BY <1>2, WholeEnds DEF BadSchema, Parse, Ends
<1>3. CASE Connect \/ AnswerEnds \/ Skip
  <2>1. pc \in {"new", "reading"} /\ ~finalized
    BY <1>3 DEF Connect, AnswerEnds, Skip, ReadLine, Goto, ShownInv, Joined
  <2>2. /\ pc' \in {"reading", "ended"}
        /\ UNCHANGED <<out, output_schema, content_parts, chunk, outcome, finalized>>
    BY <1>3 DEF Connect, AnswerEnds, Skip, ReadLine, Goto, Keep
  <2> QED
    BY <2>1, <2>2, WholeQuiet
<1>4. CASE Done
  <2>1. CASE Ends("schema")
    BY <1>4, <2>1, WholeEnds DEF Done, Ends
  <2>2. CASE Yield(Closing(Validated(content_parts)))
    <3> DEFINE n == Validated(content_parts)
    <3>1. n \in 0..MaxLines /\ (output_schema => n = content_parts)
      BY <1>0, StreamAssumption DEF Validated, Unparsed
    <3>2. Held = 0 /\ pc = "reading"
      BY <1>4 DEF Done, ReadLine, Held
    <3>3. output_schema => content_parts = Shown(Len(out))
      BY <1>0, <3>2 DEF ShownInv, Joined
    <3>4. CASE pc' = "at done"
      <4>1. UNCHANGED <<output_schema, outcome, content_parts>>
        BY <1>4, <3>4 DEF Done, Ends
      <4> HIDE DEF n
      <4>2. /\ Closing(n) \in Chunk /\ Closing(n).is_final /\ ~Closing(n).content
            /\ Closing(n).parsed = n
        BY <3>1, ClosingFields
      <4>3. Yield(Closing(n))
        BY <2>2 DEF n
      <4>4. output_schema =>
              /\ content_parts' = Shown(Len(out)) + (IF Closing(n).content THEN 1 ELSE 0)
              /\ Closing(n).parsed = IF Closing(n).is_final THEN content_parts' ELSE Unparsed
        BY <1>0, <3>1, <3>3, <4>1, <4>2
      <4> QED
        BY <3>2, <3>4, <4>1, <4>2, <4>3, <4>4, WholeShows
    <3> QED
      BY <1>4, <2>1, <3>4 DEF Done
  <2> QED
    BY <1>4, <2>1, <2>2 DEF Done
<1>5. ASSUME NEW e \in Event, Delta(e) PROVE Whole'
  <2>1. TypeOK /\ ReadLine /\ pc = "reading"
    BY <1>5 DEF ShownInv, IInv, Delta, ReadLine
  <2>2. /\ ChunkOf(e) \in Chunk
        /\ ChunkOf(e).content = e.content /\ ChunkOf(e).is_final = e.finish
        /\ ChunkOf(e).parsed = IF e.finish THEN Validated(Parts(e)) ELSE Unparsed
    BY <2>1, EventFields
  <2>3. UNCHANGED <<output_schema, outcome>> /\ content_parts' = Parts(e)
    BY <1>5 DEF Delta, Parse
  <2>4. output_schema =>
          /\ content_parts' = Shown(Len(out)) + (IF e.content THEN 1 ELSE 0)
          /\ ChunkOf(e).parsed = IF ChunkOf(e).is_final THEN content_parts' ELSE Unparsed
    <3>1. output_schema => content_parts = Shown(Len(out)) + 0
      BY <2>1 DEF ShownInv, Joined, Held
    <3> QED
      BY <1>0, <2>2, <2>3, <3>1 DEF Parts, Validated
  <2>5. finalized' => e.finish
    BY <1>5, <2>1 DEF Delta, Parse, ShownInv, Joined
  <2>6. CASE pc' = "at chunk" /\ Yield(ChunkOf(e))
    BY <2>1, <2>2, <2>3, <2>4, <2>5, <2>6, WholeShows
  <2>7. CASE pc' = "calling" /\ chunk' = ChunkOf(e) /\ UNCHANGED out
    <3>1. outcome = "none"
      BY <2>1 DEF ShownInv, InStep
    <3>2. ValidatedWhole'
      BY <2>3, <2>7, <3>1 DEF ShownInv, ValidatedWhole
    <3>3. Held' = (IF e.content THEN 1 ELSE 0) /\ Shown(Len(out))' = Shown(Len(out))
      BY <2>2, <2>7 DEF Held, Shown
    <3>4. Joined'
      BY <2>2, <2>3, <2>4, <2>5, <2>7, <3>3 DEF Joined
    <3> QED
      BY <3>2, <3>4 DEF Whole
  <2> QED
    BY <1>5, <2>6, <2>7 DEF Delta
<1>6. CASE CallbackReturns
  <2>1. pc = "calling" /\ pc' = "at chunk" /\ Yield(chunk)
        /\ UNCHANGED <<output_schema, outcome, content_parts, finalized>>
    BY <1>6 DEF CallbackReturns, Goto
  <2>2. output_schema =>
          /\ content_parts = Shown(Len(out)) + (IF chunk.content THEN 1 ELSE 0)
          /\ chunk.parsed = IF chunk.is_final THEN content_parts ELSE Unparsed
    BY <2>1 DEF ShownInv, Joined, Held
  <2>3. finalized => chunk.is_final
    BY <2>1 DEF ShownInv, Joined
  <2> QED
    BY <1>0, <2>1, <2>2, <2>3, WholeShows
<1>7. CASE Close
  <2>1. pc = "ended" /\ UNCHANGED <<output_schema, content_parts, finalized>>
    BY <1>7 DEF Close
  <2>2. output_schema => content_parts = Shown(Len(out))
    BY <1>0, <2>1 DEF ShownInv, Joined, Held
  <2>3. CASE NeedsClosing /\ Goto("ended", "at end") /\ Yield(Closing(Validated(content_parts)))
    <3>1. /\ Closing(content_parts) \in Chunk /\ Closing(content_parts).is_final
          /\ ~Closing(content_parts).content /\ Closing(content_parts).parsed = content_parts
      BY <1>0, ClosingFields
    <3>2. Yield(Closing(content_parts)) /\ pc' = "at end" /\ UNCHANGED outcome
      BY <2>3 DEF NeedsClosing, Validated, Goto
    <3>3. output_schema =>
            /\ content_parts'
                 = Shown(Len(out)) + (IF Closing(content_parts).content THEN 1 ELSE 0)
            /\ Closing(content_parts).parsed
                 = IF Closing(content_parts).is_final THEN content_parts' ELSE Unparsed
      BY <1>0, <2>1, <2>2, <3>1
    <3> QED
      BY <2>1, <3>1, <3>2, <3>3, WholeShows
  <2>4. CASE Ends("schema") /\ UNCHANGED <<chunk, out>>
    BY <2>1, <2>4, WholeEnds DEF Ends
  <2>5. CASE ~NeedsClosing /\ Ends("returned") /\ UNCHANGED <<chunk, out>>
    <3>1. output_schema /\ Shown(Len(out)) > 0 => EndsFinal
      BY <1>0, <2>1, <2>2, <2>5 DEF NeedsClosing, ShownInv, Joined
    <3>2. ValidatedWhole'
      BY <2>1, <2>5, <3>1 DEF ShownInv, ValidatedWhole, EndsFinal, Shown
    <3> QED
      BY <2>5, <3>2 DEF Whole, Joined, Ends
  <2> QED
    BY <1>7, <2>3, <2>4, <2>5 DEF Close
<1>8. CASE ResumeChunk
  <2>1. /\ pc = "at chunk" /\ pc' = IF finish_reason THEN "ended" ELSE "reading"
        /\ UNCHANGED <<out, output_schema, content_parts, chunk, outcome, finalized, finish_reason>>
    BY <1>8 DEF ResumeChunk, Goto, Keep
  <2>2. finalized => EndsFinal
    BY <2>1 DEF ShownInv, Joined
  <2>3. ~finish_reason => ~finalized
    <3>1. ~finish_reason => NoFinal(out)
      BY <2>1 DEF ShownInv, IInv, FinalEndsIt
    <3>2. out # <<>> => Len(out) \in 1..Len(out)
      BY <1>0
    <3> QED
      BY <2>2, <3>1, <3>2 DEF EndsFinal, NoFinal, Last
  <2> QED
    BY <2>1, <2>2, <2>3, WholeQuiet
<1>9. CASE ResumeDone
  <2>1. /\ pc = "at done" /\ pc' = "ended" /\ EndsFinal
        /\ UNCHANGED <<out, output_schema, content_parts, chunk, outcome>>
    BY <1>9 DEF ResumeDone, Goto, ShownInv, Joined
  <2> QED
    BY <2>1, WholeQuiet
<1>10. CASE ResumeEnd
  <2>1. pc' = "over" /\ EndsFinal /\ UNCHANGED <<out, output_schema>>
    BY <1>10 DEF ResumeEnd, Ends, Keep, ShownInv, Joined
  <2> QED
    BY <2>1 DEF ShownInv, ValidatedWhole, Whole, Joined, EndsFinal
<1>11. CASE UNCHANGED vars
  BY <1>11 DEF vars, ShownInv, ValidatedWhole, Whole, Joined, EndsFinal, Held, Shown
<1> QED
  BY <1>1, <1>2, <1>3, <1>4, <1>5, <1>6, <1>7, <1>8, <1>9, <1>10, <1>11 DEF Next, Over

-----------------------------------------------------------------------------
(* First content and ids.                                                  *)

Once == ShownOnce /\ Firsts

\* A step that ends the generator and shows nothing.
LEMMA OnceEnds == ASSUME ShownInv, UNCHANGED out, pc' = "over" PROVE Once'
BY DEF ShownInv, Once, ShownOnce, Firsts

\* A step of the loop that shows nothing.
LEMMA OnceQuiet ==
    ASSUME ShownInv, UNCHANGED <<out, chunk, first_chunk, seen_ids>>,
           pc # "over", pc # "calling", pc' # "calling"
    PROVE  Once'
<1>1. ShownOnce'
  BY DEF ShownInv, ShownOnce
<1>2. Held = 0 /\ Held' = 0 /\ Shown(Len(out))' = Shown(Len(out))
  BY DEF Held, Shown
<1>3. Firsts'
  BY <1>2 DEF ShownInv, Firsts
<1> QED
  BY <1>1, <1>3 DEF Once

\* A step that shows a chunk.
LEMMA OnceShows ==
    ASSUME ShownInv, NEW c \in Chunk, Yield(c), seen_ids \subseteq seen_ids',
           pc # "over", pc' \in {"at chunk", "at done", "at end"},
           first_chunk' <=> Shown(Len(out)) + (IF c.content THEN 1 ELSE 0) = 0,
           c.ttft <=> c.content /\ Shown(Len(out)) = 0,
           c.id \in seen_ids' \cup {NoId},
           c.id # NoId => \A i \in 1..Len(out) : c.id # out[i].id
    PROVE  Once'
<1>1. out \in Seq(Chunk) /\ out' = Append(out, c)
  BY ShownTypes DEF Yield
<1>2. FirstTimed(out) /\ DistinctIds(out)
  BY DEF ShownInv, ShownOnce, FirstTimed, DistinctIds
<1>3. FirstTimed(out')
  BY <1>1, <1>2, TimedAppend DEF Shown
<1>4. DistinctIds(out')
  BY <1>1, <1>2, IdsAppend
<1>5. ShownOnce'
  BY <1>3, <1>4 DEF ShownOnce, FirstTimed, DistinctIds
<1>6. Len(out') = Len(out) + 1
  BY <1>1, LastAppend
<1>7. Shown(Len(out))' = Shown(Len(out)) + (IF c.content THEN 1 ELSE 0)
  BY <1>1, <1>6, ContentsAppend DEF Shown
<1>8. Shown(Len(out)) \in Nat /\ c.content \in BOOLEAN
  BY ShownTypes DEF Chunk
<1>9. first_chunk' <=> Shown(Len(out))' + Held' = 0
  <2>1. Held' = 0
    BY DEF Held
  <2>2. Shown(Len(out))' + 0 = Shown(Len(out))'
    BY <1>7, <1>8, OneOrNone
  <2> QED
    BY <1>7, <2>1, <2>2
<1>10. \A i \in 1..Len(out') : out'[i].id \in seen_ids' \cup {NoId}
  <2>1. \A i \in 1..Len(out) : out[i].id \in seen_ids \cup {NoId}
    BY DEF ShownInv, Firsts
  <2>2. ASSUME NEW i \in 1..Len(Append(out, c))
        PROVE  \/ i \in 1..Len(out) /\ Append(out, c)[i] = out[i]
               \/ Append(out, c)[i] = c
    BY <1>1, AppendAt
  <2> QED
    BY <1>1, <2>1, <2>2
<1>11. Firsts'
  BY <1>9, <1>10 DEF Firsts
<1> QED
  BY <1>5, <1>11 DEF Once

\* The closing chunk has neither content nor id.
LEMMA OnceCloses ==
    ASSUME ShownInv, NEW n \in 0..MaxLines, Yield(Closing(n)),
           UNCHANGED <<first_chunk, seen_ids>>,
           pc # "over", pc # "calling", pc' \in {"at done", "at end"}
    PROVE  Once'
<1>1. /\ Closing(n) \in Chunk /\ ~Closing(n).content /\ ~Closing(n).ttft
      /\ Closing(n).id = NoId
  BY ClosingFields
<1>2. first_chunk <=> Shown(Len(out)) + (IF Closing(n).content THEN 1 ELSE 0) = 0
  BY <1>1 DEF ShownInv, Firsts, Held
<1> HIDE DEF Once
<1> QED
  BY <1>1, <1>2, OnceShows

LEMMA OnceStep == ShownInv /\ [Next]_vars => Once'
<1> SUFFICES ASSUME ShownInv, [Next]_vars PROVE Once'
  OBVIOUS
<1> USE DEF request, parser
<1>0. /\ Shown(Len(out)) \in Nat /\ content_parts \in 0..MaxLines
      /\ out \in Seq(Chunk) /\ chunk \in Chunk /\ ControlOK
  BY ShownTypes
<1>1. CASE Refused \/ NetworkError \/ Abandon \/ Malformed \/ CallbackRaises \/ ResumeEnd
  BY <1>1, OnceEnds DEF Refused, NetworkError, Abandon, Malformed, CallbackRaises, ResumeEnd,
     Ends, Keep
<1>2. ASSUME NEW e \in Event, BadSchema(e) PROVE Once'
  BY <1>2, OnceEnds DEF BadSchema, Ends
<1>3. CASE Connect \/ AnswerEnds \/ Skip \/ ResumeChunk \/ ResumeDone
  <2>1. /\ pc \in {"new", "reading", "at chunk", "at done"}
        /\ pc' \in {"reading", "ended"}
        /\ UNCHANGED <<out, chunk, first_chunk, seen_ids>>
    BY <1>3 DEF Connect, AnswerEnds, Skip, ResumeChunk, ResumeDone, ReadLine, Goto, Keep
  <2> QED
    BY <2>1, OnceQuiet
<1>4. CASE Done
  <2>1. Validated(content_parts) \in 0..MaxLines
    BY <1>0, StreamAssumption DEF Validated, Unparsed
  <2>2. pc = "reading" /\ UNCHANGED <<first_chunk, seen_ids>>
    BY <1>4 DEF Done, ReadLine
  <2>3. CASE pc' = "at done" /\ Yield(Closing(Validated(content_parts)))
    BY <2>1, <2>2, <2>3, OnceCloses
  <2>4. CASE Ends("schema") /\ UNCHANGED out
    BY <2>4, OnceEnds DEF Ends
  <2> QED
    BY <1>4, <2>3, <2>4 DEF Done
<1>5. ASSUME NEW e \in Event, Delta(e) PROVE Once'
  <2>1. TypeOK /\ ReadLine /\ pc = "reading"
    BY <1>5 DEF ShownInv, IInv, Delta, ReadLine
  <2>2. /\ ChunkOf(e) \in Chunk
        /\ ChunkOf(e).content = e.content /\ e.content \in BOOLEAN
        /\ ChunkOf(e).id = ShownId(e) /\ ChunkOf(e).ttft = FirstContent(e)
        /\ e.id \in Ids \cup {NoId}
    BY <2>1, EventFields
  <2>3. /\ first_chunk' = (first_chunk /\ ~FirstContent(e))
        /\ seen_ids' = seen_ids \cup ({e.id} \ {NoId})
    BY <1>5 DEF Delta, Parse
  <2>4. first_chunk <=> Shown(Len(out)) = 0
    BY <1>0, <2>1 DEF ShownInv, Firsts, Held
  <2>5. ChunkOf(e).ttft <=> ChunkOf(e).content /\ Shown(Len(out)) = 0
    BY <2>2, <2>4 DEF FirstContent
  <2>6. first_chunk' <=> Shown(Len(out)) + (IF ChunkOf(e).content THEN 1 ELSE 0) = 0
    BY <1>0, <2>2, <2>3, <2>4, OneOrNone DEF FirstContent
  <2>7. /\ ChunkOf(e).id \in seen_ids' \cup {NoId}
        /\ ChunkOf(e).id # NoId => ChunkOf(e).id \notin seen_ids
    BY <2>2, <2>3 DEF ShownId
  <2>8. \A i \in 1..Len(out) : out[i].id \in seen_ids \cup {NoId}
    BY <2>1 DEF ShownInv, Firsts
  <2>9. ChunkOf(e).id # NoId => \A i \in 1..Len(out) : ChunkOf(e).id # out[i].id
    BY <2>7, <2>8
  <2>10. CASE pc' = "at chunk" /\ Yield(ChunkOf(e))
    BY <2>1, <2>2, <2>3, <2>5, <2>6, <2>7, <2>9, <2>10, OnceShows
  <2>11. CASE pc' = "calling" /\ chunk' = ChunkOf(e) /\ UNCHANGED out
    <3>1. ShownOnce'
      BY <2>11 DEF ShownInv, ShownOnce
    <3>2. /\ Held' = (IF ChunkOf(e).content THEN 1 ELSE 0)
          /\ Shown(Len(out))' = Shown(Len(out))
      BY <2>11 DEF Held, Shown
    <3>3. \A i \in 1..Len(out) : out[i].id \in seen_ids' \cup {NoId}
      BY <2>3, <2>8
    <3>4. Firsts'
      BY <2>5, <2>6, <2>7, <2>9, <2>11, <3>2, <3>3 DEF Firsts
    <3> QED
      BY <3>1, <3>4 DEF Once
  <2> QED
    BY <1>5, <2>10, <2>11 DEF Delta
<1>6. CASE CallbackReturns
  <2>1. pc = "calling" /\ pc' = "at chunk" /\ Yield(chunk) /\ UNCHANGED <<first_chunk, seen_ids>>
    BY <1>6 DEF CallbackReturns, Goto
  <2>2. /\ first_chunk <=> Shown(Len(out)) + (IF chunk.content THEN 1 ELSE 0) = 0
        /\ chunk.ttft <=> chunk.content /\ Shown(Len(out)) = 0
        /\ chunk.id \in seen_ids \cup {NoId}
        /\ chunk.id # NoId => \A i \in 1..Len(out) : chunk.id # out[i].id
    BY <2>1 DEF ShownInv, Firsts, Held
  <2> QED
    BY <1>0, <2>1, <2>2, OnceShows
<1>7. CASE Close
  <2>1. Validated(content_parts) \in 0..MaxLines
    BY <1>0, StreamAssumption DEF Validated, Unparsed
  <2>2. pc = "ended" /\ UNCHANGED <<first_chunk, seen_ids>>
    BY <1>7 DEF Close
  <2>3. CASE pc' = "at end" /\ Yield(Closing(Validated(content_parts)))
    BY <2>1, <2>2, <2>3, OnceCloses
  <2>4. CASE pc' = "over" /\ UNCHANGED out
    BY <2>4, OnceEnds
  <2> QED
    BY <1>7, <2>3, <2>4 DEF Close, Goto, Ends
<1>8. CASE UNCHANGED vars
  BY <1>8 DEF vars, ShownInv, ShownOnce, Once, Firsts, Held, Shown
<1> QED
  BY <1>1, <1>2, <1>3, <1>4, <1>5, <1>6, <1>7, <1>8 DEF Next, Over

-----------------------------------------------------------------------------
(* The callback.                                                           *)

LEMMA CallbackStep == ShownInv /\ [Next]_vars => (CallbackFirst /\ InStep)'
<1> SUFFICES ASSUME ShownInv, [Next]_vars PROVE (CallbackFirst /\ InStep)'
  OBVIOUS
<1> USE DEF request, parser
<1>0. /\ content_parts \in 0..MaxLines /\ chunk \in Chunk /\ ControlOK
      /\ Validated(content_parts) \in 0..MaxLines
  BY ShownTypes, StreamAssumption DEF Validated, Unparsed
<1>1. CASE Refused \/ NetworkError \/ Abandon \/ Malformed \/ ResumeEnd
  <2>1. pc # "over" /\ outcome = "none" /\ pc' = "over"
        /\ UNCHANGED <<callback, called, out, chunk>>
    BY <1>1 DEF Refused, NetworkError, Abandon, Malformed, ResumeEnd, Ends, Keep, Suspended,
       ReadLine, ShownInv, InStep
  <2> QED
    BY <2>1 DEF ShownInv, CallbackFirst, InStep
<1>2. ASSUME NEW e \in Event, BadSchema(e) PROVE (CallbackFirst /\ InStep)'
  <2>1. pc # "over" /\ outcome = "none" /\ pc' = "over"
        /\ UNCHANGED <<callback, called, out, chunk>>
    BY <1>2 DEF BadSchema, Parse, Ends, ReadLine, ShownInv, InStep
  <2> QED
    BY <2>1 DEF ShownInv, CallbackFirst, InStep
<1>3. CASE Connect \/ AnswerEnds \/ Skip \/ ResumeChunk
  <2>1. /\ pc \in {"new", "reading", "at chunk"}
        /\ pc' \in {"reading", "ended"}
        /\ UNCHANGED <<callback, called, out, outcome>>
    BY <1>3 DEF Connect, AnswerEnds, Skip, ResumeChunk, ReadLine, Goto, Keep
  <2> QED
    BY <2>1 DEF ShownInv, CallbackFirst, InStep
<1>4. CASE ResumeDone
  <2>1. /\ pc' = "ended" /\ finalized' /\ pc # "over"
        /\ UNCHANGED <<callback, called, out, outcome, chunk>>
    BY <1>4 DEF ResumeDone, Goto
  <2> QED
    BY <2>1 DEF ShownInv, CallbackFirst, InStep
<1>5. CASE Done
  <2>1. pc = "reading" /\ (callback => called = out) /\ outcome = "none"
        /\ UNCHANGED <<callback, called>>
    BY <1>5 DEF Done, ReadLine, ShownInv, InStep
  <2>2. CASE pc' = "at done" /\ UNCHANGED outcome /\ Yield(Closing(Validated(content_parts)))
    BY <1>0, <2>1, <2>2 DEF Yield, CallbackFirst, InStep
  <2>3. CASE Ends("schema") /\ UNCHANGED out
    BY <2>1, <2>3 DEF Ends, CallbackFirst, InStep
  <2> QED
    BY <1>5, <2>2, <2>3 DEF Done
<1>6. ASSUME NEW e \in Event, Delta(e) PROVE (CallbackFirst /\ InStep)'
  <2>1. pc = "reading" /\ (callback => called = out) /\ outcome = "none"
        /\ UNCHANGED <<callback, called, outcome>>
    BY <1>6 DEF Delta, Parse, ReadLine, ShownInv, InStep
  <2>2. CASE callback
    <3>1. pc' = "calling" /\ UNCHANGED out
      BY <1>6, <2>2 DEF Delta, GoesToCallback
    <3> QED
      BY <2>1, <3>1 DEF CallbackFirst, InStep
  <2>3. CASE ~callback
    <3>1. pc' = "at chunk"
      BY <1>6, <2>3 DEF Delta, GoesToCallback
    <3> QED
      BY <2>1, <2>3, <3>1 DEF CallbackFirst, InStep
  <2> QED
    BY <2>2, <2>3
<1>7. CASE CallbackReturns \/ CallbackRaises
  <2>1. pc = "calling" /\ (callback => called = out) /\ outcome = "none"
        /\ called' = Append(called, chunk) /\ UNCHANGED callback
    BY <1>7 DEF CallbackReturns, CallbackRaises, Goto, ShownInv, InStep
  <2>2. CASE CallbackReturns
    <3>1. pc' = "at chunk" /\ out' = Append(out, chunk) /\ UNCHANGED outcome
      BY <2>2 DEF CallbackReturns, Goto, Yield
    <3> QED
      BY <2>1, <3>1 DEF CallbackFirst, InStep
  <2>3. CASE CallbackRaises
    <3>1. pc' = "over" /\ outcome' = "raised" /\ UNCHANGED <<out, chunk>>
      BY <2>3 DEF CallbackRaises, Ends
    <3> QED
      BY <2>1, <3>1 DEF CallbackFirst, InStep
  <2> QED
    BY <1>7, <2>2, <2>3
<1>8. CASE Close
  <2>1. pc = "ended" /\ outcome = "none" /\ UNCHANGED <<callback, called, finalized>>
    BY <1>8 DEF Close, ShownInv, InStep
  <2>2. CASE NeedsClosing /\ Goto("ended", "at end") /\ Yield(Closing(Validated(content_parts)))
    <3>1. callback => called = out
      BY <2>1, <2>2 DEF NeedsClosing, ShownInv, InStep
    <3> QED
      BY <1>0, <2>1, <2>2, <3>1 DEF Goto, Yield, CallbackFirst, InStep
  <2>3. CASE pc' = "over" /\ UNCHANGED <<chunk, out>>
    BY <2>1, <2>3 DEF ShownInv, CallbackFirst, InStep
  <2> QED
    BY <1>8, <2>2, <2>3 DEF Close, Ends
<1>9. CASE UNCHANGED vars
  BY <1>9 DEF vars, ShownInv, CallbackFirst, InStep
<1> QED
  BY <1>1, <1>2, <1>3, <1>4, <1>5, <1>6, <1>7, <1>8, <1>9 DEF Next, Over

LEMMA ShownInit == Init => ShownInv
<1> SUFFICES ASSUME Init PROVE ShownInv
  OBVIOUS
<1>1. Len(out) = 0 /\ out = <<>> /\ pc = "new"
  BY DEF Init
<1>2. {i \in 1..0 : out[i].content} = {}
  OBVIOUS
<1>3. Shown(Len(out)) = 0
  BY <1>1, <1>2, FS_EmptySet DEF Shown, Contents
<1>4. Whole
  BY <1>1, <1>3 DEF Init, Whole, ValidatedWhole, Joined, Held
<1>5. Once
  BY <1>1, <1>3 DEF Init, Once, ShownOnce, Firsts, Held
<1>6. CallbackFirst /\ InStep
  BY DEF Init, CallbackFirst, InStep
<1> QED
  BY <1>4, <1>5, <1>6, FinalInit DEF ShownInv, Whole, Once

LEMMA ShownStep == ShownInv /\ [Next]_vars => ShownInv'
BY FinalStep, WholeStep, OnceStep, CallbackStep DEF ShownInv, Whole, Once

LEMMA ShownInvariant == Spec => []ShownInv
BY ShownInit, ShownStep, PTL DEF Spec

(***************************************************************************)
(* With an output_schema, for answers of any length: every final chunk     *)
(* carries the object parsed from exactly the content the caller has been  *)
(* given, and a stream with content never returns without one.             *)
(***************************************************************************)
THEOREM WholeContent == Spec => []ValidatedWhole
<1>1. ShownInv => ValidatedWhole
  BY DEF ShownInv
<1> QED
  BY <1>1, ShownInvariant, PTL

(***************************************************************************)
(* ttft_ms is on the first chunk with content and on no other, and no id   *)
(* is shown twice, whatever events come between.                           *)
(***************************************************************************)
THEOREM FirstAndIdsOnce == Spec => []ShownOnce
<1>1. ShownInv => ShownOnce
  BY DEF ShownInv
<1> QED
  BY <1>1, ShownInvariant, PTL

(***************************************************************************)
(* The stream_callback has every chunk made of an event before the caller, *)
(* in the same order, and ends one ahead only by raising.                  *)
(***************************************************************************)
THEOREM CallbackAhead == Spec => []CallbackFirst
<1>1. ShownInv => CallbackFirst
  BY DEF ShownInv
<1> QED
  BY <1>1, ShownInvariant, PTL
=============================================================================
