---------------------------- MODULE ChatMessages ----------------------------
(***************************************************************************)
(* The chat messages of the gateway, between the client's OpenAI messages  *)
(* and the providers' own forms: how the messages of a request become      *)
(* gateway messages, how a model's answer becomes an OpenAI completion or  *)
(* a stream of OpenAI chunks.                                              *)
(*                                                                         *)
(* A text, an image, a thought or a piece of a tool call's arguments is a  *)
(* token; a content is a string (the texts joined in it) or a list of      *)
(* blocks.  The kind of a block says what became of it: "json" and "repr"  *)
(* are texts that hold the JSON or the Python notation of what they name.  *)
(***************************************************************************)
EXTENDS Naturals, Sequences, SequencesExt

CONSTANT None

Map(Op(_), s) == [i \in 1..Len(s) |-> Op(s[i])]
MapAll(Op(_), s) == FlattenSeq(Map(Op, s))

Block(kind, id) == [kind |-> kind, id |-> id]
Blocks(kind, ids) == [i \in 1..Len(ids) |-> Block(kind, ids[i])]
WithKind(kind, blocks) == [i \in 1..Len(blocks) |-> Block(kind, blocks[i].id)]

Text(blocks) == [form |-> "text", blocks |-> blocks]
List(blocks) == [form |-> "list", blocks |-> blocks]
Null == [form |-> "null", blocks |-> <<>>]
Empty == Text(<<>>)

(* A client's message, and a gateway message.                              *)
ClientMessage(role, content) ==
    [role |-> role, content |-> content, calls |-> <<>>, answers |-> None,
     reasoning |-> <<>>]
Message(type, content) ==
    [type |-> type, content |-> content, calls |-> <<>>, answers |-> None,
     reasoning |-> <<>>]

-----------------------------------------------------------------------------
(* Request: OpenAI messages to gateway messages.                           *)

(* Every part of a user's list but text, images and files is kept as the   *)
(* text of its notation; a file that carries no data is left out.          *)
TargetPart(part) ==
    CASE part.kind \in {"text", "image", "link", "badlink", "file"} -> <<part>>
      [] part.kind = "file_id" -> <<>>
      [] OTHER -> <<Block("repr", part.id)>>
TargetParts(content) == List(MapAll(TargetPart, content.blocks))

(* A list in any other role becomes the text of its JSON.                  *)
CoercedToText(content) ==
    IF content.form = "list" THEN Text(WithKind("json", content.blocks))
                             ELSE content

(* A null content is the text "None".                                      *)
RawContent(m) ==
    IF m.content.form = "null" THEN Text(<<Block("text", "None")>>) ELSE m.content

(* A tool message needs its call; a function message is built without the  *)
(* name it needs, and fails.                                               *)
Convertible(m) ==
    /\ m.role \in {"system", "user", "developer", "assistant", "tool"}
    /\ m.role = "tool" => m.answers # None

MessageByRole(m) ==
    LET content == RawContent(m) IN
    CASE m.role = "system" -> Message("system", CoercedToText(content))
      [] m.role \in {"user", "developer"} ->
            Message("human", IF content.form = "list" THEN TargetParts(content)
                                                      ELSE content)
      [] m.role = "assistant" ->
            [Message("ai", CoercedToText(content)) EXCEPT
                !.calls = m.calls, !.reasoning = m.reasoning]
      [] m.role = "tool" ->
            [Message("tool", CoercedToText(content)) EXCEPT !.answers = m.answers]

ConvertOpenAIMessages(messages) == Map(MessageByRole, messages)

-----------------------------------------------------------------------------
(* Answers.  A provider's adapter makes them gateway messages (Answer), or *)
(* chunks of one (Chunk).                                                  *)

Answer(content) ==
    [content |-> content, calls |-> <<>>, invalid |-> <<>>, reasoning |-> <<>>,
     finish |-> None, usage |-> None]
Chunk(content) ==
    [content |-> content, calls |-> <<>>, reasoning |-> <<>>, finish |-> None,
     usage |-> None, last |-> FALSE]
CallChunk(index, id, tool, args) ==
    [index |-> index, id |-> id, tool |-> tool, args |-> args]

(* A call whose arguments are not valid JSON is kept apart.                *)
WellFormed(call) == call.whole
Split(answer, calls) ==
    [answer EXCEPT !.calls = SelectSeq(calls, WellFormed),
                   !.invalid = SelectSeq(calls, LAMBDA c : ~WellFormed(c))]

(* A list is shown in Python's notation.                                   *)
Shown(content) ==
    IF content.form # "list" THEN content
    ELSE Text(IF content.blocks = <<>> THEN <<Block("repr", "[]")>>
                                       ELSE WithKind("repr", content.blocks))

(* The closing chunk that astream adds when the provider's last is not     *)
(* marked.                                                                 *)
Closed(chunks) ==
    IF Last(chunks).last THEN chunks
    ELSE Append(chunks,
                [Chunk(IF Last(chunks).content.form = "list"
                       THEN List(<<>>) ELSE Empty) EXCEPT !.last = TRUE])

FinishReasons == {"stop", "length", "tool_calls", "content_filter", "function_call"}

(* What the client gets: beside tool calls the text is dropped.            *)
ToChatCompletion(answer) ==
    IF answer.calls # <<>>
    THEN [content |-> Null, calls |-> answer.calls,
          reasoning |-> answer.reasoning, finish |-> "tool_calls"]
    ELSE [content |-> Shown(answer.content), calls |-> <<>>,
          reasoning |-> answer.reasoning,
          finish |-> IF answer.finish = None THEN "stop" ELSE answer.finish]

\* Mutant: a call is numbered by its place in the chunk.
ToChatCompletionChunkByPlace(chunk) ==
    [content |-> Shown(chunk.content).blocks,
     calls |-> [i \in 1..Len(chunk.calls) |-> [chunk.calls[i] EXCEPT !.index = i - 1]],
     reasoning |-> chunk.reasoning, finish |-> chunk.finish]

(* A call keeps the index its provider gave it.                            *)
ToChatCompletionChunk(chunk) ==
    [content |-> Shown(chunk.content).blocks,
     calls |-> [i \in 1..Len(chunk.calls) |->
                  [chunk.calls[i] EXCEPT !.index = IF @ = None THEN i - 1 ELSE @]],
     reasoning |-> chunk.reasoning, finish |-> chunk.finish]

(* The finish reasons OpenAI's types accept.                               *)
Sendable(reply) == reply.finish \in FinishReasons \cup {None}

-----------------------------------------------------------------------------
(* External: a client of the OpenAI API puts the chunks of a stream        *)
(* together, the deltas of a call by their index.                          *)

MergedCall(call, delta) ==
    [call EXCEPT !.id = IF @ = None THEN delta.id ELSE @,
                 !.tool = IF @ = None THEN delta.tool ELSE @,
                 !.args = @ \o delta.args]
MergedCalls(calls, delta) ==
    IF \E i \in 1..Len(calls) : calls[i].index = delta.index
    THEN [i \in 1..Len(calls) |->
            IF calls[i].index = delta.index THEN MergedCall(calls[i], delta)
                                            ELSE calls[i]]
    ELSE Append(calls, delta)
Merged(reply, chunk) ==
    [content |-> reply.content \o chunk.content,
     calls |-> FoldLeft(MergedCalls, reply.calls, chunk.calls),
     reasoning |-> reply.reasoning \o chunk.reasoning,
     finish |-> IF chunk.finish = None THEN reply.finish ELSE chunk.finish]

Assembled(chunks) ==
    LET nothing == [content |-> <<>>, calls |-> <<>>, reasoning |-> <<>>,
                    finish |-> None]
    IN FoldLeft(Merged, nothing, chunks)
=============================================================================
