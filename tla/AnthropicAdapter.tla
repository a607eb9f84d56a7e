-------------------------- MODULE AnthropicAdapter --------------------------
(***************************************************************************)
(* Anthropic's Messages API: the gateway messages as a system prompt and a *)
(* list of turns, and its answers and stream events as gateway messages.   *)
(***************************************************************************)
EXTENDS ChatMessages

CONSTANT PlainIds     \* the ids of calls in letters, digits, _ and -

(* An id the API would reject is replaced by its digest.                   *)
AnthropicId(id) == [raw |-> id, digest |-> id \notin PlainIds]

AnthropicCall(call) ==
    [kind |-> "call", id |-> AnthropicId(call.id), tool |-> call.tool,
     args |-> call.args]

\* Mutant: a result keeps the id of the call as the client sent it.
ToolResultRawId(m) ==
    <<[kind |-> "result", id |-> [raw |-> m.answers, digest |-> FALSE],
       blocks |-> m.content.blocks]>>

ToolResult(m) ==
    <<[kind |-> "result", id |-> AnthropicId(m.answers),
       blocks |-> m.content.blocks]>>

\* Mutant: a merged turn keeps the content of its last message alone.
MergedMessageLast(merged, m) ==
    LET curr == IF m.type = "tool" THEN Message("human", List(ToolResult(m))) ELSE m
        n == Len(merged)
    IN IF n > 0 /\ curr.type = merged[n].type /\ curr.type \in {"system", "human"}
       THEN [merged EXCEPT ![n] = [curr EXCEPT !.content = List(@.blocks)]]
       ELSE Append(merged, curr)

(* Tool results become user messages; neighbours of the same role, user or *)
(* system, are one.                                                        *)
MergedMessage(merged, m) ==
    LET curr == IF m.type = "tool" THEN Message("human", List(ToolResult(m))) ELSE m
        n == Len(merged)
    IN IF n > 0 /\ curr.type = merged[n].type /\ curr.type \in {"system", "human"}
       THEN [merged EXCEPT ![n] =
                [curr EXCEPT !.content = List(merged[n].content.blocks \o @.blocks)]]
       ELSE Append(merged, curr)

MergeMessages(messages) == FoldLeft(MergedMessage, <<>>, messages)

(* An image must be a data URL or an http one.                             *)
AnthropicBlock(block) ==
    IF block.kind = "link" THEN [block EXCEPT !.kind = "image"] ELSE block

(* Every call of an assistant message is a block after its text; an empty  *)
(* assistant message is left out unless it is the last.                    *)
AnthropicTurn(m, isLast) ==
    LET role == IF m.type = "ai" THEN "assistant" ELSE "user"
        blocks == Map(AnthropicBlock, m.content.blocks) \o Map(AnthropicCall, m.calls)
    IN IF blocks = <<>> /\ m.type = "ai" /\ ~isLast THEN <<>>
       ELSE <<[role |-> role, blocks |-> blocks]>>

(* The request, or a refusal: a second system prompt, a malformed image.   *)
AnthropicRequest(messages) ==
    LET merged == MergeMessages(messages)
        Turn(i) == IF merged[i].type = "system" THEN <<>>
                   ELSE AnthropicTurn(merged[i], i = Len(merged))
        systems == SelectSeq(merged, LAMBDA m : m.type = "system")
        blocks == MapAll(LAMBDA m : m.content.blocks, merged)
    IN [refused |-> \/ Len(systems) > 1
                    \/ \E i \in 1..Len(blocks) : blocks[i].kind = "badlink",
        system |-> IF systems = <<>> THEN <<>> ELSE systems[1].content.blocks,
        turns |-> FlattenSeq([i \in 1..Len(merged) |-> Turn(i)])]

-----------------------------------------------------------------------------
(* Answers: thinking blocks, then texts, then calls.                       *)

AnthropicContent(reply) ==
    Blocks("thinking", reply.thoughts) \o Blocks("text", reply.texts)
        \o [i \in 1..Len(reply.calls) |-> Block("tool_use", reply.calls[i].id)]

(* One text is a string, anything else the list of its blocks.  The reason *)
(* it stopped is not where a finish reason is looked for.                  *)
AnthropicAnswer(reply) ==
    LET content == AnthropicContent(reply) IN
    [Answer(IF Len(content) = 1 /\ reply.texts # <<>> THEN Text(content)
                                                      ELSE List(content))
        EXCEPT !.calls = reply.calls, !.usage = reply.usage]

(* External: the events of a streamed answer.                              *)
AnthropicEvents(reply) ==
    LET event == [type |-> "delta", index |-> 0, kind |-> None, call |-> None,
                  piece |-> None]
        Start(i, kind, call) == [event EXCEPT !.type = "start", !.index = i,
                                              !.kind = kind, !.call = call]
        Delta(i, kind, piece) == [event EXCEPT !.index = i, !.kind = kind,
                                               !.piece = piece]
        T == Len(reply.thoughts)
        X == Len(reply.texts)
        Thought(i) == <<Start(i - 1, "thinking", None),
                        Delta(i - 1, "thinking_delta", reply.thoughts[i])>>
        Said(i) == <<Start(T + i - 1, "text", None),
                     Delta(T + i - 1, "text_delta", reply.texts[i])>>
        Called(i) ==
            LET call == reply.calls[i] IN
            <<Start(T + X + i - 1, "tool_use", call)>>
                \o [k \in 1..Len(call.args) |->
                        Delta(T + X + i - 1, "input_json_delta", call.args[k])]
    IN <<[event EXCEPT !.type = "message_start"]>>
       \o FlattenSeq([i \in 1..T |-> Thought(i)])
       \o FlattenSeq([i \in 1..X |-> Said(i)])
       \o FlattenSeq([i \in 1..Len(reply.calls) |-> Called(i)])
       \o <<[event EXCEPT !.type = "message_delta"]>>

(* A call's deltas carry the index of its block.  Thinking has no content. *)
AnthropicChunk(e, reply) ==
    LET call == Chunk(Empty) IN
    CASE e.type = "start" /\ e.kind = "tool_use" ->
            [call EXCEPT !.calls = <<CallChunk(e.index, e.call.id, e.call.tool, <<>>)>>]
      [] e.kind = "text_delta" -> Chunk(Text(Blocks("text", <<e.piece>>)))
      [] e.kind = "input_json_delta" ->
            [call EXCEPT !.calls = <<CallChunk(e.index, None, None, <<e.piece>>)>>]
      [] e.type = "message_delta" -> [call EXCEPT !.usage = reply.usage, !.last = TRUE]
      [] OTHER -> call

(* An opening that carries nothing is no chunk.                            *)
AnthropicStream(reply) ==
    LET Emits(e) == ~(e.type = "start" /\ e.kind \in {"text", "thinking"})
    IN Map(LAMBDA e : AnthropicChunk(e, reply),
           SelectSeq(AnthropicEvents(reply), Emits))
=============================================================================
