--------------------------- MODULE MistralAdapter ---------------------------
(***************************************************************************)
(* Mistral's chat completions: the gateway messages in its form, and its   *)
(* answers and stream events as gateway messages.                          *)
(***************************************************************************)
EXTENDS ChatMessages

CONSTANT NineIds      \* the ids of calls of nine letters and digits

(* Any other id is replaced by nine characters of its digest.              *)
MistralId(id) == [raw |-> id, digest |-> id \notin NineIds]

(* An assistant message may not have both a content and calls: the content *)
(* is dropped.                                                             *)
AssistantBlocks(m) ==
    IF m.calls = <<>> THEN m.content.blocks
    ELSE Map(LAMBDA c : [kind |-> "call", id |-> MistralId(c.id), tool |-> c.tool,
                         args |-> c.args], m.calls)

MistralBlock(block) ==
    IF block.kind = "link" THEN [block EXCEPT !.kind = "image"] ELSE block

MistralMessage(m) ==
    CASE m.type = "human" ->
            [role |-> "user", blocks |-> Map(MistralBlock, m.content.blocks)]
      [] m.type = "ai" -> [role |-> "assistant", blocks |-> AssistantBlocks(m)]
      [] m.type = "system" -> [role |-> "system", blocks |-> m.content.blocks]
      [] m.type = "tool" ->
            [role |-> "tool",
             blocks |-> <<[kind |-> "result", id |-> MistralId(m.answers),
                           blocks |-> m.content.blocks]>>]

MistralRequest(messages) ==
    [refused |-> FALSE, system |-> <<>>, turns |-> Map(MistralMessage, messages)]

-----------------------------------------------------------------------------
(* Answers.  Thinking comes in blocks, and then so do the texts.           *)

MistralFinish(reply) == IF reply.end = "calls" THEN "tool_calls" ELSE reply.end

MistralAnswer(reply) ==
    LET blocks == Blocks("thinking", reply.thoughts) \o Blocks("text", reply.texts)
    IN [Split(Answer(IF reply.thoughts = <<>> THEN Text(blocks) ELSE List(blocks)),
              reply.calls) EXCEPT
            !.finish = MistralFinish(reply), !.usage = reply.usage]

(* External: the events of a streamed answer; a call comes whole, the      *)
(* finish reason and the usage with the last event.                        *)
MistralEvents(reply) ==
    LET event == [content |-> Empty, calls |-> <<>>, finish |-> None, usage |-> None]
    IN Map(LAMBDA x : [event EXCEPT !.content = List(<<Block("thinking", x)>>)],
           reply.thoughts)
       \o Map(LAMBDA x : [event EXCEPT !.content = Text(<<Block("text", x)>>)],
              reply.texts)
       \o [i \in 1..Len(reply.calls) |->
             [event EXCEPT !.calls = <<CallChunk(i - 1, reply.calls[i].id,
                                                 reply.calls[i].tool,
                                                 reply.calls[i].args)>>]]
       \o <<[event EXCEPT !.finish = MistralFinish(reply), !.usage = reply.usage]>>

MistralStream(reply) ==
    Map(LAMBDA e : [Chunk(e.content) EXCEPT !.calls = e.calls, !.finish = e.finish,
                                            !.usage = e.usage],
        MistralEvents(reply))
=============================================================================
