---------------------------- MODULE OpenAIAdapter ----------------------------
(***************************************************************************)
(* The Chat Completions form of OpenAI, Azure, DeepSeek and compatible     *)
(* endpoints.  The dialect says what an endpoint adds to it: "openai",     *)
(* "reasoner" (system prompts are developer messages), "azure" or          *)
(* "deepseek" (the reasoning is sent back).                                *)
(***************************************************************************)
EXTENDS ChatMessages

(* Images are sent as URLs; every kind of image is one.                    *)
OpenAIBlock(block) ==
    IF block.kind = "link" THEN [block EXCEPT !.kind = "image"] ELSE block
OpenAICall(call) ==
    [kind |-> "call", id |-> [raw |-> call.id, digest |-> FALSE],
     tool |-> call.tool, args |-> call.args]
OpenAIResult(m) ==
    [kind |-> "result", id |-> [raw |-> m.answers, digest |-> FALSE],
     blocks |-> m.content.blocks]

MessageToDict(m, dialect) ==
    CASE m.type = "system" ->
            [role |-> IF dialect = "reasoner" THEN "developer" ELSE "system",
             blocks |-> Map(OpenAIBlock, m.content.blocks), reasoning |-> <<>>]
      [] m.type = "human" ->
            [role |-> "user", blocks |-> Map(OpenAIBlock, m.content.blocks),
             reasoning |-> <<>>]
      [] m.type = "ai" ->
            [role |-> "assistant",
             blocks |-> Map(OpenAIBlock, m.content.blocks) \o Map(OpenAICall, m.calls),
             reasoning |-> IF dialect = "deepseek" THEN m.reasoning ELSE <<>>]
      [] m.type = "tool" ->
            [role |-> "tool", blocks |-> <<OpenAIResult(m)>>, reasoning |-> <<>>]

OpenAIRequest(messages, dialect) ==
    [refused |-> FALSE, system |-> <<>>,
     turns |-> Map(LAMBDA m : MessageToDict(m, dialect), messages)]

-----------------------------------------------------------------------------
(* Answers.                                                                *)

OpenAIFinish(reply) == IF reply.end = "calls" THEN "tool_calls" ELSE reply.end

OpenAIAnswer(reply, dialect) ==
    [Split(Answer(Text(Blocks("text", reply.texts))), reply.calls) EXCEPT
        !.reasoning = IF dialect = "deepseek" THEN reply.thoughts ELSE <<>>,
        !.finish = OpenAIFinish(reply),
        !.usage = reply.usage]

(* External: the chunks of a streamed answer: thoughts (DeepSeek's alone), *)
(* texts, each call's opening and the pieces of its arguments, the finish  *)
(* reason, then the usage in a chunk without choices.                      *)
OpenAIEvents(reply, dialect) ==
    LET event == [text |-> <<>>, reasoning |-> <<>>, calls |-> <<>>,
                  finish |-> None, usage |-> None]
        Called(i) ==
            LET call == reply.calls[i] IN
            <<[event EXCEPT !.calls = <<CallChunk(i - 1, call.id, call.tool, <<>>)>>]>>
                \o [k \in 1..Len(call.args) |->
                      [event EXCEPT !.calls =
                          <<CallChunk(i - 1, None, None, <<call.args[k]>>)>>]]
    IN (IF dialect = "deepseek"
        THEN Map(LAMBDA x : [event EXCEPT !.reasoning = <<x>>], reply.thoughts)
        ELSE <<>>)
       \o Map(LAMBDA x : [event EXCEPT !.text = <<x>>], reply.texts)
       \o FlattenSeq([i \in 1..Len(reply.calls) |-> Called(i)])
       \o <<[event EXCEPT !.finish = OpenAIFinish(reply)],
            [event EXCEPT !.usage = reply.usage]>>

OpenAIStream(reply, dialect) ==
    Map(LAMBDA e : [Chunk(Text(Blocks("text", e.text))) EXCEPT
                       !.calls = e.calls, !.reasoning = e.reasoning,
                       !.finish = e.finish, !.usage = e.usage],
        OpenAIEvents(reply, dialect))
=============================================================================
