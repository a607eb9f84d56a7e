-------------------------- MODULE ResponsesAdapter --------------------------
(***************************************************************************)
(* OpenAI's Responses API, which the OpenAI adapter uses for the models    *)
(* that prefer it: a conversation is a list of items, a reply a list of    *)
(* output items, and a stream numbers what it extends by output item and   *)
(* part.                                                                   *)
(***************************************************************************)
EXTENDS ChatMessages, Integers

ResponsesBlock(block) ==
    IF block.kind = "link" THEN [block EXCEPT !.kind = "image"] ELSE block

OfMessage(role, blocks) == [role |-> role, blocks |-> blocks]

(* A text is an item of its own, and so is each call; a call is sent with  *)
(* the id it came with.                                                    *)
AssistantItems(m) ==
    (IF m.content.blocks = <<>> /\ m.calls # <<>> THEN <<>>
     ELSE <<OfMessage("assistant", Map(ResponsesBlock, m.content.blocks))>>)
    \o Map(LAMBDA c : OfMessage("assistant",
                         <<[kind |-> "call", id |-> [raw |-> c.id, digest |-> FALSE],
                            tool |-> c.tool, args |-> c.args]>>), m.calls)
ToolOutput(m) ==
    <<OfMessage("tool", <<[kind |-> "result",
                           id |-> [raw |-> m.answers, digest |-> FALSE],
                           blocks |-> m.content.blocks]>>)>>

(* A list of which nothing is left is left out.                            *)
ItemsOf(m) ==
    CASE m.type = "ai"   -> AssistantItems(m)
      [] m.type = "tool" -> ToolOutput(m)
      [] OTHER ->
            IF m.content = List(<<>>) THEN <<>>
            ELSE <<OfMessage(IF m.type = "human" THEN "user" ELSE "system",
                             Map(ResponsesBlock, m.content.blocks))>>

ResponsesRequest(messages) ==
    [refused |-> FALSE, system |-> <<>>, turns |-> MapAll(ItemsOf, messages)]

-----------------------------------------------------------------------------
(* Answers.  The content is the list of output items; there is no finish   *)
(* reason, a reply that was cut short has none either.                     *)

ResponsesAnswer(reply) ==
    [Split(Answer(List(Blocks("reasoning", reply.thoughts)
                       \o Blocks("text", reply.texts)
                       \o Map(LAMBDA c : Block("function_call", c.tool), reply.calls))),
           reply.calls) EXCEPT !.usage = reply.usage]

(* External: the events of a streamed reply.  Each thought and each call   *)
(* is an output item, all the texts are parts of one; events that tell     *)
(* nothing new are one.                                                    *)
ResponsesEvents(reply) ==
    LET event == [type |-> "other", output |-> 0, part |-> 0, text |-> "",
                  call |-> None, usage |-> None]
        Of(type, output) == [event EXCEPT !.type = type, !.output = output]
        Reasoned(i) ==
            <<Of("reasoning", i - 1), Of("summary_part", i - 1),
              [Of("summary_text", i - 1) EXCEPT !.text = reply.thoughts[i]], event>>
        message == Len(reply.thoughts)
        Part(i) ==
            <<[Of("text_delta", message) EXCEPT !.part = i - 1, !.text = reply.texts[i]],
              [Of("text_done", message) EXCEPT !.part = i - 1]>>
        Called(i) ==
            LET output == message + (IF reply.texts = <<>> THEN 0 ELSE 1) + i - 1
                call == reply.calls[i]
            IN <<[Of("call", output) EXCEPT
                     !.call = [id |-> call.id, tool |-> call.tool]]>>
               \o Map(LAMBDA a : [Of("arguments", output) EXCEPT !.text = a], call.args)
    IN <<Of("created", 0), event>>
       \o FlattenSeq([i \in 1..Len(reply.thoughts) |-> Reasoned(i)])
       \o (IF reply.texts = <<>> THEN <<>> ELSE <<Of("message", message)>>)
       \o FlattenSeq([i \in 1..Len(reply.texts) |-> Part(i)])
       \o FlattenSeq([i \in 1..Len(reply.calls) |-> Called(i)])
       \o <<[Of("completed", 0) EXCEPT !.usage = reply.usage]>>

(* The block an event belongs to: the next one when its output item, or    *)
(* its part if it names one, is another than the last event's.             *)
StreamState == [index |-> -1, output |-> -1, sub |-> -1]
Advance(state, output, sub) ==
    [index |-> IF state.output # output \/ (sub # None /\ state.sub # sub)
               THEN state.index + 1 ELSE state.index,
     output |-> output,
     sub |-> IF sub = None THEN state.sub ELSE sub]

StateAfter(event, state) ==
    CASE event.type \in {"text_delta", "text_done"} ->
            Advance(state, event.output, event.part)
      [] event.type = "reasoning" ->
            [Advance(state, event.output, None) EXCEPT !.sub = 0]
      [] event.type \in {"summary_part", "summary_text", "call", "arguments"} ->
            Advance(state, event.output, None)
      [] OTHER -> state

(* A chunk's content is a list, of nothing when the event adds none; the   *)
(* pieces of a call are in the content as well.                            *)
EventToChunk(event, index) ==
    CASE event.type \in {"created", "message"} -> Chunk(List(<<>>))
      [] event.type \in {"text_delta", "text_done"} ->
            Chunk(List(<<Block("text", event.text)>>))
      [] event.type \in {"reasoning", "summary_part", "summary_text"} ->
            Chunk(List(<<Block("reasoning", event.text)>>))
      [] event.type = "call" ->
            [Chunk(List(<<Block("function_call", event.call.tool)>>)) EXCEPT
                !.calls = <<CallChunk(index, event.call.id, event.call.tool, <<>>)>>]
      [] event.type = "arguments" ->
            [Chunk(List(<<Block("function_call", event.text)>>)) EXCEPT
                !.calls = <<CallChunk(index, None, None, <<event.text>>)>>]
      [] event.type = "completed" ->
            [Chunk(List(<<>>)) EXCEPT !.usage = event.usage, !.last = TRUE]

ResponsesStream(reply) ==
    LET Read(read, event) ==
            LET state == StateAfter(event, read.state) IN
            [state |-> state,
             chunks |-> IF event.type = "other" THEN read.chunks
                        ELSE Append(read.chunks, EventToChunk(event, state.index))]
    IN FoldLeft(Read, [state |-> StreamState, chunks |-> <<>>],
                ResponsesEvents(reply)).chunks
=============================================================================
