---------------------------- MODULE Conversation ----------------------------
(***************************************************************************)
(* A client's conversation with the models behind a route.  The client     *)
(* keeps the messages and sends all of them with every request; whichever  *)
(* model serves it gets them in its provider's form, and its answer comes  *)
(* back complete or as a stream.  The next request may be served by        *)
(* another provider, to which the calls and their ids are foreign.         *)
(***************************************************************************)
EXTENDS AnthropicAdapter, OpenAIAdapter, ResponsesAdapter, MistralAdapter,
        GoogleAdapter, FiniteSets

CONSTANTS Providers,    \* "openai", "reasoner", "deepseek", "anthropic", ...
          Openings,     \* what a client may begin with: sequences of messages
          FollowUps,    \* what it may say after an answer
          ResultForms,  \* the contents a tool's result may have
          Replies,      \* what a model may say
          MaxMessages   \* bound on the messages of a conversation

ASSUME ConversationAssumption ==
    /\ Providers \subseteq {"openai", "reasoner", "deepseek", "responses",
                            "anthropic", "mistral", "gemini", "gemini3"}
    /\ MaxMessages \in Nat

VARIABLES
    history,  \* the client's messages
    request,  \* the request a model is serving, or None
    served,   \* the provider, what its model said and what the client got, or None
    phase     \* "client", "model" or "over"
vars == <<history, request, served, phase>>

OpenAIDialects == {"openai", "reasoner", "deepseek"}
Gemini == {"gemini", "gemini3"}

(* The providers' forms.                                                   *)
Requested(p, messages) ==
    CASE p \in OpenAIDialects -> OpenAIRequest(messages, p)
      [] p = "responses"      -> ResponsesRequest(messages)
      [] p = "anthropic"      -> AnthropicRequest(messages)
      [] p = "mistral"        -> MistralRequest(messages)
      [] p \in Gemini         -> GoogleRequest(messages, p = "gemini3")
Answered(p, reply) ==
    CASE p \in OpenAIDialects -> OpenAIAnswer(reply, p)
      [] p = "responses"      -> ResponsesAnswer(reply)
      [] p = "anthropic"      -> AnthropicAnswer(reply)
      [] p = "mistral"        -> MistralAnswer(reply)
      [] p \in Gemini         -> GoogleAnswer(reply, p = "gemini3")
Streamed(p, reply) ==
    CASE p \in OpenAIDialects -> OpenAIStream(reply, p)
      [] p = "responses"      -> ResponsesStream(reply)
      [] p = "anthropic"      -> AnthropicStream(reply)
      [] p = "mistral"        -> MistralStream(reply)
      [] p \in Gemini         -> GoogleStream(reply, p = "gemini3")

(* What a client that waits gets, and one that reads the stream.           *)
Complete(p, reply) == ToChatCompletion(Answered(p, reply))
Chunks(p, reply) == Closed(Streamed(p, reply))
FromStream(p, reply) == Assembled(Map(ToChatCompletionChunk, Chunks(p, reply)))

(* The message a client keeps of an answer.                                *)
Kept(answer, content) ==
    [ClientMessage("assistant", content) EXCEPT
        !.calls = Map(LAMBDA c : [id |-> c.id, tool |-> c.tool, args |-> c.args],
                      answer.calls),
        !.reasoning = answer.reasoning]

Pending ==
    IF history = <<>> THEN {}
    ELSE LET turns == SelectSeq(history, LAMBDA m : m.role = "assistant")
             calls == Last(turns).calls
         IN IF turns = <<>> THEN {}
            ELSE {calls[i].id : i \in 1..Len(calls)}
                     \ {history[i].answers : i \in 1..Len(history)}
CallIds(messages) ==
    UNION {{messages[i].calls[k].id : k \in 1..Len(messages[i].calls)} :
              i \in 1..Len(messages)}

-----------------------------------------------------------------------------
Init ==
    /\ history \in Openings
    /\ request = None
    /\ served = None
    /\ phase = "client"

(* The gateway converts the messages and hands them to a provider's        *)
(* adapter; either may refuse them.                                        *)
Ask(p) ==
    /\ phase = "client"
    /\ Pending = {}
    /\ Last(history).role # "assistant"
    /\ IF \A i \in 1..Len(history) : Convertible(history[i])
       THEN LET wire == Requested(p, ConvertOpenAIMessages(history))
            IN /\ request' = [provider |-> p, wire |-> wire]
               /\ phase' = IF wire.refused THEN "over" ELSE "model"
       ELSE /\ request' = None
            /\ phase' = "over"
    /\ served' = None
    /\ UNCHANGED history

(* A model answers.  Arguments that are no JSON come from OpenAI's forms   *)
(* and Mistral's alone, whose arguments are text; they end the             *)
(* conversation, as a reply no OpenAI type accepts does.                   *)
Reply(reply, waits) ==
    LET p == request.provider
        complete == Complete(p, reply)
        stream == FromStream(p, reply)
        whole == \A i \in 1..Len(reply.calls) : WellFormed(reply.calls[i])
    IN /\ phase = "model"
       /\ whole \/ p \in OpenAIDialects \cup {"mistral", "responses"}
       /\ \A i \in 1..Len(reply.calls) : reply.calls[i].id \notin CallIds(history)
       /\ served' = [provider |-> p, reply |-> reply, complete |-> complete,
                     stream |-> stream]
       /\ request' = None
       /\ IF whole /\ Sendable(IF waits THEN complete ELSE stream)
          THEN /\ history' = Append(history,
                                IF waits THEN Kept(complete, complete.content)
                                         ELSE Kept(stream, Text(stream.content)))
               /\ phase' = "client"
          ELSE /\ UNCHANGED history
               /\ phase' = "over"

(* The client answers a call of the last message, in any order.            *)
ClientRunsTool(id, content) ==
    /\ phase = "client"
    /\ id \in Pending
    /\ Len(history) < MaxMessages
    /\ history' = Append(history, [ClientMessage("tool", content) EXCEPT !.answers = id])
    /\ served' = None
    /\ UNCHANGED <<request, phase>>

ClientSays(m) ==
    /\ phase = "client"
    /\ Pending = {}
    /\ Last(history).role = "assistant"
    /\ Len(history) < MaxMessages
    /\ history' = Append(history, m)
    /\ served' = None
    /\ UNCHANGED <<request, phase>>

Next ==
    \/ \E p \in Providers : Ask(p)
    \/ \E reply \in Replies, waits \in BOOLEAN : Reply(reply, waits)
    \/ \E id \in CallIds(history), content \in ResultForms : ClientRunsTool(id, content)
    \/ \E m \in FollowUps : ClientSays(m)

Spec == Init /\ [][Next]_vars

-----------------------------------------------------------------------------
(* Reading a request.                                                      *)

Speaker(role, block) ==
    CASE block.kind = "result"          -> "tool"
      [] role \in {"system", "developer"} -> "system"
      [] role \in {"assistant", "model"}  -> "assistant"
      [] OTHER                           -> "user"

(* A request as what it says, the ids of calls and results left out.       *)
Item(block) ==
    CASE block.kind = "call"   -> Block("call", Blocks("args", block.args))
      [] block.kind = "result" -> Block("result", block.blocks)
      [] OTHER                 -> Block(block.kind, <<Block("part", block.id)>>)
Saying(role, block) == [who |-> Speaker(role, block), what |-> Item(block)]
Sayings(role, blocks) == Map(LAMBDA b : Saying(role, b), blocks)
Wire(w) ==
    Sayings("system", w.system) \o MapAll(LAMBDA t : Sayings(t.role, t.blocks), w.turns)

(* The conversation as a provider should be told it.                       *)
AsSent(content, role) ==
    LET As(b) == CASE b.kind = "link" -> Block("image", b.id)
                   [] b.kind \in {"text", "image", "badlink", "file"} -> b
                   [] OTHER -> Block("repr", b.id)
    IN
    CASE content.form = "null" -> <<Block("text", "None")>>
      [] content.form = "list" /\ role \notin {"user", "developer"} -> WithKind("json", content.blocks)
      [] OTHER -> Map(As, SelectSeq(content.blocks, LAMBDA b : b.kind # "file_id"))
Saids(p, m) ==
    LET blocks == AsSent(m.content, m.role) IN
    CASE m.role = "tool" ->
            <<[who |-> "tool", what |-> Block("result", blocks)]>>
      [] m.role = "assistant" ->
            Sayings("assistant",
                    IF p = "mistral" /\ m.calls # <<>> THEN <<>> ELSE blocks)
            \o Map(LAMBDA c : [who |-> "assistant",
                               what |-> Block("call", Blocks("args", c.args))], m.calls)
      [] OTHER -> Sayings(IF m.role = "developer" THEN "user" ELSE m.role, blocks)

BySystem(s) == s.who = "system"
NotBySystem(s) == s.who # "system"

-----------------------------------------------------------------------------

(* A model is told everything the client sent, by the same speaker and in  *)
(* the same order, merged or split into turns as its API wants, whichever  *)
(* provider the earlier answers came from.  The exceptions are those of    *)
(* AsSent and Saids, and Gemini's: without a leading system prompt it is   *)
(* not told a later one (google_genai.py:470).                             *)
HistoryTold ==
    phase = "model" =>
      LET p == request.provider
          told == Wire(request.wire)
          said == MapAll(LAMBDA m : Saids(p, m), history)
      IN /\ SelectSeq(told, NotBySystem) = SelectSeq(said, NotBySystem)
         /\ SelectSeq(told, BySystem) =
               IF p \in Gemini /\ history[1].role # "system" THEN <<>>
               ELSE SelectSeq(said, BySystem)

(* Right after the calls of a turn come the results of exactly these       *)
(* calls, found by the id the provider knows them by (Gemini: by the tool),*)
(* also when a client or another provider chose the ids.                   *)
CallsAnswered ==
    phase = "model" =>
      LET blocks == MapAll(LAMBDA t : t.blocks, request.wire.turns)
          Name(b) == IF request.provider \in Gemini THEN b.tool ELSE b.id
          IsCall(i) == i \in 1..Len(blocks) /\ blocks[i].kind = "call"
          IsResult(i) == i \in 1..Len(blocks) /\ blocks[i].kind = "result"
          End(i) == CHOOSE k \in i..Len(blocks) :
                        IsCall(k) /\ ~IsCall(k + 1)
                        /\ \A j \in i..k : IsCall(j)
          Count(S, name) == Cardinality({i \in S : Name(blocks[i]) = name})
      IN \A i \in 1..Len(blocks) :
           (IsCall(i) /\ ~IsCall(i - 1)) =>
             LET calls == i..End(i)
                 results == (End(i) + 1)..(End(i) + Cardinality(calls))
             IN /\ \A j \in results : IsResult(j)
                /\ ~IsResult(End(i) + Cardinality(calls) + 1)
                /\ \A j \in calls : Count(calls, Name(blocks[j]))
                                       = Count(results, Name(blocks[j]))

(* Gemini 3 refuses a turn of calls still being answered whose first call  *)
(* carries no signature; turns of an answered exchange are left alone.     *)
GeminiSigned ==
    (phase = "model" /\ request.provider = "gemini3") =>
      LET turns == request.wire.turns
          asked == {i \in 1..Len(turns) : turns[i].role = "user" /\ turns[i].blocks # <<>>
                       /\ turns[i].blocks[1].kind # "result"}
          Calls(i) == SelectSeq(turns[i].blocks, LAMBDA b : b.kind = "call")
      IN \A i \in 1..Len(turns) :
           \A k \in 1..Len(Calls(i)) :
              Calls(i)[k].signed <=> (k = 1 /\ \A j \in asked : j < i)

(* A client that reads the stream and one that waits for the answer get    *)
(* the same calls, reasoning and texts; only, beside calls, the complete   *)
(* answer has no text.  They get the same finish reason unless the stream  *)
(* has none (Anthropic's and Responses'), or Gemini called a tool and said *)
(* it stopped.                                                             *)
StreamAgrees ==
    served # None =>
      LET reply == served.reply
          TextIn(blocks) == SelectSeq(Map(LAMBDA b : b.id, blocks),
                                      LAMBDA x : Contains(reply.texts, x))
          Bare(c) == [id |-> c.id, tool |-> c.tool, args |-> c.args]
      IN /\ TextIn(served.stream.content) = reply.texts
         /\ TextIn(served.complete.content.blocks) =
               IF served.complete.calls = <<>> THEN reply.texts ELSE <<>>
         /\ Map(Bare, served.stream.calls) = Map(Bare, reply.calls)
         /\ Map(Bare, served.complete.calls) =
               Map(Bare, SelectSeq(reply.calls, WellFormed))
         /\ served.stream.reasoning = served.complete.reasoning
         /\ \/ served.stream.finish = served.complete.finish
            \/ served.stream.finish = None /\ served.provider \in {"anthropic", "responses"}
            \/ served.stream.finish = "stop" /\ reply.calls # <<>>
                 /\ served.provider \in Gemini
            \/ \E i \in 1..Len(reply.calls) : ~WellFormed(reply.calls[i])

(* The usages of a stream's chunks add up to what the provider counted,    *)
(* also when it reports running totals or corrects its count of the prompt.*)
UsageAgrees ==
    served # None =>
      LET chunks == SelectSeq(Chunks(served.provider, served.reply),
                              LAMBDA c : c.usage # None)
      IN FoldLeft(LAMBDA u, c : AddUsage(u, c.usage), NoUsage, chunks)
           = served.reply.usage
=============================================================================
