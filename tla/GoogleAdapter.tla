---------------------------- MODULE GoogleAdapter ----------------------------
(***************************************************************************)
(* Gemini's contents: the gateway messages in its form, and its answers    *)
(* and stream events as gateway messages.  Calls and results carry the     *)
(* name of the tool but no id; gemini3 says whether the model is Gemini 3  *)
(* or later, whose texts are blocks and whose calls need a signature.      *)
(***************************************************************************)
EXTENDS ChatMessages, Integers

GooglePart(block) ==
    IF block.kind = "link" THEN [block EXCEPT !.kind = "image"] ELSE block
GoogleCall(call) ==
    [kind |-> "call", tool |-> call.tool, args |-> call.args, signed |-> FALSE]

(* The results of a message's calls: of the tool messages, wherever they   *)
(* are, the first that answers each of them.                               *)
Responses(m, tools) ==
    LET ToolOf(id) == m.calls[CHOOSE i \in 1..Len(m.calls) : m.calls[i].id = id].tool
        Answers(j) == \E i \in 1..Len(m.calls) : m.calls[i].id = tools[j].answers
        First(j) == \A k \in 1..(j - 1) : tools[k].answers # tools[j].answers
        chosen == SelectSeq([j \in 1..Len(tools) |-> j],
                            LAMBDA j : Answers(j) /\ First(j))
    IN Map(LAMBDA j : [kind |-> "result", tool |-> ToolOf(tools[j].answers),
                       blocks |-> tools[j].content.blocks], chosen)

(* A message's contents; the results of its calls follow as one user turn. *)
ContentsOf(m, tools) ==
    LET parts == Map(GooglePart, m.content.blocks)
        Turn(role, blocks) == [role |-> role, blocks |-> blocks]
        results == Responses(m, tools)
    IN CASE m.type = "human" -> <<Turn("user", parts)>>
         [] m.type = "ai" /\ m.calls = <<>> -> <<Turn("model", parts)>>
         [] m.type = "ai" /\ m.calls # <<>> ->
               <<Turn("model", parts \o Map(GoogleCall, m.calls))>>
                   \o (IF results = <<>> THEN <<>> ELSE <<Turn("user", results)>>)
         [] OTHER -> <<>>

(* A leading system message starts the instruction and later ones are      *)
(* added to it; without a leading one they are dropped.                    *)
SystemInstruction(others) ==
    IF others # <<>> /\ others[1].type = "system"
    THEN MapAll(LAMBDA m : IF m.type = "system" THEN Map(GooglePart, m.content.blocks)
                           ELSE <<>>, others)
    ELSE <<>>

\* Mutant: the last call of a turn is signed, not the first.
PatchedSignaturesLast(contents) ==
    LET Standard(i) == /\ contents[i].role = "user"
                       /\ contents[i].blocks # <<>>
                       /\ \A k \in 1..Len(contents[i].blocks) :
                             contents[i].blocks[k].kind # "result"
        InProgress(i) == \A j \in i..Len(contents) : ~Standard(j)
    IN [i \in 1..Len(contents) |->
          [contents[i] EXCEPT !.blocks =
              [k \in 1..Len(@) |->
                  IF @[k].kind = "call" /\ k = Len(@) /\ InProgress(i)
                  THEN [@[k] EXCEPT !.signed = TRUE] ELSE @[k]]]]

(* Gemini 3: the first call of each model turn since the last user turn    *)
(* that is not a result gets a placeholder signature.                      *)
PatchedSignatures(contents) ==
    LET Standard(i) == /\ contents[i].role = "user"
                       /\ contents[i].blocks # <<>>
                       /\ \A k \in 1..Len(contents[i].blocks) :
                             contents[i].blocks[k].kind # "result"
        FirstCall(i) == {k \in 1..Len(contents[i].blocks) :
                            /\ contents[i].blocks[k].kind = "call"
                            /\ \A j \in 1..(k - 1) : contents[i].blocks[j].kind # "call"}
        InProgress(i) == \A j \in i..Len(contents) : ~Standard(j)
    IN [i \in 1..Len(contents) |->
          [contents[i] EXCEPT !.blocks =
              [k \in 1..Len(@) |-> IF k \in FirstCall(i) /\ InProgress(i)
                                   THEN [@[k] EXCEPT !.signed = TRUE] ELSE @[k]]]]

GoogleRequest(messages, gemini3) ==
    LET others == SelectSeq(messages, LAMBDA m : m.type # "tool")
        tools == SelectSeq(messages, LAMBDA m : m.type = "tool")
        contents == MapAll(LAMBDA m : ContentsOf(m, tools), others)
        blocks == MapAll(LAMBDA m : m.content.blocks, others)
    IN [refused |-> \E i \in 1..Len(blocks) : blocks[i].kind = "badlink",
        system |-> SystemInstruction(others),
        turns |-> IF gemini3 THEN PatchedSignatures(contents) ELSE contents]

-----------------------------------------------------------------------------
(* Answers.  A text stands alone as a string; with another text, with      *)
(* thinking or from Gemini 3 the content is a list.                        *)

GoogleContent(thoughts, texts, gemini3) ==
    LET blocks == Blocks("thinking", thoughts) \o Blocks("text", texts) IN
    IF gemini3 \/ thoughts # <<>> \/ Len(texts) > 1 THEN List(blocks) ELSE Text(blocks)

GoogleFinish(reply) == IF reply.end = "length" THEN "max_tokens" ELSE "stop"

GoogleAnswer(reply, gemini3) ==
    [Answer(GoogleContent(reply.thoughts, reply.texts, gemini3)) EXCEPT
        !.calls = reply.calls, !.finish = GoogleFinish(reply), !.usage = reply.usage]

(* External: the responses of a stream: each a thought, a text or a whole  *)
(* call, and the running usage, the last also the finish reason.           *)
GoogleEvents(reply) ==
    LET event == [thoughts |-> <<>>, texts |-> <<>>, calls |-> <<>>, finish |-> None,
                  usage |-> None]
        parts == Map(LAMBDA x : [event EXCEPT !.thoughts = <<x>>], reply.thoughts)
                 \o Map(LAMBDA x : [event EXCEPT !.texts = <<x>>], reply.texts)
                 \o Map(LAMBDA c : [event EXCEPT !.calls = <<c>>], reply.calls)
                 \o <<[event EXCEPT !.finish = GoogleFinish(reply)]>>
        Running(i) ==
            IF i = Len(parts) THEN reply.usage
            ELSE [input |-> reply.estimate, output |-> i]
    IN [i \in 1..Len(parts) |-> [parts[i] EXCEPT !.usage = Running(i)]]

NoUsage == [input |-> 0, output |-> 0]
AddUsage(u, v) == [input |-> u.input + v.input, output |-> u.output + v.output]

\* Mutant: the running total is passed on as it came.
UsageDeltaCumulative(usage, before) == usage

(* A chunk gets what the running total grew by, never less than nothing;   *)
(* a prompt counted lower than before is the truth and is made up for.     *)
UsageDelta(usage, before) ==
    [input |-> usage.input - before.input,
     output |-> IF usage.output > before.output
                THEN usage.output - before.output ELSE 0]

(* Each whole call gets an index of its own; a block of another type than  *)
(* the open one takes an index too.                                        *)
GoogleChunk(acc, e, gemini3) ==
    LET content == GoogleContent(e.thoughts, e.texts, gemini3)
        type == IF content.form # "list" \/ content.blocks = <<>> THEN acc.open
                ELSE content.blocks[1].kind
        next == IF type # acc.open THEN acc.next + 1 ELSE acc.next
        delta == UsageDelta(e.usage, acc.usage)
        chunk == [Chunk(content) EXCEPT
                    !.calls = [i \in 1..Len(e.calls) |->
                                 CallChunk(next + i - 1, e.calls[i].id,
                                           e.calls[i].tool, e.calls[i].args)],
                    !.finish = e.finish, !.usage = delta]
    IN [chunks |-> Append(acc.chunks, chunk),
        next |-> next + Len(e.calls),
        open |-> IF e.calls = <<>> THEN type ELSE None,
        usage |-> AddUsage(acc.usage, delta)]

GoogleStream(reply, gemini3) ==
    FoldLeft(LAMBDA acc, e : GoogleChunk(acc, e, gemini3),
             [chunks |-> <<>>, next |-> 0, open |-> None, usage |-> NoUsage],
             GoogleEvents(reply)).chunks
=============================================================================
