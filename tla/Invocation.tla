----------------------------- MODULE Invocation -----------------------------
(***************************************************************************)
(* The models of a route answering requests: the invokers with their       *)
(* fallbacks, and what the handlers of the chat and the Responses API do   *)
(* with the answer (output guardrails, the charge to the limits, the       *)
(* response cache).                                                        *)
(*                                                                         *)
(* A reply is Length pieces, the last of which a native stream marks as    *)
(* final.  Its usage is Length units: most providers report them all with  *)
(* the last piece, those in Deltas report with each piece what it added.   *)
(* Everything between two awaits is one step.                              *)
(***************************************************************************)
EXTENDS Naturals, Sequences

CONSTANTS
    Chain,        \* the selected model, then its fallbacks in order
    Native,       \* the models that serve the Responses API
    Whisper,      \* the transcription models that cannot stream
    Deltas,       \* the models that report usage piece by piece
    Unmetered,    \* the models that report no usage
    ToolCallers,  \* the models whose last piece is a tool call, not text
    Length,       \* the pieces of a reply
    Requests,     \* the requests of a behaviour
    None

Models == {Chain[i] : i \in 1..Len(Chain)}

ASSUME InvocationAssumption ==
    /\ Chain \in Seq(Models)
    /\ Len(Chain) > 0
    /\ \A i, j \in 1..Len(Chain) : Chain[i] = Chain[j] => i = j
    /\ Length \in Nat \ {0}
    /\ None \notin Models

VARIABLES
    request,      \* request[q]: what the gateway knows of the request
    cache         \* cache[api]: the entry under the key they all share

vars == <<request, cache>>

-----------------------------------------------------------------------------

ChatStreams == {"stream", "buffered"}
NativeStreams == {"live", "held"}
Streams == ChatStreams \cup NativeStreams \cup {"transcript"}
Calls == {"complete", "response", "embed", "transcribe"}
Kinds == Streams \cup Calls \cup {"decide"}

Apis == {"chat", "responses"}
ApiOf == [k \in Kinds |-> IF k \in ChatStreams \cup {"complete"} THEN "chat"
                          ELSE IF k \in NativeStreams \cup {"response"} THEN "responses"
                          ELSE None]
(* The kinds whose pieces reach the client as they come.                   *)
Direct == {"stream", "live", "transcript"}
(* The kinds that record their invocation in a finally clause.             *)
AlwaysRecorded == ChatStreams \cup NativeStreams

All == 1..Length
Nothing == [m \in Models |-> 0]
Whole(m) == [Nothing EXCEPT ![m] = Length]

New == [kind |-> None, pc |-> "new", pos |-> 1, fallbacks |-> TRUE,
        got |-> Nothing, first |-> None, stats |-> {}, final |-> None,
        invoked |-> None, triggered |-> FALSE, mixed |-> FALSE,
        refused |-> FALSE, end |-> None, records |-> 0, record |-> None,
        charged |-> None]

Current(r) == Chain[r.pos]

(* The usage a piece comes with, and that of a whole answer (an embedding  *)
(* is counted by the gateway).                                             *)
Carried(kind, m, i) ==
    IF m \in Unmetered THEN {}
    ELSE IF kind \in ChatStreams /\ m \in Deltas THEN {i}
    ELSE IF i = Length THEN All ELSE {}
Answered(kind, m) == IF kind # "embed" /\ m \in Unmetered THEN {} ELSE All

(* The fallbacks a request may still try, and the next of them.            *)
Eligible(r, m) ==
    /\ r.kind \in NativeStreams \cup {"response"} => r.fallbacks /\ m \in Native
    /\ r.kind = "transcript" => m \notin Whisper
Later(r) == {i \in 1..Len(Chain) : i > r.pos /\ Eligible(r, Chain[i])}
Soonest(S) == CHOOSE i \in S : \A j \in S : i <= j

\* Mutant: the counts of the attempt that broke stay.
NextAttemptKeepsStats(r) ==
    LET next == Soonest(Later(r)) IN
    [r EXCEPT !.pos = next,
              !.invoked = IF r.kind \in AlwaysRecorded THEN Chain[next] ELSE @,
              !.triggered = @ \/ r.kind \in NativeStreams,
              !.mixed = @ \/ r.got # Nothing]

(* The next fallback starts with no usage; it is the model of the record   *)
(* from now on where a finally clause records.                             *)
NextAttempt(r) ==
    LET next == Soonest(Later(r)) IN
    [r EXCEPT !.pos = next, !.stats = {},
              !.final = IF r.kind \in ChatStreams THEN @ ELSE None,
              !.invoked = IF r.kind \in AlwaysRecorded THEN Chain[next] ELSE @,
              !.triggered = @ \/ r.kind \in NativeStreams,
              !.mixed = @ \/ r.got # Nothing]

(* _record_metrics: one invocation event, the usage, the FALLBACK event.   *)
Recorded(r) ==
    [r EXCEPT !.records = @ + 1,
              !.record = [model |-> r.invoked, units |-> r.stats,
                          fallback |-> r.triggered]]

Ended(r, how) == [r EXCEPT !.pc = "done", !.end = how]

Update(q, r) == request' = [request EXCEPT ![q] = r]

-----------------------------------------------------------------------------
(* Begin: the cache is looked up; a hit is answered without a model.       *)
(* Only the entries of the chat and the Responses API are modelled.        *)

Miss(q, kind, fallbacks) ==
    /\ request[q] = New
    /\ kind \in NativeStreams \cup {"response"} => Chain[1] \in Native
    /\ kind = "transcript" => Chain[1] \notin Whisper
    /\ ApiOf[kind] # None => cache[ApiOf[kind]] = None
    /\ Update(q, [New EXCEPT !.kind = kind, !.pc = "run", !.fallbacks = fallbacks,
                             !.invoked = Chain[1]])
    /\ UNCHANGED cache

Served(kind, entry) ==
    [New EXCEPT !.kind = kind, !.got = entry.got, !.mixed = entry.mixed,
                !.refused = entry.refused]

HasEntry(q, kind) ==
    /\ request[q] = New
    /\ ApiOf[kind] # None
    /\ cache[ApiOf[kind]] # None

(* A hit of a chat stream is one chunk, and is not screened again.         *)
HitStreamed(q, kind) ==
    /\ HasEntry(q, kind)
    /\ kind \in ChatStreams
    /\ Update(q, Ended(Served(kind, cache["chat"]), "hit"))
    /\ UNCHANGED cache

(* Any other hit goes through the output guardrails, as an answer does.    *)
HitScreened(q, kind) ==
    /\ HasEntry(q, kind)
    /\ kind \notin ChatStreams
    /\ LET served == Served(kind, cache[ApiOf[kind]]) IN
          \/ Update(q, Ended(served, "hit"))
          \/ Update(q, Ended(served, "blocked"))
          \/ Update(q, Ended([served EXCEPT !.refused = TRUE], "hit"))
    /\ UNCHANGED cache

-----------------------------------------------------------------------------
(* The invokers.                                                           *)

(* A stream yields the next piece of the current attempt.                  *)
Yields(q) ==
    LET r == request[q]
        m == Current(r)
        i == r.got[m] + 1
        usage == Carried(r.kind, m, i)
    IN
    /\ r.pc = "run"
    /\ r.kind \in Streams
    /\ i <= Length
    /\ Update(q, [r EXCEPT !.got[m] = i,
                    !.first = IF @ = None THEN m ELSE @,
                    !.stats = @ \cup usage,
                    !.final = IF usage # {} \/ (r.kind \in NativeStreams /\ i = Length)
                              THEN [model |-> m, units |-> usage] ELSE @])
    /\ UNCHANGED cache

\* Mutant: a native stream without a final event is handled as an answer.
AfterStreamWithoutFinal(r) ==
    CASE r.kind = "stream"     -> IF r.final # None THEN "charge" ELSE "store"
      [] r.kind = "live"       -> "charge"
      [] r.kind = "transcript" -> "done"
      [] OTHER                 -> "guard"

(* What the handler does once the stream ended.                            *)
AfterStream(r) ==
    CASE r.kind = "stream"     -> IF r.final # None THEN "charge" ELSE "store"
      [] r.kind = "live"       -> IF r.final # None THEN "charge" ELSE "done"
      [] r.kind = "held"       -> IF r.final # None THEN "guard" ELSE "done"
      [] r.kind = "transcript" -> "done"
      [] OTHER                 -> "guard"

Continued(r, pc) == IF pc = "done" THEN Ended(r, "ok") ELSE [r EXCEPT !.pc = pc]

StreamOver(r) ==
    /\ r.pc = "run"
    /\ r.got[Current(r)] = Length \/ r.kind \in NativeStreams

(* The attempt's stream ends after its last piece; the model of the record *)
(* and its FALLBACK event are those of the attempt that did.               *)
StreamEnds(q) ==
    LET r == request[q] IN
    /\ StreamOver(r)
    /\ r.kind \in ChatStreams
    /\ Update(q, Continued(Recorded(
            [r EXCEPT !.invoked = Current(r), !.triggered = r.pos > 1]), AfterStream(r)))
    /\ UNCHANGED cache

(* A native stream may also end before its last piece, and then without a  *)
(* final event.                                                            *)
NativeStreamEnds(q) ==
    LET r == request[q] IN
    /\ StreamOver(r)
    /\ r.kind \in NativeStreams
    /\ Update(q, Continued(Recorded(r), AfterStream(r)))
    /\ UNCHANGED cache

TranscriptEnds(q) ==
    LET r == request[q] IN
    /\ StreamOver(r)
    /\ r.kind = "transcript"
    /\ Update(q, Continued(Recorded(
            [r EXCEPT !.invoked = Current(r), !.triggered = r.pos > 1]), AfterStream(r)))
    /\ UNCHANGED cache

(* A call that does not stream is answered by the current model.           *)
AnsweredBy(r) ==
    LET m == Current(r)
        usage == Answered(r.kind, m)
    IN  [r EXCEPT !.got[m] = Length, !.first = m, !.stats = usage,
                  !.final = [model |-> m, units |-> usage],
                  !.invoked = m, !.triggered = r.pos > 1]

(* A completion without usage is not recorded.                             *)
Completes(q) ==
    LET r == request[q]
        answered == AnsweredBy(r)
    IN
    /\ r.pc = "run" /\ r.kind = "complete"
    /\ Update(q, IF answered.stats = {} THEN Continued(answered, "guard")
                 ELSE Continued(Recorded(answered), "charge"))
    /\ UNCHANGED cache

Responds(q) ==
    LET r == request[q] IN
    /\ r.pc = "run" /\ r.kind = "response"
    /\ Update(q, Continued(Recorded(AnsweredBy(r)), "guard"))
    /\ UNCHANGED cache

Embeds(q) ==
    LET r == request[q] IN
    /\ r.pc = "run" /\ r.kind = "embed"
    /\ Update(q, Ended(Recorded(AnsweredBy(r)), "ok"))
    /\ UNCHANGED cache

Transcribes(q) ==
    LET r == request[q] IN
    /\ r.pc = "run" /\ r.kind = "transcribe"
    /\ Update(q, Ended(Recorded(AnsweredBy(r)), "ok"))
    /\ UNCHANGED cache

\* Mutant: a native stream falls back as a chat stream does.
MayFallBackAfterPiece(r) == Later(r) # {}

(* A native stream tries a fallback only while nothing has been yielded.   *)
MayFallBack(r) ==
    /\ Later(r) # {}
    /\ r.kind \in NativeStreams => r.got = Nothing

(* The current attempt raises.                                             *)
Breaks(q) ==
    LET r == request[q] IN
    /\ r.pc = "run"
    /\ r.kind # "decide"
    /\ \/ MayFallBack(r) /\ Update(q, NextAttempt(r))
       \/ /\ ~MayFallBack(r)
          /\ Update(q, Ended(IF r.kind \in AlwaysRecorded THEN Recorded(r) ELSE r,
                             "error"))
    /\ UNCHANGED cache

(* A transcription upstream refuses the client's input: no fallback.       *)
Refuses(q) ==
    LET r == request[q] IN
    /\ r.pc = "run"
    /\ r.kind \in {"transcribe", "transcript"}
    /\ r.got[Current(r)] = 0
    /\ Update(q, Ended(r, "error"))
    /\ UNCHANGED cache

(* One decision model, after its retries: a success or a refusal ends the  *)
(* chain, a transient failure or no response at all goes to the next.  At  *)
(* the end of the chain the last response is returned as it is.            *)
Decides(q, outcome) ==
    LET r == request[q]
        m == Current(r)
        seen == [r EXCEPT !.invoked = IF outcome = "none" THEN @ ELSE m,
                          !.triggered = r.pos > 1]
    IN
    /\ r.pc = "run"
    /\ r.kind = "decide"
    /\ \/ /\ outcome = "success"
          /\ Update(q, Ended(Recorded([seen EXCEPT !.got[m] = Length, !.first = m,
                                                   !.stats = Answered(r.kind, m)]), "ok"))
       \/ /\ outcome = "refused"
          /\ Update(q, Ended(seen, "error"))
       \/ /\ outcome \in {"transient", "none"}
          /\ \/ Later(r) # {} /\ Update(q, [seen EXCEPT !.pos = Soonest(Later(r))])
             \/ Later(r) = {} /\ Update(q, Ended(seen, "error"))
    /\ UNCHANGED cache

(* The client of a stream disconnects: the task is cancelled where it is.  *)
Leaves(q) ==
    LET r == request[q] IN
    /\ r.pc \in {"run", "charge", "store"}
    /\ r.kind \in Direct
    /\ Update(q, Ended(IF r.pc = "run" /\ r.kind \in AlwaysRecorded THEN Recorded(r)
                       ELSE r, "left"))
    /\ UNCHANGED cache

-----------------------------------------------------------------------------
(* The handlers.                                                           *)

(* The output guardrails: a block raises, but a soft block of `complete`   *)
(* and of a response only puts a refusal in the place of the reply.        *)
AfterGuard == [complete |-> "store", buffered |-> "store",
               response |-> "charge", held |-> "charge"]

Passes(q) ==
    LET r == request[q] IN
    /\ r.pc = "guard"
    /\ Update(q, [r EXCEPT !.pc = AfterGuard[r.kind]])
    /\ UNCHANGED cache

Blocks(q) ==
    LET r == request[q] IN
    /\ r.pc = "guard"
    /\ Update(q, Ended(r, "blocked"))
    /\ UNCHANGED cache

BlocksSoftly(q) ==
    LET r == request[q] IN
    /\ r.pc = "guard"
    /\ r.kind # "buffered"
    /\ Update(q, [r EXCEPT !.pc = AfterGuard[r.kind], !.refused = TRUE])
    /\ UNCHANGED cache

(* _count_usage: the selected model's price, the usage the handler has.    *)
AfterCharge == [complete |-> "guard", stream |-> "store", buffered |-> "done",
                response |-> "store", live |-> "store", held |-> "store"]

Charge(q) ==
    LET r == request[q] IN
    /\ r.pc = "charge"
    /\ Update(q, Continued([r EXCEPT !.charged = r.final], AfterCharge[r.kind]))
    /\ UNCHANGED cache

(* What a chat stream leaves in the cache is its text.                     *)
Text(got) == [m \in Models |-> IF m \in ToolCallers /\ got[m] = Length
                               THEN Length - 1 ELSE got[m]]
Entry(r) ==
    [got |-> IF r.kind \in ChatStreams THEN Text(r.got) ELSE r.got,
     mixed |-> r.mixed, refused |-> r.refused]

(* An entry is written if the request has a cache key (and a native        *)
(* response is complete, and a stream of its own has text).                *)
Store(q) ==
    LET r == request[q]
        api == ApiOf[r.kind]
    IN
    /\ r.pc = "store"
    /\ \/ /\ r.kind = "stream" => Entry(r).got # Nothing
          /\ cache' = [cache EXCEPT ![api] = Entry(r)]
       \/ UNCHANGED cache
    /\ Update(q, Continued(r, IF r.kind = "buffered" /\ r.final # None
                              THEN "charge" ELSE "done"))

(* An entry reaches its time to live.                                      *)
Expire(api) ==
    /\ cache[api] # None
    /\ cache' = [cache EXCEPT ![api] = None]
    /\ UNCHANGED request

-----------------------------------------------------------------------------

Init ==
    /\ request = [q \in Requests |-> New]
    /\ cache = [api \in Apis |-> None]

Step(q) ==
    \/ \E kind \in Kinds :
          \/ Miss(q, kind, TRUE)
          \/ kind \in NativeStreams \cup {"response"} /\ Miss(q, kind, FALSE)
          \/ HitStreamed(q, kind) \/ HitScreened(q, kind)
    \/ Yields(q) \/ StreamEnds(q) \/ NativeStreamEnds(q) \/ TranscriptEnds(q)
    \/ Completes(q) \/ Responds(q) \/ Embeds(q) \/ Transcribes(q)
    \/ Breaks(q) \/ Refuses(q)
    \/ \E outcome \in {"success", "refused", "transient", "none"} : Decides(q, outcome)
    \/ Leaves(q)
    \/ Passes(q) \/ Blocks(q) \/ BlocksSoftly(q) \/ Charge(q) \/ Store(q)

Next ==
    \/ \E q \in Requests : Step(q)
    \/ \E api \in Apis : Expire(api)

Spec == Init /\ [][Next]_vars

-----------------------------------------------------------------------------
(* Properties.                                                             *)

UsageRecord == [model : Models, units : SUBSET All]
RequestRecord ==
    [kind : Kinds, pc : {"run", "guard", "charge", "store", "done"},
     pos : 1..Len(Chain), fallbacks : BOOLEAN, got : [Models -> 0..Length],
     first : Models \cup {None}, stats : SUBSET All,
     final : UsageRecord \cup {None}, invoked : Models \cup {None},
     triggered : BOOLEAN, mixed : BOOLEAN, refused : BOOLEAN,
     end : {None, "ok", "error", "left", "blocked", "hit"},
     records : 0..1,
     record : [model : Models, units : SUBSET All, fallback : BOOLEAN] \cup {None},
     charged : UsageRecord \cup {None}]
EntryRecord == [got : [Models -> 0..Length], mixed : BOOLEAN, refused : BOOLEAN]

ASSUME NoneIsNoOther ==
    None \notin Kinds \cup Apis \cup {"ok", "error", "left", "blocked", "hit"}
                \cup UsageRecord \cup EntryRecord

(* The reply as ModelReply sees it.  A chat or transcription stream that   *)
(* falls back after a piece counts as stopped there: the client goes on to *)
(* get another model's reply from its beginning.  A refusal, and a cached  *)
(* reply that is not whole (see CacheWhole), count as stopped too.         *)
Mixed(r) == r.mixed /\ (ApiOf[r.kind] = "chat" \/ r.kind = "transcript")
Givers(r) == IF Mixed(r) /\ r.first # None THEN {r.first}
             ELSE {m \in Models : r.got[m] > 0}
Shown(r) == IF Givers(r) = {} THEN 0 ELSE r.got[CHOOSE m \in Givers(r) : TRUE]

Over(r) ==
    IF Mixed(r) \/ r.end \in {"error", "left"} THEN "cut"
    ELSE IF r.end = None THEN "no"
    ELSE IF Shown(r) = Length THEN "whole" ELSE "cut"

Told(r) == [from |-> Givers(r), shown |-> Shown(r), over |-> Over(r)]
Silent(over) == [from |-> {}, shown |-> 0, over |-> over]

View(r) ==
    IF r.kind \in Direct /\ r.end \notin {"hit", "blocked"} THEN Told(r)
    ELSE IF r.end = None THEN Silent("no")
    ELSE IF r.end \in {"ok", "hit"} /\ ~Mixed(r) /\ ~r.refused THEN Told(r)
    ELSE Silent("cut")

Reply == INSTANCE ModelReply WITH reply <- [q \in Requests |-> View(request[q])]

(* The gateway implements ModelReply: whatever breaks, falls back, is      *)
(* cancelled or comes from the cache, a client gets the pieces of one      *)
(* model only ("A fallback is tried only while nothing has been yielded",  *)
(* stream_responses), but for what View lets go.                           *)
ReplySpec == Reply!Spec

(* A request that ended well was recorded under the model that gave the    *)
(* answer, with all and only that model's usage and a FALLBACK event if it *)
(* is not the selected one; what the limits were charged is what was       *)
(* recorded.  The exceptions the code has: a completion without usage is   *)
(* not recorded; a stream of deltas is charged its last one; a blocked     *)
(* `buffered`, `response` or `held` reply and one whose client left are    *)
(* recorded and not charged; a native stream without a final event has no  *)
(* usage; a mixed stream whose last model reports none is charged the      *)
(* earlier one's.  A request that failed is charged nothing                *)
(* (_record_metrics, _count_usage and their callers).                      *)
AccountAgrees(r) ==
    LET m == Current(r)
        whole == r.got[m] = Length
        usage == IF whole THEN Answered(r.kind, m) ELSE {}
    IN
    /\ r.end = "ok" =>
         IF r.kind = "complete" /\ usage = {}
         THEN r.records = 0 /\ r.charged = None
         ELSE r.record = [model |-> m, units |-> usage, fallback |-> r.pos > 1]
    /\ r.end = "ok" /\ ApiOf[r.kind] # None /\ ~r.mixed /\ usage # {} =>
         /\ r.charged # None /\ r.charged.model = m
         /\ r.charged.units = usage \/ (r.kind \in ChatStreams /\ m \in Deltas)
    /\ r.charged # None /\ ~r.mixed => r.charged.units \subseteq r.record.units
    /\ r.end \in {"error", "hit"} => r.charged = None
    /\ r.end = "blocked" /\ r.charged # None => r.kind = "complete"

AccountsAgree ==
    \A q \in Requests : request[q].pc = "done" => AccountAgrees(request[q])

(* What a later request gets from the cache is the whole reply of one      *)
(* model, whatever stream wrote it and however it ended, but for two cases *)
(* of the chat API: a stream that fell back after a piece is stored with   *)
(* the pieces of both models, and a stream's tool call is not stored       *)
(* (_build_and_cache_stream_response keeps the text).  A refusal is stored *)
(* like a reply.                                                           *)
CacheWhole ==
    \A api \in Apis :
        LET entry == cache[api] IN
        entry # None /\ ~entry.refused /\ (api = "chat" => ~entry.mixed) =>
            \E m \in Models :
                \/ entry.got = Whole(m)
                \/ api = "chat" /\ m \in ToolCallers /\ entry.got = Text(Whole(m))

=============================================================================
