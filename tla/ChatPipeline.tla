---------------------------- MODULE ChatPipeline ----------------------------
(***************************************************************************)
(* What a chat or Responses request passes between its limits and its      *)
(* client: plugins, redaction, routing, the route's prompt, input checks,  *)
(* the cache, the model, output guardrails, and the cache again.  Requests *)
(* of one API key meet in the cache.  Limits are in RouteLimits, fallbacks *)
(* and usage in Invocation.                                                *)
(***************************************************************************)
EXTENDS Guardrails

CONSTANTS Requests,    \* requests that may be under way
          Routes,      \* the configurations a route may have
          Vocabulary,  \* the words of texts; "mask" stands for one that was redacted
          Asked,       \* what a client may send: the API, the way and the messages
          Answers,     \* the words a model may answer; a call of a tool has none
          MaxFailures, \* bound on the services that fail
          None

Roles == {"system", "developer", "user", "assistant", "tool"}
Message == [role : Roles, words : SUBSET Vocabulary]
GuardrailConfig ==
    [type : STRING, where : {"input", "output", "io"},
     behavior : {"block", "soft_block", "warn"}, roles : {AnyRole} \cup SUBSET Roles,
     last : Nat, values : SUBSET (Vocabulary \ {"mask"}), enabled : BOOLEAN]

(* The prompts of the models a route may choose.                           *)
Prompts(rt) == {model.prompt : model \in Options(rt.router)} \ {None}

(* What the API and the configuration accept: no recogniser takes a mask   *)
(* for a value, and the prompt of a model is a system's or a developer's.  *)
(* A role is the class of a message: what a client says as a developer is  *)
(* a user's in a chat and a system's in the Responses API.                 *)
WellFormed ==
    /\ Asked \subseteq [api : {"chat", "responses"}, way : {"complete", "stream"},
                        messages : Seq(Message)]
    /\ \A ask \in Asked : \A m \in Range(ask.messages) : m.role # "developer"
    /\ Answers \subseteq SUBSET Vocabulary /\ {"mask", "refusal"} \subseteq Vocabulary
    /\ \A rt \in Routes :
          /\ rt.guardrails \in Seq(GuardrailConfig)
          /\ rt.plugins \in Seq(SUBSET Vocabulary)
          /\ rt.router.options \in Seq([model : Options(rt.router), keywords : SUBSET Vocabulary])
          /\ Prompts(rt) \subseteq [role : {"system", "developer"}, words : SUBSET Vocabulary]
          /\ rt.caching \in {None, "exact", "semantic"}

ASSUME PipelineAssumption == WellFormed

VARIABLES
    route,     \* the route's configuration
    req,       \* the requests
    cache,     \* the entries of the cache
    told,      \* history: which request sent which text to which service
    failures   \* how many services failed
chatVars == <<route, req, cache, told, failures>>

Fresh ==
    [at |-> "idle", api |-> None, way |-> None, sent |-> <<>>, messages |-> <<>>,
     clean |-> <<>>, skip |-> 0, key |-> None, vector |-> {}, words |-> {},
     hit |-> FALSE, refused |-> FALSE, header |-> FALSE, warned |-> FALSE, excused |-> FALSE,
     from |-> None]

ChatInit ==
    /\ route \in Routes
    /\ req = [r \in Requests |-> Fresh]
    /\ cache = {}
    /\ told = {}
    /\ failures = 0

Tell(r, service, texts) ==
    told' = told \cup {[request |-> r, service |-> service, words |-> w] : w \in texts}
Words(messages) == {messages[i].words : i \in 1..Len(messages)}
(* Which checks' services fail when a message is judged, and which when    *)
(* the warning checks are made once more: at most one each time.           *)
MayFail(where) ==
    LET fallible == Fallible(route.guardrails, where)
        One(S) == {{}} \cup {{g} : g \in S}
    IN {f \in [judged : One(fallible), warned : One({g \in fallible : g.behavior = "warn"})] :
           failures + Cardinality(f.judged) + Cardinality(f.warned) <= MaxFailures}
Count(f) == failures' = failures + Cardinality(f.judged) + Cardinality(f.warned)
Becomes(r, x) == req' = [req EXCEPT ![r] = x]
Has(class, where) == GuardrailsFor(route.guardrails, class, where) # {}
Screens == Has("check", "output") \/ Has("redact", "output")

-----------------------------------------------------------------------------
(* Before the model.                                                       *)

Arrive(r, ask) ==
    /\ req[r].at = "idle"
    /\ Becomes(r, [req[r] EXCEPT !.at = "preprocess", !.api = ask.api, !.way = ask.way,
                !.sent = ask.messages, !.messages = ask.messages])
    /\ UNCHANGED <<route, cache, told, failures>>

(* The enabled plugins, in the order of the route's configuration; here    *)
(* each hides some words.                                                  *)
Plugged(plugins, messages) ==
    LET out[k \in 0..Len(plugins)] ==
          IF k = 0 THEN messages
          ELSE [i \in 1..Len(messages) |-> Masked(out[k - 1][i], plugins[k])]
    IN out[Len(plugins)]
Preprocess(r) ==
    /\ req[r].at = "preprocess"
    /\ Becomes(r, [req[r] EXCEPT !.at = "redact",
                !.messages = Plugged(route.plugins, req[r].messages)])
    /\ UNCHANGED <<route, cache, told, failures>>

RedactInput(r) ==
    /\ req[r].at = "redact"
    /\ LET clean == Redacted(route.guardrails, req[r].messages, "input")
       IN Becomes(r, [req[r] EXCEPT !.at = "route", !.clean = clean, !.warned = clean # req[r].messages])
    /\ UNCHANGED <<route, cache, told, failures>>

(* The prompt of a model goes in front of what the model is sent, and of   *)
(* what a chat request's cache key is made of.                             *)
WithPrompt(model, messages) ==
    IF model.prompt = None THEN messages ELSE <<model.prompt>> \o messages

\* Mutant: the route's prompt counts as the client's.
PromptMessagesNone(model) == 0

(* The messages in front that input guardrails do not read.                *)
PromptMessages(model) == IF model.prompt = None THEN 0 ELSE 1

RouteTo(r) ==
    /\ req[r].at = "route"
    /\ \E model \in MayChoose(route.router, req[r].clean) :
          Becomes(r, [req[r] EXCEPT !.at = "check",
                   !.messages = IF req[r].api = "chat" THEN WithPrompt(model, req[r].messages)
                                ELSE req[r].messages,
                   !.clean = WithPrompt(model, req[r].clean),
                   !.skip = PromptMessages(model)])
    /\ Tell(r, "router", IF Discloses(route.router)
                         THEN RoutingTexts(route.router, req[r].clean) ELSE {})
    /\ UNCHANGED <<route, cache, failures>>

(* A refusal in place of a reply goes straight to the client.              *)
CheckInput(r) ==
    /\ req[r].at = "check"
    /\ \E f \in MayFail("input") :
         LET m == req[r].clean
             verdict == Verdict(route.guardrails, m, "input", req[r].skip, f.judged)
         IN /\ Count(f)
            /\ Tell(r, "judge", Shown(route.guardrails, m, "input", req[r].skip, f.judged))
            /\ CASE verdict = "pass" ->
                      Becomes(r, [req[r] EXCEPT !.at = IF route.caching = None THEN "call" ELSE "key",
                               !.excused = f.judged # {},
                               !.warned = \/ req[r].warned
                                          \/ Warns(route.guardrails, m, "input",
                                                   req[r].skip, f.warned)])
                 [] verdict = "soft_block" ->
                      Becomes(r, [req[r] EXCEPT !.at = "reply", !.words = {"refusal"}, !.refused = TRUE,
                               !.header = TRUE])
                 [] OTHER -> Becomes(r, [req[r] EXCEPT !.at = verdict])
    /\ UNCHANGED <<route, cache>>

-----------------------------------------------------------------------------
(* The cache.                                                              *)

(* The messages from the last one of the user on.  The cache of the chat   *)
(* API takes a developer's prompt for one (chat_request.py:162).           *)
Turn(api, messages) ==
    LET roles == IF api = "chat" THEN {"user", "developer"} ELSE {"user"}
        users == {i \in 1..Len(messages) : messages[i].role \in roles}
    IN IF users = {} THEN <<>> ELSE SubSeq(messages, Max(users), Len(messages))

(* A chat request is known by what its client sent, a Responses request by *)
(* what is left of it after redaction.                                     *)
Known(x) == Turn(x.api, IF x.api = "chat" THEN x.messages ELSE x.clean)

\* Mutant: the last message alone.
CacheKeyLastOnly(x) ==
    IF Known(x) = <<>> THEN None ELSE [api |-> x.api, turn |-> <<Known(x)[Len(Known(x))]>>]

CacheKey(x) ==
    IF Known(x) = <<>> THEN None ELSE [api |-> x.api, turn |-> Known(x)]
Embeddable(x) == IF Known(x) = <<>> THEN {} ELSE Known(x)[1].words

(* The key, and in a semantic cache the embedding of the last user text.   *)
(* Without an embedding a Responses request goes on without the cache, a   *)
(* chat request fails in the lookup (semantic_caching.py:114).             *)
MakeKey(r) ==
    LET x == req[r]
        key == CacheKey(x)
        Without == CASE x.api = "chat" -> "error" [] OTHER -> "call"
    IN
    /\ x.at = "key"
    /\ \/ /\ route.caching = "exact" \/ (x.api = "responses" /\ key = None)
          /\ Becomes(r, [req[r] EXCEPT !.at = IF key = None THEN "call" ELSE "lookup", !.key = key])
          /\ UNCHANGED <<told, failures>>
       \/ /\ route.caching = "semantic"
          /\ key # None \/ x.api = "chat"
          /\ IF Embeddable(x) = {}
             THEN /\ Becomes(r, [req[r] EXCEPT !.at = Without])
                  /\ UNCHANGED <<told, failures>>
             ELSE /\ Tell(r, "embedder", {Embeddable(x)})
                  /\ \/ /\ Becomes(r, [req[r] EXCEPT !.at = "lookup", !.key = key, !.vector = Embeddable(x)])
                        /\ UNCHANGED failures
                     \/ /\ failures < MaxFailures
                        /\ failures' = failures + 1
                        /\ Becomes(r, [req[r] EXCEPT !.at = Without])
    /\ UNCHANGED <<route, cache>>

(* The entries a lookup may find: that of the key, or one whose last user  *)
(* text is alike, whatever followed it.                                    *)
Matches(x) ==
    IF route.caching = "exact" THEN {e \in cache : e.key = x.key}
    ELSE {e \in cache : e.vector = x.vector}

\* Mutant: what was screened when it was stored is not screened again.
ScreensHitNever(x) == FALSE

(* A complete reply from the cache, and one of the Responses API, is       *)
(* screened again; a chat stream takes it as it is.                        *)
ScreensHit(x) == Screens /\ (x.api = "responses" \/ x.way = "complete")

(* An entry of the other API is a miss.                                    *)
LookUp(r) ==
    /\ req[r].at = "lookup"
    /\ LET x == req[r] IN
       IF \E e \in Matches(x) : TRUE
       THEN \E e \in Matches(x) :
              IF e.key.api = x.api
              THEN Becomes(r, [req[r] EXCEPT !.at = IF ScreensHit(x) THEN "screen" ELSE "reply",
                            !.words = e.words, !.refused = e.refused, !.hit = TRUE,
                            !.excused = e.excused, !.from = e.sent])
              ELSE Becomes(r, [req[r] EXCEPT !.at = "call"])
       ELSE Becomes(r, [req[r] EXCEPT !.at = "call"])
    /\ UNCHANGED <<route, cache, told, failures>>

Store(r) ==
    /\ req[r].at = "store"
    /\ cache' = {e \in cache : e.key # req[r].key}
                  \cup {[key |-> req[r].key, vector |-> req[r].vector, words |-> req[r].words,
                         refused |-> req[r].refused, excused |-> req[r].excused,
                         sent |-> req[r].sent]}
    /\ Becomes(r, [req[r] EXCEPT !.at = "reply"])
    /\ UNCHANGED <<route, told, failures>>

Expire ==
    /\ \E e \in cache : cache' = cache \ {e}
    /\ UNCHANGED <<route, req, told, failures>>

-----------------------------------------------------------------------------
(* The model and its reply.                                                *)

(* A stream is kept back while the route has output guardrails; else its   *)
(* client has read it when it is cached.  A stream without text, but for   *)
(* one kept back, is not cached.  A call is told even without a message.   *)
CallModel(r) ==
    /\ req[r].at = "call"
    /\ Tell(r, "model", {{}} \cup Words(req[r].clean))
    /\ \E words \in Answers :
         Becomes(r, [req[r] EXCEPT !.words = words,
                  !.at = CASE Screens -> "screen"
                           [] /\ ~Screens
                              /\ req[r].key # None
                              /\ words # {} \/ req[r].way = "complete" \/ req[r].api = "responses"
                              -> "store"
                           [] OTHER -> "reply"])
    /\ UNCHANGED <<route, cache, failures>>

(* A chat stream that is kept back is checked and never redacted.          *)
AfterRedaction(x) ==
    IF x.words = {} \/ (x.api = "chat" /\ x.way = "stream") THEN x.words
    ELSE Redacted(route.guardrails, <<[role |-> "assistant", words |-> x.words]>>,
                  "output")[1].words

AfterScreen(x) == IF x.hit \/ x.key = None THEN "reply" ELSE "store"

(* A refusal in place of a reply is cached like a reply; of a chat stream  *)
(* that is kept back it is an error.                                       *)
ScreenOutput(r) ==
    /\ req[r].at = "screen"
    /\ \E f \in MayFail("output") :
         LET x == req[r]
             buffered == x.api = "chat" /\ x.way = "stream"
             words == AfterRedaction(x)
             said == <<[role |-> "assistant", words |-> words]>>
             verdict == Verdict(route.guardrails, said, "output", 0, f.judged)
         IN /\ Count(f)
            /\ Tell(r, "output judge", Shown(route.guardrails, said, "output", 0, f.judged))
            /\ CASE verdict = "pass" ->
                      Becomes(r, [req[r] EXCEPT !.at = AfterScreen(x), !.words = words,
                               !.excused = f.judged # {},
                               !.warned = \/ x.warned
                                          \/ ~buffered /\ words # x.words
                                          \/ /\ ~buffered
                                             /\ Warns(route.guardrails, said, "output", 0, f.warned)])
                 [] verdict = "soft_block" /\ ~buffered ->
                      Becomes(r, [req[r] EXCEPT !.at = AfterScreen(x), !.words = {"refusal"}, !.refused = TRUE,
                               !.header = TRUE, !.warned = TRUE])
                 [] OTHER -> Becomes(r, [req[r] EXCEPT !.at = IF verdict = "soft_block" THEN "block" ELSE verdict])
    /\ UNCHANGED <<route, cache>>

(* A plugin, Presidio's anonymiser, the semantic router or the model that  *)
(* fails, fails the request.                                               *)
Fail(r) ==
    /\ failures < MaxFailures
    /\ \/ req[r].at = "preprocess" /\ route.plugins # <<>>
       \/ req[r].at = "redact" /\ Has("redact", "input")
       \/ req[r].at = "route" /\ route.router.kind = "semantic"
       \/ req[r].at = "call"
       \/ req[r].at = "screen" /\ Has("redact", "output")
            /\ ~(req[r].api = "chat" /\ req[r].way = "stream")
    /\ failures' = failures + 1
    /\ Becomes(r, [req[r] EXCEPT !.at = "error"])
    /\ UNCHANGED <<route, cache, told>>

ChatNext ==
    \/ \E r \in Requests :
          \/ \E ask \in Asked : Arrive(r, ask)
          \/ Preprocess(r) \/ RedactInput(r) \/ RouteTo(r) \/ CheckInput(r)
          \/ MakeKey(r) \/ LookUp(r) \/ CallModel(r) \/ ScreenOutput(r) \/ Store(r) \/ Fail(r)
    \/ Expire

ChatSpec == ChatInit /\ [][ChatNext]_chatVars

Services == {"router", "judge", "embedder", "model", "output judge"}
Key == [api : {"chat", "responses"}, turn : Seq(Message)]
Request ==
    [at : {"idle", "preprocess", "redact", "route", "check", "key", "lookup", "call", "screen",
           "store", "reply", "block", "error"},
     api : {"chat", "responses", None}, way : {"complete", "stream", None},
     sent : Seq(Message), messages : Seq(Message), clean : Seq(Message), skip : {0, 1},
     key : Key \cup {None}, vector : SUBSET Vocabulary, words : SUBSET Vocabulary,
     hit : BOOLEAN, refused : BOOLEAN, header : BOOLEAN, warned : BOOLEAN, excused : BOOLEAN,
     from : Seq(Message) \cup {None}]
ChatTypeOK ==
    /\ route \in Routes
    /\ req \in [Requests -> Request]
    /\ cache \subseteq [key : Key, vector : SUBSET Vocabulary, words : SUBSET Vocabulary,
                        refused : BOOLEAN, excused : BOOLEAN, sent : Seq(Message)]
    /\ told \subseteq [request : Requests, service : Services, words : SUBSET Vocabulary]
    /\ failures \in Nat

-----------------------------------------------------------------------------
(* What the gateway understands a client to have said.                     *)
Understood(messages) ==
    Redacted(route.guardrails, Plugged(route.plugins, messages), "input")
Blocking(where) ==
    {g \in GuardrailsFor(route.guardrails, "check", where) :
        g.behavior \in {"block", "soft_block"}}

(* No model, router or judge reads a text in which a redact guardrail      *)
(* should have masked it: whatever the order of the guardrails, the roles  *)
(* and windows they have, and the messages the route adds; the text of a   *)
(* route's own prompt is nobody's secret.  The model that embeds for a     *)
(* chat request's semantic cache does (ai_gateway.py:1948).                *)
MaskedFromModels ==
    \A t \in told :
      LET x == req[t.request]
          exempt == {"output judge"} \cup (IF x.api = "chat" THEN {"embedder"} ELSE {})
      IN t.service \notin exempt /\ t.words \notin {p.words : p \in Prompts(route)} =>
           \A g \in GuardrailsFor(route.guardrails, "redact", "input") :
             \A word \in t.words \cap g.values :
               \E i \in 1..Len(x.sent) :
                  /\ i \notin Selected(x.sent, g, "input", 0)
                  /\ t.words \ {"mask"} \subseteq x.sent[i].words

(* What becomes of a request at the input guardrails depends on what its   *)
(* client said alone, never on the prompt the route puts in front: it is   *)
(* let through, or stopped, as its client's words are, but for a service   *)
(* that was out of order.                                                  *)
JudgedAsSent ==
    \A r \in Requests :
      LET x == req[r]
          Outcome(broken) == Verdict(route.guardrails, Understood(x.sent), "input", 0, broken)
          Outcomes == {Outcome({})} \cup {Outcome({g}) : g \in Fallible(route.guardrails, "input")}
          asked == \E t \in told : t.request = r /\ t.service \in {"model", "embedder"}
      IN /\ asked => "pass" \in Outcomes
         /\ (~asked /\ ~x.hit /\ x.at = "block") => "block" \in Outcomes
         /\ (~asked /\ ~x.hit /\ x.at = "reply") => "soft_block" \in Outcomes

(* A reply a client gets, from the model or from the cache, has passed the *)
(* output guardrails that read the assistant's messages, but for a check   *)
(* that was out of order; of a chat stream only the checks: nothing        *)
(* redacts it.                                                             *)
OutputScreened ==
    \A r \in Requests :
      LET x == req[r]
          Stopping == {g \in Blocking("output") : Reads(g, "assistant", "output")}
          Redacting == {g \in GuardrailsFor(route.guardrails, "redact", "output") :
                           Reads(g, "assistant", "output")}
      IN (x.at = "reply" /\ ~x.refused) =>
           /\ x.excused \/ \A g \in Stopping : x.words \cap g.values = {}
           /\ (x.api = "chat" /\ x.way = "stream")
                \/ \A g \in Redacting : x.words \cap g.values = {}

(* A cached reply was given to the same words of the user and, but for a   *)
(* semantic cache, to all that followed them; on the same API.  The        *)
(* exception is a chat without a message of the user, for which a          *)
(* developer's prompt of the route counts as one: in a semantic cache all  *)
(* such chats are alike (ai_gateway.py:2354).                              *)
CachedAsAsked ==
    \A r \in Requests :
      LET x == req[r]
          As(messages) ==
             Turn(x.api, IF x.api = "chat" THEN Plugged(route.plugins, messages)
                         ELSE Understood(messages))
          now == As(x.sent)
          then == As(x.from)
      IN x.hit =>
           \/ /\ now # <<>> /\ then # <<>>
              /\ IF route.caching = "exact" THEN now = then ELSE now[1].words = then[1].words
           \/ /\ x.api = "chat" /\ <<>> \in {now, then}
              /\ \E p \in Prompts(route) : p.role = "developer"

(* A request whose embedding fails goes on without the cache.              *)
EmbeddingFailureHarmless ==
    [][\A r \in Requests : req[r].at = "key" => req'[r].at # "error"]_chatVars
=============================================================================
