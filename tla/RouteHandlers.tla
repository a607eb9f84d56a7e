---------------------------- MODULE RouteHandlers ----------------------------
(***************************************************************************)
(* The order in which each endpoint's handler checks the limits, calls     *)
(* models and charges (server.py, ai_gateway.py, limiting/).  A handler is *)
(* a sequence of the steps of module RouteLimits over the windows of a     *)
(* request:                                                                *)
(*                                                                         *)
(*   keyRate, keyInput, keyOutput, keyBudget   CredentialLimiter           *)
(*   projectBudget                             ProjectBudgetLimiter        *)
(*   rate, input, output, budget, duration     the route's own limiters    *)
(*                                                                         *)
(* A limiter that is not configured skips its steps: Configured drops      *)
(* them.  What a route has configured besides limits is the set on of its  *)
(* options: a router, judges (guardrails that are model calls of their     *)
(* own), a semantic cache.  An MCP message makes the RateSteps only.       *)
(***************************************************************************)
EXTENDS Naturals, Sequences

CONSTANT Estimates      \* what count_tokens or the audio header may estimate

Check(w, costs) == [op |-> "check", win |-> w, costs |-> costs, soft |-> FALSE]
Charge(w) == [op |-> "charge", win |-> w, soft |-> FALSE]
Call(bills) == [op |-> "call", bills |-> bills, soft |-> FALSE]

\* Steps whose failure the handler swallows: the request goes on.
Soft(steps) == [i \in DOMAIN steps |-> [steps[i] EXCEPT !.soft = TRUE]]

If(option, on, steps) == IF option \in on THEN steps ELSE <<>>

AllWindows == {"keyRate", "keyInput", "keyOutput", "keyBudget", "projectBudget",
               "rate", "input", "output", "budget", "duration"}

-----------------------------------------------------------------------------
(* The operations of the limiters.                                         *)

\* CredentialLimiter: check_and_count_request, check_input_tokens,
\* check_input_room, check_output_tokens, check_budget.
KeyRate == <<Check("keyRate", {1}), Charge("keyRate")>>
KeyInput == Check("keyInput", Estimates)
KeyInputRoom == Check("keyInput", {1})
KeyOutput == Check("keyOutput", {1})
KeyBudget == Check("keyBudget", {1})

\* ProjectBudgetLimiter.check_budget
ProjectBudget == Check("projectBudget", {1})

\* RequestRateLimiter.check_and_count_request
RouteRate == <<Check("rate", {1}), Charge("rate")>>

\* TokenLimiter: check_input, check_input_room, check_output.
RouteInput == Check("input", Estimates)
RouteInputRoom == Check("input", {1})
RouteOutput == Check("output", {1})

\* BudgetLimiter.check_budget
RouteBudget == Check("budget", {1})

\* DurationLimiter.check_and_count_duration: the estimate is what is charged.
Duration == <<Check("duration", Estimates), Charge("duration")>>

\* The count_* operations: what a call used, on one window.
CountRouteTokens == <<Charge("input"), Charge("output")>>
CountRouteBudget == Charge("budget")
CountKeyTokens == <<Charge("keyInput"), Charge("keyOutput")>>
CountKeyBudget == Charge("keyBudget")
CountProjectBudget == Charge("projectBudget")

-----------------------------------------------------------------------------
(* What GatewayRoute makes of them.                                        *)

\* A chat call bills input tokens, output tokens and the price of both.
ChatBills == [w \in AllWindows |->
    CASE w \in {"input", "keyInput", "output", "keyOutput"} -> 1
      [] w \in {"budget", "keyBudget", "projectBudget"} -> 2
      [] OTHER -> 0]

\* A call that bills its input only: embeddings and decisions.
InputBills == [w \in AllWindows |->
    IF w \in {"input", "keyInput", "budget", "keyBudget", "projectBudget"}
    THEN 1 ELSE 0]

\* A transcription bills its audio, its text and its output, or its seconds.
TranscriptionBills(on) == [w \in AllWindows |->
    IF w \notin {"budget", "keyBudget", "projectBudget"} THEN 0
    ELSE IF "perSecond" \in on THEN 1 ELSE 3]

\* The endpoint: the credential's request rate, then the route's.
RateSteps == KeyRate \o RouteRate

\* GatewayRoute._validate_limiters
ChatChecks ==
    <<KeyInput, KeyOutput, KeyBudget, ProjectBudget,
      RouteInput, RouteOutput, RouteBudget>>

\* GatewayRoute._validate_embedding_limiters: there is no output.
EmbeddingChecks == <<KeyInput, KeyBudget, ProjectBudget, RouteInput, RouteBudget>>

\* GatewayRoute._check_decision_limits: the size of the input is unknown.
DecisionChecks ==
    <<KeyBudget, ProjectBudget, RouteBudget, KeyInputRoom, RouteInputRoom>>

\* GatewayRoute._count_usage: budgets are charged per price, input and output.
CountUsage ==
    CountRouteTokens \o <<CountRouteBudget, CountRouteBudget>>
    \o CountKeyTokens \o <<CountKeyBudget, CountKeyBudget>>
    \o <<CountProjectBudget, CountProjectBudget>>

\* GatewayRoute._count_decision_usage
CountDecisionUsage ==
    <<Charge("input"), Charge("keyInput"), CountRouteBudget, CountKeyBudget,
      CountProjectBudget>>

\* GatewayRoute._count_transcription_usage: one round per price.
CountTranscriptionUsage(on) ==
    LET price == <<CountRouteBudget, CountKeyBudget, CountProjectBudget>>
    IN  IF "perSecond" \in on THEN price ELSE price \o price \o price

\* A judge is called and charged before its verdict is read (JudgeEngine,
\* DecisionJudgeEngine.ask); a WARN guardrail's judge is asked once more for the
\* response header, and what goes wrong then is ignored
\* (GuardrailCheck.evaluate_warn_triggered).
ChatJudge == <<Call(ChatBills)>> \o CountUsage
DecisionJudge == <<Call(InputBills)>> \o CountDecisionUsage
WarnJudge == ChatJudge \o Soft(ChatJudge)

InputJudges(on) ==
    If("judge", on, ChatJudge) \o If("decisionJudge", on, DecisionJudge)
    \o If("warnJudge", on, WarnJudge)

OutputJudges(on) ==
    If("outputJudge", on, ChatJudge) \o If("outputWarnJudge", on, WarnJudge)

\* An embedding and a decision carry no such header: a WARN judge is asked once.
EmbeddingJudges(on) ==
    If("judge", on, ChatJudge) \o If("decisionJudge", on, DecisionJudge)
    \o If("warnJudge", on, ChatJudge)

\* GatewayRoute._apply_decision_input_guardrails returns before the judges if no
\* field is a text.
DecisionJudges(on) == If("text", on, EmbeddingJudges(on))

\* The routers that call a model.  Its spend is charged as a judge's is, but a
\* failed charge never fails the request (record_routing_spend); the semantic
\* router's own call may, the other two fall back to the default model.
Routing(on) ==
    If("llmRouter", on, Soft(<<Call(ChatBills)>> \o CountUsage))
    \o If("decisionRouter", on, Soft(<<Call(InputBills)>> \o CountDecisionUsage))
    \o If("semanticRouter", on, <<Call(InputBills)>> \o Soft(CountDecisionUsage))

\* GatewayRoute._generate_embedding_for_semantic_cache: nobody charges it.  A
\* Responses request goes on without the cache when it fails, a chat request
\* fails in the lookup that follows (_get_from_cache).
SemanticCache(on) == If("semanticCache", on, <<Call(InputBills)>>)

-----------------------------------------------------------------------------
(* The handlers: an endpoint makes the RateSteps, then calls the route.     *)

\* GatewayRoute._prepare_and_validate_request: limits come first, before
\* anything that spends.
ChatPreparation(on) ==
    ChatChecks \o Routing(on) \o InputJudges(on) \o SemanticCache(on)

\* GatewayRoute.invoke: the reply is charged, then its guardrails run.
InvokeChat(on) ==
    ChatPreparation(on) \o <<Call(ChatBills)>> \o CountUsage
    \o OutputJudges(on)

ChatHandler(on) == RateSteps \o InvokeChat(on)

\* GatewayRoute.prepare_responses: the limits come last.
PrepareResponses(on) ==
    Routing(on) \o InputJudges(on) \o Soft(SemanticCache(on)) \o ChatChecks

\* GatewayRoute.invoke_responses: the reply is charged after its guardrails.
InvokeResponses(on) ==
    PrepareResponses(on) \o <<Call(ChatBills)>>
    \o OutputJudges(on) \o CountUsage

ResponsesHandler(on) == RateSteps \o InvokeResponses(on)

\* GatewayRoute.invoke_embeddings charges the route's own windows only.
InvokeEmbeddings(on) ==
    EmbeddingChecks \o EmbeddingJudges(on)
    \o <<Call(InputBills), Charge("input"), CountRouteBudget>>

EmbeddingsHandler(on) == RateSteps \o InvokeEmbeddings(on)

InvokeDecision(on) ==
    DecisionChecks \o DecisionJudges(on) \o <<Call(InputBills)>> \o CountDecisionUsage

DecisionHandler(on) == RateSteps \o InvokeDecision(on)

\* Only the header of a WAV file tells the duration.
InvokeTranscription(on) ==
    <<KeyBudget, ProjectBudget, RouteBudget>> \o If("wav", on, Duration)
    \o <<Call(TranscriptionBills(on))>> \o CountTranscriptionUsage(on)

\* A stream is charged after its last event, if it had one.
InvokeTranscriptionStream(on) ==
    <<KeyBudget, ProjectBudget, RouteBudget>> \o If("wav", on, Duration)
    \o <<Call(TranscriptionBills(on))>> \o If("events", on, CountTranscriptionUsage(on))

TranscriptionHandler(on) ==
    RateSteps \o IF "stream" \in on THEN InvokeTranscriptionStream(on)
                 ELSE InvokeTranscription(on)

\* The handler with the limiters that are configured.
Configured(handler, windows) ==
    LET kept == SelectSeq(handler,
                          LAMBDA st : st.op = "call" \/ st.win \in windows)
    IN  [i \in DOMAIN kept |->
            IF kept[i].op = "call"
            THEN [kept[i] EXCEPT !.bills = [w \in windows |-> kept[i].bills[w]]]
            ELSE kept[i]]
=============================================================================
