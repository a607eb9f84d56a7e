----------------------------- MODULE Guardrails -----------------------------
(***************************************************************************)
(* What a route's guardrails and routers do with messages.  A message is   *)
(* its role and the words of its text; the words an entity recogniser, a   *)
(* pattern or a judge reacts to are the values of a guardrail.             *)
(***************************************************************************)
EXTENDS Naturals, Sequences, Functions, FiniteSets, FiniteSetsExt

CONSTANT AnyRole  \* the roles of a guardrail or router that names none

Judges == {"judge", "decision_judge"}
Remote == Judges \cup {"guardrails_ai"}
Class(g) == IF g.type = "presidio_anonymizer" THEN "redact" ELSE "check"

(* The enabled guardrails of a class that stand on one side of the model.  *)
GuardrailsFor(guardrails, class, where) ==
    {g \in Range(guardrails) :
        g.enabled /\ Class(g) = class /\ g.where \in {where, "io"}}

WindowRoles(g, where) ==
    IF g.roles = AnyRole /\ g.type \in Judges /\ where = "input" THEN {"user"} ELSE g.roles

(* Whether a guardrail reads the messages of a role.                       *)
Reads(g, role, where) ==
    WindowRoles(g, where) = AnyRole \/ role \in WindowRoles(g, where)

(* The places of the messages a guardrail reads: its roles first, then the *)
(* last of these on input; never the first `skip', which are the route's.  *)
Selected(messages, g, where, skip) ==
    LET kept == {i \in (skip + 1)..Len(messages) : Reads(g, messages[i].role, where)}
    IN IF where = "output" \/ g.last = 0 THEN kept
       ELSE {i \in kept : Cardinality({j \in kept : i <= j}) <= g.last}

(* The texts a check reads.  Blank ones do not count.                      *)
TextsRead(messages, g, where, skip) ==
    LET places == {i \in Selected(messages, g, where, skip) : messages[i].words # {}}
        read == IF g.type \in Judges /\ where = "output"
                THEN {i \in places : \A j \in places : j <= i} ELSE places
    IN {messages[i].words : i \in read}

-----------------------------------------------------------------------------
(* Redaction.                                                              *)

Masked(message, values) ==
    IF message.words \cap values = {} THEN message
    ELSE [message EXCEPT !.words = (@ \ values) \cup {"mask"}]

RedactWith(messages, g, where) ==
    [i \in 1..Len(messages) |->
        IF i \in Selected(messages, g, where, 0) THEN Masked(messages[i], g.values)
        ELSE messages[i]]

\* Mutant: every guardrail redacts the messages the client sent.
RedactedAfresh(guardrails, messages, where) ==
    LET redacts == GuardrailsFor(guardrails, "redact", where)
        out[k \in 0..Len(guardrails)] ==
          CASE k = 0 -> messages
            [] k # 0 /\ guardrails[k] \notin redacts -> out[k - 1]
            [] OTHER -> RedactWith(messages, guardrails[k], where)
    IN out[Len(guardrails)]

(* Each guardrail redacts what the one before left.                        *)
Redacted(guardrails, messages, where) ==
    LET redacts == GuardrailsFor(guardrails, "redact", where)
        out[k \in 0..Len(guardrails)] ==
          CASE k = 0 -> messages
            [] k # 0 /\ guardrails[k] \notin redacts -> out[k - 1]
            [] OTHER -> RedactWith(out[k - 1], guardrails[k], where)
    IN out[Len(guardrails)]

-----------------------------------------------------------------------------
(* Checks.  `broken' are the guardrails whose service fails: Presidio then *)
(* reports nothing, a judge or Guardrails AI fails the request.            *)

Triggers(g, texts) == \E text \in texts : text \cap g.values # {}
Fallible(guardrails, where) ==
    {g \in GuardrailsFor(guardrails, "check", where) :
        g.type \in Remote \cup {"presidio_analyzer"}}
Asks(g, texts) == g.type \in Judges \/ (g.type = "guardrails_ai" /\ texts # {})
Fails(g, texts, broken) == g \in broken /\ Asks(g, texts)
Silent(g, broken) == g \in broken /\ g.type = "presidio_analyzer"

HasWindow(g, messages, where, skip) == Selected(messages, g, where, skip) # {}

(* What a check that triggered makes of the request.                       *)
Handled(g) == IF g.behavior = "warn" THEN "pass" ELSE g.behavior

(* What one check makes of the request.                                    *)
Decision(g, messages, where, skip, broken) ==
    LET texts == TextsRead(messages, g, where, skip)
    IN IF HasWindow(g, messages, where, skip) /\ Fails(g, texts, broken) THEN "error"
       ELSE IF Triggers(g, texts) /\ ~Silent(g, broken) THEN Handled(g) ELSE "pass"

(* The places of the checks that stop the request.                         *)
Stops(guardrails, messages, where, skip, broken) ==
    {k \in DOMAIN guardrails :
        /\ guardrails[k] \in GuardrailsFor(guardrails, "check", where)
        /\ Decision(guardrails[k], messages, where, skip, broken) # "pass"}

(* What the checks decide: "pass", "block", "soft_block" or "error".  The  *)
(* first that stops the request decides; a warning lets it go on.          *)
Verdict(guardrails, messages, where, skip, broken) ==
    LET stops == Stops(guardrails, messages, where, skip, broken)
    IN IF stops = {} THEN "pass"
       ELSE Decision(guardrails[Min(stops)], messages, where, skip, broken)

(* Whether a warning is announced: the warning checks are made once more,  *)
(* and one that fails counts as silent.                                    *)
Warns(guardrails, messages, where, skip, broken) ==
    \E g \in GuardrailsFor(guardrails, "check", where) \ broken :
        g.behavior = "warn" /\ Triggers(g, TextsRead(messages, g, where, skip))

(* The texts sent to the services behind the checks that are reached.      *)
Shown(guardrails, messages, where, skip, broken) ==
    LET stops == Stops(guardrails, messages, where, skip, broken)
        reached == {k \in DOMAIN guardrails : \A j \in stops : k <= j}
        asked == GuardrailsFor(guardrails, "check", where)
                   \cap {guardrails[k] : k \in reached}
    IN UNION {TextsRead(messages, g, where, skip) : g \in {x \in asked : x.type \in Remote}}

-----------------------------------------------------------------------------
(* Routing.                                                                *)

(* The places of the messages with a text, and of the users' among them.   *)
Texts(messages) == {i \in 1..Len(messages) : messages[i].words # {}}
UserTexts(messages) == {i \in Texts(messages) : messages[i].role = "user"}
LastUserText(messages) ==
    IF UserTexts(messages) = {} THEN {} ELSE messages[Max(UserTexts(messages))].words

(* The texts a router reads.                                               *)
RoutingTexts(router, messages) ==
    LET roles == IF router.roles = AnyRole THEN {"user", "assistant"} ELSE router.roles
        all == router.kind \in {"llm", "decision"} /\ router.history = "all"
    IN {messages[i].words : i \in
          CASE router.kind \in {"time", "budget"} -> {}
            [] router.kind = "context_length" -> Texts(messages)
            [] all -> {j \in Texts(messages) : messages[j].role \in roles}
            [] OTHER -> {j \in UserTexts(messages) : \A k \in UserTexts(messages) : k <= j}}

(* A rule over lengths, times and budgets, or a service that scores the    *)
(* options, may come to any of them; the service that fails, answers       *)
(* nonsense or is unsure leaves the default.                               *)
Options(router) ==
    {router.default} \cup {router.options[i].model : i \in 1..Len(router.options)}

(* The models a router may choose: without a text the default; by keywords *)
(* the first option the last user text hits.                               *)
MayChoose(router, messages) ==
    LET hits == {i \in 1..Len(router.options) :
                    router.options[i].keywords \cap LastUserText(messages) # {}}
    IN CASE \/ router.kind = "none"
            \/ /\ router.kind \notin {"time", "budget"}
               /\ RoutingTexts(router, messages) = {} -> {router.default}
         [] router.kind = "keyword" ->
                {IF hits = {} THEN router.default
                 ELSE router.options[CHOOSE i \in hits : \A j \in hits : i <= j].model}
         [] OTHER -> Options(router)

(* Routers that send what they read to a service.                          *)
Discloses(router) == router.kind \in {"llm", "decision", "semantic", "text_classification"}
=============================================================================
