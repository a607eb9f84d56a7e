--------------------------- MODULE MCChatPipeline ---------------------------
(***************************************************************************)
(* Routes whose guardrails, routers, prompts and caches meet, and          *)
(* conversations that differ in what a window, a key or a guardrail sees.  *)
(***************************************************************************)
EXTENDS ChatPipeline, TLC

Guardrail(type, where, behavior, roles, last, values) ==
    [type |-> type, where |-> where, behavior |-> behavior, roles |-> roles, last |-> last,
     values |-> values, enabled |-> TRUE]
Say(role, words) == [role |-> role, words |-> words]
Model(id, prompt) == [id |-> id, prompt |-> prompt]
Plain == Model("m1", None)
Prompted(role) == Model("m2", Say(role, {"prompt", "forbidden"}))
Router(kind, default, other) ==
    [kind |-> kind, history |-> "all", roles |-> AnyRole, default |-> default,
     options |-> <<[model |-> other, keywords |-> {"u2"}]>>]

(* Masks and checks of the user's last words; judges read everything.      *)
Guarded ==
    [guardrails |->
       <<Guardrail("presidio_anonymizer", "io", "block", AnyRole, 0, {"pii"}),
         Guardrail("presidio_anonymizer", "io", "block", {"user"}, 1, {"name"}),
         Guardrail("contains", "input", "block", AnyRole, 2, {"forbidden"}),
         Guardrail("judge", "input", "soft_block", AnyRole, 0, {"harm"}),
         Guardrail("judge", "output", "warn", AnyRole, 0, {"name"}),
         Guardrail("presidio_analyzer", "output", "block", AnyRole, 0, {"harm"})>>,
     plugins |-> <<>>, router |-> Router("llm", Plain, Prompted("system")), caching |-> "exact"]
(* A semantic cache, a router of its kind, and a refusal on output.        *)
Semantic ==
    [guardrails |->
       <<Guardrail("presidio_anonymizer", "input", "block", {"user", "tool"}, 2, {"name"}),
         Guardrail("guardrails_ai", "output", "soft_block", AnyRole, 0, {"harm"})>>,
     plugins |-> <<{"pii"}>>, router |-> Router("semantic", Prompted("developer"), Plain), caching |-> "semantic"]
(* No guardrail at all.                                                    *)
Open ==
    [guardrails |-> <<>>, plugins |-> <<>>, router |-> Router("keyword", Plain, Prompted("system")),
     caching |-> "exact"]

MCRoutes == {Guarded, Semantic, Open}
Talks ==
    {<<Say("user", {"u1", "pii"})>>,
     <<Say("user", {"u1", "name"}), Say("assistant", {"t1", "name"}), Say("user", {"u2", "pii"})>>,
     <<Say("user", {"u1"}), Say("assistant", {}), Say("tool", {"r1", "name"})>>,
     <<Say("user", {"u2"}), Say("assistant", {}), Say("tool", {"r1", "name"})>>,
     <<Say("user", {"u1", "forbidden"}), Say("assistant", {}), Say("user", {"u2", "harm"})>>,
     <<Say("system", {"s1", "forbidden"})>>}
MCAsked ==
    {[api |-> "chat", way |-> way, messages |-> talk] :
        way \in {"complete", "stream"}, talk \in Talks}
    \cup {[api |-> "responses", way |-> "complete", messages |-> talk] : talk \in Talks}
MCVocabulary ==
    {"u1", "u2", "t1", "r1", "s1", "a1", "pii", "name", "harm", "forbidden", "prompt", "mask",
     "refusal"}
MCAnswers == {{}, {"a1", "pii", "name"}, {"a1", "harm"}}
Symmetry == Permutations(Requests)
=============================================================================
