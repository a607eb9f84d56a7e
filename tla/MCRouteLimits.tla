---------------------------- MODULE MCRouteLimits ----------------------------
(* A chat request that is routed and a Responses request with a judge at a   *)
(* time, on a route with a rate limit, called by a credential with a budget. *)
EXTENDS RouteLimits

CONSTANTS chat, responses

H == INSTANCE RouteHandlers WITH Estimates <- {0, 1}

MCWindows == {"rate", "keyBudget"}
MCPlan ==
    [s \in {chat, responses} |->
        H!Configured(IF s = chat THEN H!ChatHandler({"decisionRouter"})
                     ELSE H!ResponsesHandler({"judge"}), MCWindows)]
MCLimit == [w \in MCWindows |-> 2]
MCLeastCheck == [w \in MCWindows |-> 1]

\* What a route may have configured: nothing, one option, or all.
Options == {"llmRouter", "decisionRouter", "semanticRouter", "judge", "decisionJudge",
            "warnJudge", "outputJudge", "outputWarnJudge", "text", "wav", "stream",
            "events", "perSecond"}
Routes == {{}, Options} \cup {{o} : o \in Options}

InTime(handler) == ChargesInTime(H!Configured(handler, H!AllWindows), H!AllWindows)

\* The handlers that charge what they bill before they check or call again.  Not
\* among them: the embedding of a semantic cache, which nobody charges; an
\* embeddings request, which charges the route only; a stream of transcription
\* events that had none; a Responses reply that output judges hold up.
ASSUME HandlersChargeInTime ==
    /\ PlansInTime
    /\ \A on \in Routes :
          /\ InTime(H!ChatHandler(on))
          /\ InTime(H!ResponsesHandler(on \ {"outputJudge", "outputWarnJudge"}))
          /\ InTime(H!DecisionHandler(on))
          /\ InTime(H!TranscriptionHandler(on \cup {"events"}))
=============================================================================
