----------------------------- MODULE MCMcpProxy -----------------------------
(***************************************************************************)
(* Two servers.  wide opens both; narrow and shut have its endpoints and   *)
(* credentials, and shut b and both of them; moved asks a alone with other *)
(* credentials, and forwards the client's headers to it.                   *)
(***************************************************************************)
EXTENDS McpProxy

CONSTANTS a, b, wide, narrow, shut, moved

MCUses == [c \in Configs |-> IF c = moved THEN [s \in {a} |-> 2]
                             ELSE [s \in {a, b} |-> 1]]
MCAllows == [c \in Configs |-> [s \in DOMAIN MCUses[c] |->
                IF c = shut \/ (c = narrow /\ s = b) THEN {} ELSE Tools]]
MCCalls == [server : {b}, tool : Tools]
=============================================================================
