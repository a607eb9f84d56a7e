---------------------------- MODULE MCInvocation ----------------------------
(***************************************************************************)
(* A chain of three: p serves the Responses API; f does not, reports its   *)
(* usage in deltas and calls a tool; g serves it and reports no usage.     *)
(***************************************************************************)
EXTENDS Invocation, TLC

CONSTANTS p, f, g

MCChain == <<p, f, g>>
Interchangeable == Permutations(Requests)
=============================================================================
