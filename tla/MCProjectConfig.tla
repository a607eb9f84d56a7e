-------------------------- MODULE MCProjectConfig --------------------------
(***************************************************************************)
(* Two slots, two contents: f1 has a semantic router, so that building its *)
(* routes awaits; f2 has a route with a budget of its own.                 *)
(***************************************************************************)
EXTENDS ProjectConfig, TLC

CONSTANTS f1, f2, a, b, A, B

MCRoutesOf == f1 :> {a} @@ f2 :> {a, b}
MCContents == A :> f1 @@ B :> f2
Interchangeable == Permutations(Calls) \cup Permutations(Replicas)
=============================================================================
