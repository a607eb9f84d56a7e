--------------------------- MODULE MCCredentials ---------------------------
(***************************************************************************)
(* Two groups, one of them bound to the requested route; a grace period    *)
(* that ends before the expiry and one that may not.                       *)
(***************************************************************************)
EXTENDS Credentials, TLC

Interchangeable == Permutations(Calls) \cup Permutations(Maxima)
=============================================================================
