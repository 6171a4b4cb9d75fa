----------------------------- MODULE SessionsMC -----------------------------
(* Instance: two interchangeable requests.                                 *)
EXTENDS Sessions, TLC

Interchangeable == Permutations(Requests)
=============================================================================
