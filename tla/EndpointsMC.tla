---------------------------- MODULE EndpointsMC ----------------------------
(***************************************************************************)
(* Instances of Endpoints: tasks and texts are interchangeable, and so are *)
(* fields.                                                                 *)
(***************************************************************************)
EXTENDS Endpoints, TLC

Symmetry == Permutations(Tasks) \cup Permutations(Texts) \cup Permutations(Fields)
=============================================================================
