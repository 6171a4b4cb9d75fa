----------------------------- MODULE GatewayMC ------------------------------
(* Instance: two handlers and two users are interchangeable, and so are    *)
(* the two texts; every checked property is symmetric in them.             *)
EXTENDS Gateway, TLC

Interchangeable ==
    Permutations(Tasks) \cup Permutations(Users) \cup Permutations(Contents)
=============================================================================
