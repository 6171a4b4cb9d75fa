---------------------------- MODULE UserLookupMC ----------------------------
(* Instance: two lookups, one name; no symmetry, a liveness property is    *)
(* checked.                                                                *)
EXTENDS UserLookup, TLC
=============================================================================
