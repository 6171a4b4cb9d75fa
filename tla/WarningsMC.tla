----------------------------- MODULE WarningsMC -----------------------------
(* Small instances of Warnings for TLC. Liveness is checked with the safety *)
(* properties, so no symmetry is used.                                      *)
EXTENDS Warnings
=============================================================================
