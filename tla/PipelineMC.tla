----------------------------- MODULE PipelineMC -----------------------------
(* Small instances of Pipeline for TLC. Liveness is checked with the safety *)
(* properties, so no symmetry is used.                                      *)
EXTENDS Pipeline
=============================================================================
