------------------------------ MODULE DedupMC ------------------------------
(***************************************************************************)
(* Instances of Dedup: keys that share a shard, where guards of one key    *)
(* block the other.                                                        *)
(***************************************************************************)
EXTENDS Dedup

OneShard == [k \in Keys |-> 1]
=============================================================================
