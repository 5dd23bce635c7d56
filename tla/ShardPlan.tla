------------------------------ MODULE ShardPlan ------------------------------
(***************************************************************************)
(* A plan is resolved for a region, as the partition drivers do before     *)
(* they cut it: every length up to MaxLen, every plan the constructors     *)
(* build from an argument up to MaxParameter, any reported parallelism.    *)
(***************************************************************************)
EXTENDS Tiling

CONSTANTS
    MaxLen,        \* longest region
    MaxParameter   \* largest argument of a plan constructor

(* Arguments and the reported parallelism are of type usize.               *)
ASSUME ParameterAssumption == MaxParameter \in Usize /\ 2 \in Usize

VARIABLES len, plan, reported, chunk

vars == <<len, plan, reported, chunk>>

Plans == {Parts(n) : n \in 0 .. MaxParameter}
            \cup {ChunkSize(n) : n \in 0 .. MaxParameter}
            \cup {AvailableParallelism}

Init ==
    /\ len \in 0 .. MaxLen
    /\ plan \in Plans
    /\ reported \in 1 .. 2
    /\ chunk = 0

Resolve ==
    /\ chunk = 0
    /\ chunk' = chunk_len_for(plan, len, reported)
    /\ UNCHANGED <<len, plan, reported>>

Next == Resolve

Spec == Init /\ [][Next]_vars

----------------------------------------------------------------------------
(* The shards of a resolved plan lie inside the region and are not empty   *)
(* (the contract get_unchecked_chunk relies on).                           *)
ShardsInBounds == chunk # 0 => InBounds(len, chunk)

(* No two shards share a cell, and together they are the whole region.     *)
ShardsTileTheRegion ==
    chunk # 0 => Disjoint(len, chunk) /\ Covers(len, chunk)

(* partition_map and partition_read_map agree on every shard and on the    *)
(* start index they pass to the closure.                                   *)
DriversAgree == chunk # 0 => StartsAgree(len, chunk)

(* Parts(n) yields at most n shards, and no smaller chunk would; the       *)
(* chunk of a plan is never zero (chunk_len_for, PartitionPlan::Parts).    *)
PartsIsAnUpperBound ==
    chunk' # chunk =>
        /\ chunk' >= 1
        /\ plan.kind = "Parts" =>
             /\ partition_count(len, chunk') <= plan.n
             /\ chunk' > 1 => partition_count(len, chunk' - 1) > plan.n
PartsBoundsTheShards == [][PartsIsAnUpperBound]_vars

(* The claim of partition_map's documentation: "The number of shards is    *)
(* min(parts, cells.len())".                                               *)
ShardCountIsMin ==
    chunk # 0 /\ plan.kind = "Parts" =>
        partition_count(len, chunk) = Least(plan.n, len)
=============================================================================
