----------------------------- MODULE PlannedCuts -----------------------------
(***************************************************************************)
(* One plan cuts a region on one thread: either a slice, which the         *)
(* iterator of WriterShard::chunks hands out shard by shard (ShardChunks), *)
(* or a queue of the same length, for which BrandedVecDeque computes       *)
(* descriptors (DequePlan).                                                *)
(***************************************************************************)
EXTENDS ShardChunks, DequePlan

cutVars == <<chunksVars, planVars>>

CutInit == ChunksInit /\ PlanInit

(* A slice is cut.                                                         *)
CutSlice ==
    /\ chunk_len = 0
    /\ Plan \/ chunks \/ NextShard \/ NextNone
    /\ UNCHANGED planVars

(* A queue is cut, wherever its storage wraps.                             *)
CutQueue ==
    /\ chunk # 0
    /\ ~begun
    /\ \/ /\ chunk_len = 0
          /\ \E front \in 0 .. len : from_lengths(front, len - front, plan, reported)
       \/ PushShards
    /\ UNCHANGED chunksVars

CutNext == CutSlice \/ CutQueue
CutSpec == CutInit /\ [][CutNext]_cutVars /\ WF_cutVars(CutNext)

----------------------------------------------------------------------------
(* The loop over the shards of a slice and the loop that computes the      *)
(* descriptors of a queue end, with the whole of the region behind them,   *)
(* also when the chunk is the largest usize.                               *)
CutsEnd == <>(ended \/ (chunk_len # 0 /\ start = len))
=============================================================================
