------------------------------ MODULE DequePlan ------------------------------
(***************************************************************************)
(* DequeShardPlan::from_lengths (collections/deque/partition.rs): the      *)
(* shards of a ring buffer whose cells lie in two storage segments.  The   *)
(* plan cuts the logical positions 0 .. total_len-1; a shard that crosses  *)
(* the wrap of the buffer becomes two descriptors, one in each segment.    *)
(***************************************************************************)
EXTENDS Tiling, Sequences

VARIABLES
    front_len, back_len,   \* the two slices of the VecDeque
    chunk_len,
    start,                 \* logical position the loop has reached
    shards                 \* the descriptors pushed so far

planVars == <<front_len, back_len, chunk_len, start, shards>>

Greatest(x, y) == IF x > y THEN x ELSE y
total_len == front_len + back_len

(* VecDeque::as_slices and as_mut_slices: the back slice is empty when the *)
(* front slice is.                                                         *)
AsSlices(front, back) == front = 0 => back = 0

PlanInit ==
    /\ front_len = 0
    /\ back_len = 0
    /\ chunk_len = 0
    /\ start = 0
    /\ shards = << >>

(* The entry of from_lengths, for a queue whose cells lie in two segments  *)
(* of these lengths: the plan is resolved for the sum of the two.  The     *)
(* count of chunks taken next only sizes the allocation of `shards' (twice *)
(* that many descriptors at most) and is left out.                         *)
from_lengths(front, back, plan, reported) ==
    /\ AsSlices(front, back)
    /\ front_len' = front
    /\ back_len' = back
    /\ chunk_len' = AtLeastOne(chunk_len_for(plan, front + back, reported))
    /\ UNCHANGED <<start, shards>>

UnclampedEnd == wrap(start + chunk_len)
end == Least(wrap(start + chunk_len), total_len)

(* The part of the logical shard start .. end-1 in the front segment ...   *)
FrontUnclamped == [start |-> start, segment |-> "Front", offset |-> start,
                   len |-> end - start]
FrontShard == [start |-> start, segment |-> "Front", offset |-> start,
               len |-> Least(end, front_len) - start]

(* ... and the part in the back segment.                                   *)
BackFromStart == [start |-> start, segment |-> "Back",
                  offset |-> Greatest(start, front_len) - front_len,
                  len |-> end - Greatest(start, front_len)]
BackShard == LET back_start == Greatest(start, front_len) - front_len IN
             [start |-> front_len + back_start, segment |-> "Back",
              offset |-> back_start, len |-> end - Greatest(start, front_len)]

WithFront == IF start < front_len THEN Append(shards, FrontShard) ELSE shards
WithBoth == IF end > front_len THEN Append(WithFront, BackShard) ELSE WithFront

(* One turn of the loop.                                                   *)
PushShards ==
    /\ start < total_len
    /\ shards' = WithBoth
    /\ start' = end
    /\ UNCHANGED <<front_len, back_len, chunk_len>>

----------------------------------------------------------------------------
SegmentLen(segment) == IF segment = "Front" THEN front_len ELSE back_len

(* What with_shard_mut asserts in debug builds before it forms a &mut      *)
(* slice from the segment's raw pointer, and no descriptor is empty or     *)
(* longer than the plan's chunk.                                           *)
DescriptorsInBounds ==
    \A k \in 1 .. Len(shards) :
        LET s == shards[k] IN
        /\ s.len \in 1 .. chunk_len
        /\ s.offset >= 0
        /\ s.offset + s.len <= SegmentLen(s.segment)

(* The descriptors are non-overlapping, in ascending logical order and     *)
(* without gaps, and each one's start is the logical position of its first *)
(* cell, whichever segment it lies in.                                     *)
DescriptorsTile ==
    \A k \in 1 .. Len(shards) :
        LET s == shards[k] IN
        /\ s.start = s.offset + (IF s.segment = "Front" THEN 0 ELSE front_len)
        /\ s.start = IF k = 1 THEN 0 ELSE shards[k - 1].start + shards[k - 1].len
        /\ k = Len(shards) => s.start + s.len = start
=============================================================================
