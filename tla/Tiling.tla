------------------------------- MODULE Tiling -------------------------------
(***************************************************************************)
(* How a region of `len' cells is cut into shards:                         *)
(*                                                                         *)
(*   region/tiling.rs               partition_count                        *)
(*   sync/scoped/partition/plan.rs  PartitionPlan and its resolution       *)
(*   region/par_chunks.rs           ParChunks::len, ParChunks::range       *)
(*   sync/scoped/partition/read_map.rs  the range of a read shard          *)
(*                                                                         *)
(* A usize is a number in 0 .. UsizeMax and its arithmetic wraps, as in a  *)
(* build without overflow checks.  A range is a pair <<start, end>>, end   *)
(* excluded.                                                               *)
(***************************************************************************)
EXTENDS Integers

CONSTANTS
    UsizeMax   \* usize::MAX

ASSUME UsizeAssumption == UsizeMax \in Nat \ {0}

Usize == 0 .. UsizeMax
IsizeMax == UsizeMax \div 2
wrap(x) == x % (UsizeMax + 1)
AtLeastOne(x) == IF x < 1 THEN 1 ELSE x
Least(x, y) == IF x < y THEN x ELSE y

FloorCount(len, chunk) == len \div chunk
partition_count(len, chunk) ==
    IF len = 0 THEN 0 ELSE 1 + ((len - 1) \div chunk)

----------------------------------------------------------------------------
(* PartitionPlan: constructors clamp zero to one.                          *)
Parts(parts) == [kind |-> "Parts", n |-> AtLeastOne(parts)]
ChunkSize(size) == [kind |-> "ChunkSize", n |-> AtLeastOne(size)]
AvailableParallelism == [kind |-> "AvailableParallelism", n |-> 0]

FloorChunk(len, parts) == AtLeastOne(len \div parts)
chunk_for_parts(len, parts) == AtLeastOne(partition_count(len, parts))

(* chunk_len_for; `reported' is what the platform reports as available     *)
(* parallelism, one when it reports nothing.                               *)
chunk_len_for(plan, len, reported) ==
    CASE plan.kind = "Parts" -> chunk_for_parts(len, plan.n)
      [] plan.kind = "AvailableParallelism" -> chunk_for_parts(len, reported)
      [] plan.kind = "ChunkSize" -> plan.n

----------------------------------------------------------------------------
(* ParChunks::range, of a view whose chunk is at least one.                *)
UnclampedRange(len, chunk, index) ==
    <<wrap(index * chunk), wrap(wrap(index * chunk) + chunk)>>

range(len, chunk, index) ==
    LET start == wrap(index * chunk)
        end == wrap(start + chunk)
    IN <<Least(start, len), Least(end, len)>>

(* The sub-slice of partition_read_map_with; slicing panics unless         *)
(* start <= end.                                                           *)
read_range(len, chunk, index) ==
    LET start == wrap(index * chunk)
    IN <<start, Least(wrap(start + chunk), len)>>

----------------------------------------------------------------------------
Cells(r) == r[1] .. r[2] - 1
Shards(len, chunk) == 0 .. partition_count(len, chunk) - 1

(* Every index below ParChunks::len names a non-empty range inside the     *)
(* region: the safety comment of get_unchecked_chunk, without which its    *)
(* from_raw_parts_mut is undefined.                                        *)
InBounds(len, chunk) ==
    \A i \in Shards(len, chunk) :
        LET r == range(len, chunk, i) IN 0 <= r[1] /\ r[1] < r[2] /\ r[2] <= len

(* Shards of distinct indices have no cell in common, so the &mut slices   *)
(* handed to concurrent tasks do not alias.                                *)
Disjoint(len, chunk) ==
    \A i, j \in Shards(len, chunk) :
        i < j => range(len, chunk, i)[2] <= range(len, chunk, j)[1]

(* No cell of the region is left out.                                      *)
Covers(len, chunk) ==
    \A x \in 0 .. len - 1 : \E i \in Shards(len, chunk) :
        x \in Cells(range(len, chunk, i))

(* The start index a driver passes to the closure, index * chunk, is the   *)
(* first cell of the shard; the read and the write driver cut the same     *)
(* ranges.                                                                 *)
StartsAgree(len, chunk) ==
    \A i \in Shards(len, chunk) :
        /\ range(len, chunk, i)[1] = wrap(i * chunk)
        /\ read_range(len, chunk, i) = range(len, chunk, i)
=============================================================================
