---------------------------- MODULE PartitionMap ----------------------------
(***************************************************************************)
(* The partition drivers over a slice of cells and over a BrandedVecDeque, *)
(*                                                                         *)
(*   sync/scoped/partition/map.rs       partition_map_with and its family  *)
(*   sync/scoped/partition/read_map.rs  partition_read_map_with, likewise  *)
(*   collections/deque/partition.rs     partition_map_with, for_each_with  *)
(*                                      and their mut forms                *)
(*                                                                         *)
(* composed of the plan and the tiling (Tiling), the descriptors of a      *)
(* queue (DequePlan) and the engine (Drive).  The closure goes through the *)
(* cells of its shard in order, one step per cell, and may panic before    *)
(* any of them; the steps of concurrent closures interleave.               *)
(***************************************************************************)
EXTENDS Drive, DequePlan

CONSTANTS
    MaxLen,      \* longest region
    Plans        \* the partition plans callers pass

(* No shard is empty, so there are at most as many as cells.               *)
ASSUME RegionAssumption == MaxLen \in 0 .. MaxChunks /\ MaxLen <= IsizeMax

(* Plans come from the constructors, whose arguments are of type usize, as *)
(* the reported parallelism is.                                            *)
ASSUME PlansAssumption ==
    /\ Plans \subseteq {Parts(n) : n \in Usize} \cup {ChunkSize(n) : n \in Usize}
                          \cup {AvailableParallelism}
    /\ 2 \in Usize

VARIABLES
    driver,      \* "map", "read_map", "deque": which driver is called
    len,         \* length of the slice that is cut: cells, or descriptors
    chunk_size,
    visited,     \* visited[i]: how many cells of its shard run(i) went through
    visits       \* visits[x]: how often some closure went through cell x

mapVars == <<driver, len, chunk_size>>
allVars == <<vars, planVars, mapVars, visited, visits>>

(* A cell of the region: its storage segment and its offset there.  A      *)
(* slice has one segment.                                                  *)
Cell == {"Front", "Back"} \X (0 .. MaxLen - 1)

MapInit ==
    /\ Init
    /\ PlanInit
    /\ driver = "none"
    /\ len = 0
    /\ chunk_size = 0
    /\ visited = [i \in Index |-> 0]
    /\ visits = [x \in Cell |-> 0]

----------------------------------------------------------------------------
(* The entry of a driver: resolve the plan, count the shards, and return   *)
(* an empty Vec at once when there are none.                               *)
Enter(d, l, plan, reported) ==
    /\ pc = "idle"
    /\ driver' = d
    /\ len' = l
    /\ chunk_size' = AtLeastOne(chunk_len_for(plan, l, reported))
    /\ LET n == partition_count(l, chunk_size') IN
       \/ /\ n = 0
          /\ pc' = "returned"
          /\ UNCHANGED <<callVars, bufferVars, valueVars, exitVars, task, cursor>>
       \/ /\ n > 0
          /\ drive(n)
    /\ UNCHANGED <<planVars, visited, visits>>

partition_map_with(l, plan, reported) ==
    driver = "none" /\ Enter("map", l, plan, reported)
partition_read_map_with(l, plan, reported) ==
    driver = "none" /\ Enter("read_map", l, plan, reported)

(* The drivers of a queue compute its descriptors, turn by turn ...        *)
PlanQueue(front, back, plan, reported) ==
    /\ driver = "none"
    /\ driver' = "deque"
    /\ from_lengths(front, back, plan, reported)
    /\ UNCHANGED <<vars, len, chunk_size, visited, visits>>

PlanTurn ==
    /\ driver = "deque"
    /\ pc = "idle"
    /\ PushShards
    /\ UNCHANGED <<vars, mapVars, visited, visits>>

(* ... and map_read and map_mut, to which the for_each forms forward, cut  *)
(* the slice of descriptors into chunks of one.                            *)
map_shards ==
    /\ driver = "deque"
    /\ start = total_len
    /\ Enter("deque", Len(shards), ChunkSize(1), 1)

(* The descriptor shard[0] of the one-element chunk of index i.            *)
Descriptor(i) == shards[read_range(len, chunk_size, i)[1] + 1]

(* The slice that read_slice and with_shard_mut form from a descriptor.    *)
AlwaysFront(d) == [segment |-> "Front", range |-> <<d.offset, d.offset + d.len>>]
SliceOf(d) == [segment |-> d.segment, range |-> <<d.offset, d.offset + d.len>>]

(* What the closure of index i receives.                                   *)
Shard(i) ==
    CASE driver = "map" -> [segment |-> "Front", range |-> range(len, chunk_size, i)]
      [] driver = "read_map" ->
            [segment |-> "Front", range |-> read_range(len, chunk_size, i)]
      [] driver = "deque" -> SliceOf(Descriptor(i))

(* The closure of index i goes through the next cell of its shard.         *)
Through(i) == Shard(i).range[1] + visited[i] = Shard(i).range[2]
Visit(i) ==
    LET x == <<Shard(i).segment, Shard(i).range[1] + visited[i]>> IN
    /\ pc # "aborted"
    /\ task[i] = "running"
    /\ ~Through(i)
    /\ visited' = [visited EXCEPT ![i] = @ + 1]
    /\ visits' = [visits EXCEPT ![x] = @ + 1]
    /\ UNCHANGED <<vars, planVars, mapVars>>

(* A closure returns a value only when it is through with its shard.       *)
ReturnsAfterShard ==
    \A i \in Task : task[i] = "running" /\ task'[i] \in {"ok", "done"} => Through(i)

(* A new invocation of an index starts at the front of the shard.          *)
Restart == visited' = [i \in Index |->
              IF task[i] # "running" /\ task'[i] = "running" THEN 0 ELSE visited[i]]

(* A step of the engine underneath.                                        *)
EngineStep ==
    /\ \/ \E i \in Task : TaskStep(i)
       \/ CallerStep
       \/ EnvironmentFails
    /\ ReturnsAfterShard
    /\ Restart
    /\ UNCHANGED <<planVars, mapVars, visits>>

SlotStep ==
    /\ \/ \E e \in Executors : register_parallel_executor(e)
       \/ clear_parallel_executor
    /\ UNCHANGED <<planVars, mapVars, visited, visits>>

MapNext ==
    \/ \E l \in 0 .. MaxLen, plan \in Plans, reported \in 1 .. 2 :
          \/ partition_map_with(l, plan, reported)
          \/ partition_read_map_with(l, plan, reported)
          \/ \E front \in 0 .. l : PlanQueue(front, l - front, plan, reported)
    \/ PlanTurn
    \/ map_shards
    \/ \E i \in Task : Visit(i)
    \/ EngineStep
    \/ SlotStep

MapSpec == MapInit /\ [][MapNext]_allVars

(* As in Drive; in addition the planning loop goes on and a closure gets   *)
(* through its shard.                                                      *)
MapFairSpec ==
    /\ MapSpec
    /\ WF_allVars(PlanTurn \/ map_shards)
    /\ WF_allVars(CallerStep /\ EngineStep)
    /\ \A i \in Index : /\ WF_allVars(i \in Task /\ TaskStep(i) /\ EngineStep)
                        /\ WF_allVars(i \in Task /\ Visit(i))

----------------------------------------------------------------------------
SegmentCells(n, segment) == {segment} \X (0 .. n - 1)
Region == CASE driver = "none" -> {}
            [] driver = "deque" -> SegmentCells(front_len, "Front")
                                      \cup SegmentCells(back_len, "Back")
            [] OTHER -> SegmentCells(len, "Front")

(* Two closures in flight never hold a cell in common, and none reaches    *)
(* outside its segment: the &mut slices of concurrent tasks do not alias,  *)
(* which is what DequeMutSlices may be Sync for.                           *)
Holds(i) == IF task[i] = "running" THEN {Shard(i).segment} \X Cells(Shard(i).range) ELSE {}
NoSharedCell ==
    /\ \A i, j \in Task : i # j => Holds(i) \cap Holds(j) = {}
    /\ \A i \in Task : Holds(i) \subseteq Region

(* No cell is handed out twice during a call, and a call that returns went *)
(* through every cell of the region exactly once, on every path: executor, *)
(* single chunk, scoped threads, empty region, both sides of a wrap.       *)
EachCellOnce ==
    /\ \A x \in Cell : visits[x] <= (IF x \in Region THEN 1 ELSE 0)
    /\ pc = "returned" => \A x \in Region : visits[x] = 1

(* The results of a queue's driver come back in the order of the queue,    *)
(* not of the segments or of the threads: each one's shard starts where    *)
(* the one before ends, and they span the queue.                           *)
ResultsFollowTheQueue ==
    pc = "returned" /\ driver = "deque" =>
        LET first(k) == Descriptor(results[k]).start
            next(k) == first(k) + Descriptor(results[k]).len
        IN /\ Len(results) = Len(shards)
           /\ \A k \in 1 .. Len(results) :
                 /\ first(k) = IF k = 1 THEN 0 ELSE next(k - 1)
                 /\ k = Len(results) => next(k) = total_len

(* No closure goes through a cell once the call has given the region back  *)
(* to the caller, by a return or by a panic.                               *)
RegionIsQuietAfterTheCall ==
    [][visits' # visits => pc \in Working]_allVars

(* A driver called on any region with any plan comes to an end, its        *)
(* planning loop included.                                                 *)
MapEnds == driver # "none" ~> pc \in Terminal
=============================================================================
