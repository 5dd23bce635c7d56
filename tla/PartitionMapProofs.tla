------------------------- MODULE PartitionMapProofs -------------------------
(***************************************************************************)
(* The closures of a partition call share no cell, and a call that returns *)
(* went through every cell once: for every region, plan, wrap of a queue,  *)
(* number of chunks and schedule, with or without an executor, and with    *)
(* destructors that panic.                                                 *)
(*                                                                         *)
(* Three arguments meet here: the shards of a slice and the descriptors of *)
(* a queue tile it (TilingProofs), each index is run at most once and only *)
(* inside the call (IInv, DriveProofs), and the cells gone through are a   *)
(* prefix of each shard (Walked).                                          *)
(***************************************************************************)
EXTENDS PartitionMap, DriveProofs, TilingProofs

Lo(i) == Shard(i).range[1]
Hi(i) == Shard(i).range[2]
Segment(i) == Shard(i).segment

(* The shards of the call are not empty, lie in the region, do not overlap *)
(* and leave nothing of it out.                                            *)
IsShard(i) ==
    /\ Lo(i) \in Nat
    /\ Hi(i) \in Nat
    /\ Lo(i) < Hi(i)
    /\ Segment(i) \in {"Front", "Back"}
    /\ \A y \in Lo(i) .. Hi(i) - 1 : <<Segment(i), y>> \in Region
Apart(i, j) == Segment(i) = Segment(j) => Hi(i) <= Lo(j) \/ Hi(j) <= Lo(i)
Contains(i, x) == x[1] = Segment(i) /\ x[2] \in Lo(i) .. Hi(i) - 1

ShardsOfRegion ==
    /\ \A i \in Task : IsShard(i)
    /\ \A i, j \in Task : i # j => Apart(i, j)
    /\ \A x \in Region : \E i \in Task : Contains(i, x)

(* Where a call stands: the driver, the queue's plan and the cut.          *)
Entered ==
    /\ driver \in {"none", "map", "read_map", "deque"}
    /\ QueueInv
    /\ total_len <= MaxLen
    /\ driver # "deque" => chunk_len = 0
    /\ pc = "idle" => num_chunks = 0
    /\ driver = "none" => pc = "idle"
    /\ pc # "idle" =>
          /\ len \in 0 .. MaxLen
          /\ chunk_size \in 1 .. UsizeMax
          /\ num_chunks = partition_count(len, chunk_size)
          /\ driver = "deque" =>
                start = total_len /\ len = Len(shards) /\ chunk_size = 1

(* An empty region: the driver returns without calling the engine.         *)
ReturnedEmpty ==
    /\ pc = "returned"
    /\ num_chunks = 0
    /\ results = << >>

(* What a closure has gone through is a prefix of its shard: nothing of it *)
(* before it starts, the whole of it when it has returned a value.         *)
Walks(i) ==
    /\ visited[i] \in 0 .. Hi(i) - Lo(i)
    /\ task[i] = "idle" => visited[i] = 0
    /\ Produced(i) => visited[i] = Hi(i) - Lo(i)
Behind(i, x) == x[1] = Segment(i) /\ x[2] \in Lo(i) .. Lo(i) + visited[i] - 1
Walked ==
    /\ visited \in [Index -> Nat]
    /\ visits \in [Cell -> Nat]
    /\ \A i \in Task : Walks(i)
    /\ \A i \in Index \ Task : visited[i] = 0
    /\ \A x \in Cell : visits[x] = IF \E i \in Task : Behind(i, x) THEN 1 ELSE 0

MapInv ==
    /\ IInv \/ ReturnedEmpty
    /\ Entered
    /\ Walked

----------------------------------------------------------------------------
(* The shards of a call.                                                   *)

(* The bounds a call inherits from those of the region.                    *)
LEMMA Bounds ==
    /\ MaxLen \in Nat /\ MaxLen <= IsizeMax /\ IsizeMax \in Nat
    /\ IsizeMax <= UsizeMax /\ MaxLen <= MaxChunks /\ MaxChunks \in Nat
  BY RegionAssumption, MaxChunksAssumption, UsizeAssumption, DivBounds
  DEF IsizeMax

(* Shards are cut from the driver's variables and from nothing else.       *)
LEMMA ShardsStay ==
    ASSUME UNCHANGED <<planVars, mapVars>>
    PROVE  /\ Region' = Region
           /\ \A i : Lo(i)' = Lo(i) /\ Hi(i)' = Hi(i) /\ Segment(i)' = Segment(i)
  BY DEF planVars, mapVars, Region, SegmentCells, Lo, Hi, Segment, Shard,
     SliceOf, Descriptor, range, read_range

(* A range of the slice drivers has natural bounds.                        *)
LEMMA RangeBounds ==
    ASSUME NEW n \in 0 .. IsizeMax, NEW c \in 1 .. UsizeMax,
           NEW i \in Shards(n, c)
    PROVE  range(n, c, i)[1] \in Nat /\ range(n, c, i)[2] \in Nat
  <1>1. n \in Nat /\ c \in Nat
    BY UsizeAssumption, DivBounds DEF IsizeMax
  <1>2. i * c \in Nat
    BY <1>1, NoWrap
  <1> QED
    BY <1>1, <1>2, RangeIs DEF Least

(* The shards of a slice: what the drivers over a slice cut.               *)
LEMMA SliceShards ==
    ASSUME Entered, pc # "idle", driver \in {"map", "read_map"}
    PROVE  ShardsOfRegion
  <1> DEFINE r(i) == range(len, chunk_size, i)
  <1>1. len \in 0 .. IsizeMax /\ chunk_size \in 1 .. UsizeMax
    BY Bounds DEF Entered
  <1>2. Task = Shards(len, chunk_size)
    BY DEF Entered, Task, Shards
  <1>3. /\ InBounds(len, chunk_size) /\ Disjoint(len, chunk_size)
        /\ Covers(len, chunk_size) /\ StartsAgree(len, chunk_size)
    BY <1>1, ShardsAreInBounds, ShardsAreDisjoint, ShardsCover, StartsAreAgreed
  <1>4. \A i \in Task : /\ Lo(i) = r(i)[1] /\ Hi(i) = r(i)[2]
                        /\ Segment(i) = "Front"
    BY <1>2, <1>3 DEF StartsAgree, Lo, Hi, Segment, Shard
  <1>5. \A i \in Task : r(i)[1] \in Nat /\ r(i)[2] \in Nat
    BY <1>1, <1>2, RangeBounds
  <1>6. Region = SegmentCells(len, "Front")
    BY DEF Region
  <1>7. \A i \in Task : 0 <= r(i)[1] /\ r(i)[1] < r(i)[2] /\ r(i)[2] <= len
    BY <1>2, <1>3 DEF InBounds
  <1>8. \A i, j \in Task : i < j => r(i)[2] <= r(j)[1]
    BY <1>2, <1>3 DEF Disjoint
  <1>9. \A y \in 0 .. len - 1 : \E i \in Task : y \in r(i)[1] .. r(i)[2] - 1
    BY <1>2, <1>3 DEF Covers, Cells
  <1>10. \A i \in Task : i \in Int
    BY DEF Task
  <1> HIDE DEF r
  <1>11. ASSUME NEW i \in Task
         PROVE  IsShard(i)
    BY <1>1, <1>4, <1>5, <1>6, <1>7 DEF IsShard, SegmentCells
  <1>12. ASSUME NEW i \in Task, NEW j \in Task, i # j
         PROVE  Apart(i, j)
    BY <1>4, <1>8, <1>10, <1>12 DEF Apart
  <1>13. ASSUME NEW x \in Region
         PROVE  \E i \in Task : Contains(i, x)
    <2>1. x[1] = "Front" /\ x[2] \in 0 .. len - 1
      BY <1>6 DEF SegmentCells
    <2>2. PICK i \in Task : x[2] \in r(i)[1] .. r(i)[2] - 1
      BY <1>9, <2>1
    <2> QED
      BY <1>4, <2>1, <2>2 DEF Contains
  <1> QED
    BY <1>11, <1>12, <1>13 DEF ShardsOfRegion

(* The shards of a queue: one per descriptor, in its segment.              *)
LEMMA QueueShards ==
    ASSUME Entered, pc # "idle", driver = "deque"
    PROVE  ShardsOfRegion
  <1> DEFINE d(i) == shards[i + 1]
  <1>1. /\ front_len \in Nat /\ back_len \in Nat
        /\ total_len = front_len + back_len
        /\ start = total_len /\ len = Len(shards) /\ chunk_size = 1
        /\ len \in 0 .. IsizeMax /\ chunk_size \in 1 .. UsizeMax
    BY Bounds DEF Entered, QueueInv, Planned, total_len
  <1>2. Task = Shards(len, chunk_size)
    BY DEF Entered, Task, Shards
  <1>3. Task = 0 .. Len(shards) - 1
    <2>1. partition_count(len, 1) = len
      BY <1>1 DEF partition_count
    <2> QED
      BY <1>1, <1>2, <2>1 DEF Shards
  <1>4. /\ shards \in Seq(Descriptors)
        /\ \A k \in 1 .. Len(shards) : Fits(shards[k])
        /\ \A j, k \in 1 .. Len(shards) : j < k => After(shards[j]) <= shards[k].start
        /\ \A y \in 0 .. total_len - 1 :
              \E k \in 1 .. Len(shards) : shards[k].start <= y /\ y < After(shards[k])
    BY <1>1 DEF Entered, QueueInv, Tiles
  <1>5. \A i \in Task : Descriptor(i) = d(i)
    <2> SUFFICES ASSUME NEW i \in Task
                 PROVE  read_range(len, chunk_size, i)[1] = i
      BY DEF Descriptor
    <2>1. wrap(i * chunk_size) = i * chunk_size
      BY <1>1, <1>2, NoWrap
    <2>2. i * chunk_size = i
      BY <1>1, <1>3
    <2> QED
      BY <2>1, <2>2 DEF read_range
  <1>6. \A i \in Task : /\ d(i) \in Descriptors
                        /\ Lo(i) = d(i).offset /\ Hi(i) = d(i).offset + d(i).len
                        /\ Segment(i) = d(i).segment
    BY <1>3, <1>4, <1>5 DEF Lo, Hi, Segment, Shard, SliceOf
  <1>7. \A i \in Task :
            /\ d(i).start \in Nat /\ d(i).offset \in Nat
            /\ d(i).len \in Nat /\ d(i).len >= 1
            /\ d(i).segment \in {"Front", "Back"}
            /\ d(i).offset + d(i).len <= SegmentLen(d(i).segment)
            /\ d(i).start = d(i).offset + (IF d(i).segment = "Front" THEN 0 ELSE front_len)
    <2> SUFFICES ASSUME NEW i \in Task
                 PROVE  /\ d(i).start \in Nat /\ d(i).offset \in Nat
                        /\ d(i).len \in Nat /\ d(i).len >= 1
                        /\ d(i).segment \in {"Front", "Back"}
                        /\ d(i).offset + d(i).len <= SegmentLen(d(i).segment)
                        /\ d(i).start = d(i).offset
                              + (IF d(i).segment = "Front" THEN 0 ELSE front_len)
      OBVIOUS
    <2>1. i + 1 \in 1 .. Len(shards)
      BY <1>1, <1>3
    <2>2. Fits(d(i)) /\ d(i) \in Descriptors
      BY <1>4, <1>6, <2>1
    <2>3. chunk_len \in Nat
      BY UsizeAssumption DEF Entered, QueueInv, Planned
    <2> HIDE DEF d
    <2> QED
      BY <2>2, <2>3 DEF Fits, Descriptors
  <1>8. \A i, j \in Task : i < j => d(i).start + d(i).len <= d(j).start
    BY <1>3, <1>4 DEF After
  <1>9. \A y \in 0 .. total_len - 1 :
            \E i \in Task : d(i).start <= y /\ y < d(i).start + d(i).len
    <2> SUFFICES ASSUME NEW y \in 0 .. total_len - 1
                 PROVE  \E i \in Task : d(i).start <= y /\ y < d(i).start + d(i).len
      OBVIOUS
    <2>1. PICK k \in 1 .. Len(shards) : shards[k].start <= y /\ y < After(shards[k])
      BY <1>4
    <2>2. k - 1 \in Task /\ d(k - 1) = shards[k]
      BY <1>3, <1>4, <2>1
    <2> QED
      BY <2>1, <2>2 DEF After
  <1>10. Region = SegmentCells(front_len, "Front") \cup SegmentCells(back_len, "Back")
    BY DEF Region
  <1>11. \A i \in Task : i \in Int
    BY DEF Task
  <1> HIDE DEF d
  <1>12. ASSUME NEW i \in Task
         PROVE  IsShard(i)
    <2>1. /\ Lo(i) = d(i).offset /\ Hi(i) = d(i).offset + d(i).len
          /\ Segment(i) = d(i).segment
      BY <1>6
    <2>2. /\ d(i).offset \in Nat /\ d(i).len \in Nat /\ d(i).len >= 1
          /\ d(i).segment \in {"Front", "Back"}
          /\ d(i).offset + d(i).len <= SegmentLen(d(i).segment)
      BY <1>7
    <2>3. /\ Lo(i) \in Nat /\ Hi(i) \in Nat /\ Lo(i) < Hi(i)
          /\ Segment(i) \in {"Front", "Back"}
          /\ Hi(i) <= SegmentLen(Segment(i))
      BY <2>1, <2>2
    <2>4. ASSUME NEW y \in Lo(i) .. Hi(i) - 1
          PROVE  <<Segment(i), y>> \in Region
      <3>1. y \in 0 .. SegmentLen(Segment(i)) - 1
        <4>1. SegmentLen(Segment(i)) \in Nat
          BY <1>1, <2>3 DEF SegmentLen
        <4> QED
          BY <2>3, <2>4, <4>1
      <3>2. CASE Segment(i) = "Front"
        BY <1>10, <3>1, <3>2 DEF SegmentCells, SegmentLen
      <3>3. CASE Segment(i) = "Back"
        BY <1>10, <3>1, <3>3 DEF SegmentCells, SegmentLen
      <3> QED
        BY <2>3, <3>2, <3>3
    <2> QED
      BY <2>3, <2>4 DEF IsShard
  <1>13. ASSUME NEW i \in Task, NEW j \in Task, i # j
         PROVE  Apart(i, j)
    <2>1. ASSUME NEW k \in Task, NEW l \in Task, k < l,
                 Segment(k) = Segment(l)
          PROVE  Hi(k) <= Lo(l)
      <3>1. d(k).start + d(k).len <= d(l).start /\ d(k).segment = d(l).segment
        BY <1>6, <1>8, <2>1
      <3>2. /\ d(k).offset \in Nat /\ d(k).len \in Nat /\ d(l).offset \in Nat
            /\ d(k).segment = "Front" => d(k).start = d(k).offset
            /\ d(k).segment # "Front" => d(k).start = d(k).offset + front_len
        BY <1>1, <1>7
      <3>3. /\ d(l).segment = "Front" => d(l).start = d(l).offset
            /\ d(l).segment # "Front" => d(l).start = d(l).offset + front_len
        BY <1>1, <1>7
      <3>4. d(k).offset + d(k).len <= d(l).offset
        BY <1>1, <3>1, <3>2, <3>3
      <3> QED
        BY <1>6, <3>4
    <2>2. i < j \/ j < i
      BY <1>11, <1>13
    <2> QED
      BY <2>1, <2>2 DEF Apart
  <1>14. ASSUME NEW x \in Region
         PROVE  \E i \in Task : Contains(i, x)
    <2>1. CASE x \in SegmentCells(front_len, "Front")
      <3>1. x[1] = "Front" /\ x[2] \in 0 .. front_len - 1
        BY <2>1 DEF SegmentCells
      <3>2. PICK i \in Task : d(i).start <= x[2] /\ x[2] < d(i).start + d(i).len
        BY <1>1, <1>9, <3>1
      <3>3. d(i).segment = "Front"
        <4>1. d(i).segment # "Front" => d(i).start = d(i).offset + front_len
                                          /\ d(i).offset \in Nat
          BY <1>7
        <4> QED
          BY <1>1, <3>1, <3>2, <4>1
      <3> QED
        BY <1>6, <1>7, <3>1, <3>2, <3>3 DEF Contains
    <2>2. CASE x \in SegmentCells(back_len, "Back")
      <3>1. x[1] = "Back" /\ x[2] \in 0 .. back_len - 1
        BY <2>2 DEF SegmentCells
      <3> DEFINE y == front_len + x[2]
      <3>2. y \in 0 .. total_len - 1
        BY <1>1, <3>1
      <3>3. PICK i \in Task : d(i).start <= y /\ y < d(i).start + d(i).len
        BY <1>9, <3>2
      <3>4. d(i).segment = "Back"
        <4>1. /\ d(i).segment \in {"Front", "Back"}
              /\ d(i).offset \in Nat /\ d(i).len \in Nat
              /\ d(i).offset + d(i).len <= SegmentLen(d(i).segment)
              /\ d(i).segment = "Front" => d(i).start = d(i).offset
          BY <1>7
        <4>2. d(i).segment = "Front" => d(i).start + d(i).len <= front_len
          BY <4>1 DEF SegmentLen
        <4>3. front_len <= y
          BY <1>1, <3>1
        <4> HIDE DEF y
        <4>4. y \in Int /\ d(i).start + d(i).len \in Int
          BY <1>1, <1>7, <3>2, <4>1
        <4> QED
          BY <1>1, <3>3, <4>1, <4>2, <4>3, <4>4
      <3>5. /\ d(i).start = d(i).offset + front_len
            /\ d(i).offset \in Nat /\ d(i).len \in Nat
            /\ Lo(i) = d(i).offset /\ Hi(i) = d(i).offset + d(i).len
            /\ Segment(i) = "Back"
        BY <1>6, <1>7, <3>4
      <3>6. x[2] \in Lo(i) .. Hi(i) - 1
        BY <1>1, <3>1, <3>3, <3>5
      <3> QED
        BY <3>1, <3>5, <3>6 DEF Contains
    <2> QED
      BY <1>10, <2>1, <2>2
  <1> QED
    BY <1>12, <1>13, <1>14 DEF ShardsOfRegion

(* Whatever is cut, the shards are those of the region.                    *)
LEMMA ShardsOfCall == Entered /\ pc # "idle" => ShardsOfRegion
  BY SliceShards, QueueShards DEF Entered

(* A call that has not begun has no task.                                  *)
LEMMA NoTaskBefore ==
    ASSUME Entered, pc = "idle"
    PROVE  Task = {}
  BY DEF Entered, Task

(* The cells of the region are cells of the model.                         *)
LEMMA RegionFits ==
    ASSUME Entered, pc # "idle"
    PROVE  Region \subseteq Cell
  <1>1. MaxLen \in Nat /\ len \in 0 .. MaxLen
    BY Bounds DEF Entered
  <1>2. front_len \in Nat /\ back_len \in Nat /\ front_len + back_len <= MaxLen
    BY DEF Entered, QueueInv, Planned, total_len
  <1>3. \A n \in 0 .. MaxLen : 0 .. n - 1 \subseteq 0 .. MaxLen - 1
    BY <1>1
  <1>4. front_len \in 0 .. MaxLen /\ back_len \in 0 .. MaxLen
    BY <1>1, <1>2
  <1>5. SegmentCells(len, "Front") \subseteq Cell
    BY <1>1, <1>3 DEF SegmentCells, Cell
  <1>6. SegmentCells(front_len, "Front") \cup SegmentCells(back_len, "Back") \subseteq Cell
    BY <1>3, <1>4 DEF SegmentCells, Cell
  <1> QED
    BY <1>5, <1>6 DEF Region, Entered

----------------------------------------------------------------------------
(* Every step keeps MapInv.                                                *)

(* Before the call nothing has been gone through.                          *)
LEMMA NothingWalked ==
    ASSUME Walked, Task = {}, Task' = {}, visited' = visited, visits' = visits
    PROVE  Walked'
  BY DEF Walked

(* In a call, a step that lets no closure move keeps what was walked.      *)
LEMMA WalkedStays ==
    ASSUME Walked, UNCHANGED <<planVars, mapVars>>, num_chunks' = num_chunks,
           visited' = visited, visits' = visits,
           \A i \in Task : /\ task'[i] = "idle" => task[i] = "idle"
                           /\ Produced(i)' => Produced(i) \/ visited[i] = Hi(i) - Lo(i)
    PROVE  Walked'
  <1>1. Task' = Task
    BY DEF Task
  <1>2. \A i : Lo(i)' = Lo(i) /\ Hi(i)' = Hi(i) /\ Segment(i)' = Segment(i)
    BY ShardsStay
  <1>3. ASSUME NEW i \in Task
        PROVE  Walks(i)'
    BY <1>2 DEF Walked, Walks
  <1>4. \A i, x : Behind(i, x)' = Behind(i, x)
    BY <1>2 DEF Behind
  <1> QED
    BY <1>1, <1>3, <1>4 DEF Walked

(* The other threads change the slot only.                                 *)
LEMMA SlotStepInv ==
    ASSUME MapInv, SlotStep
    PROVE  MapInv'
  <1>1. /\ UNCHANGED <<planVars, mapVars, visited, visits>>
        /\ UNCHANGED <<pc, num_chunks, task, results>>
    BY DEF SlotStep, register_parallel_executor, clear_parallel_executor,
       exitVars
  <1>2. IInv => IInv'
    BY NextInv DEF SlotStep, Next
  <1>3. ReturnedEmpty => ReturnedEmpty'
    BY <1>1 DEF ReturnedEmpty
  <1>4. Entered'
    BY <1>1 DEF MapInv, Entered, mapVars, planVars, QueueInv, Planned, Tiles,
       Fits, SegmentLen, total_len
  <1>5. Walked'
    BY <1>1, WalkedStays DEF MapInv, Produced
  <1> QED
    BY <1>2, <1>3, <1>4, <1>5 DEF MapInv

(* A step of the engine moves at most one task of the call on.             *)
LEMMA EngineMoves ==
    ASSUME IInv, \/ \E i \in Task : TaskStep(i)
                 \/ CallerStep
                 \/ EnvironmentFails
    PROVE  /\ pc \in Working /\ pc' \in Working \cup Terminal
           /\ num_chunks' = num_chunks
           /\ \/ task' = task
              \/ \E i \in Task : Starts(i) \/ Ends(i) \/ IsStored(i)
  <1>1. CASE \E i \in Task : TaskStep(i)
    <2>1. PICK i \in Task : TaskStep(i)
      BY <1>1
    <2>2. Starts(i) \/ Ends(i) \/ IsStored(i)
      BY <2>1
      DEF TaskStep, Invoke, Invocable, RunCaught, WriteSlot, SetFlag,
          RecordPanic, WorkerEnds, Starts, Ends, IsStored, Becomes
    <2> QED
      BY <2>1, <2>2, TaskStepIsInside
  <1>2. CASE SingleStarts \/ Spawn \/ StartLast \/ SingleEnds \/ LastEnds
    BY <1>2, InlineMoves
  <1>3. CASE Administers
    BY <1>3, OthersMoveNothing
  <1> QED
    BY <1>1, <1>2, <1>3 DEF CallerStep, Administers

(* A step of drive or of its executor.                                     *)
LEMMA EngineStepInv ==
    ASSUME MapInv, EngineStep
    PROVE  MapInv'
  <1>1. IInv
    <2> SUFFICES ASSUME ReturnedEmpty
                 PROVE  FALSE
      BY DEF MapInv
    <2>1. Task = {} /\ pc = "returned"
      BY DEF ReturnedEmpty, Task
    <2> QED
      BY <2>1
      DEF EngineStep, CallerStep, EnvironmentFails, ExecuteReturns, DropSlot,
          FreeBuffer, GuardFreesBuffer, SingleStarts, SingleEnds, SingleExits,
          Spawn, StartLast, LastEnds, Join, ScopeReturns, UnwindLocals,
          ScopeRaises, ExecuteUnwinds, DropSlotPanics, SpawnFails
  <1>2. IInv'
    BY <1>1, NextInv DEF EngineStep, Next
  <1>3. /\ pc # "idle" /\ pc' # "idle" /\ num_chunks' = num_chunks
        /\ \/ task' = task
           \/ \E i \in Task : Starts(i) \/ Ends(i) \/ IsStored(i)
    <2>1. "idle" \notin Working \cup Terminal
      BY DEF Working, OnExecutor, OnThreads, Terminal
    <2> QED
      BY <1>1, <2>1, EngineMoves DEF EngineStep
  <1>4. UNCHANGED <<planVars, mapVars, visits>>
    BY DEF EngineStep
  <1>5. ASSUME NEW j \in Index
        PROVE  /\ task'[j] = "idle" => task[j] = "idle"
               /\ task'[j] = "running" =>
                     \/ task[j] = "running"
                     \/ task[j] = "idle" /\ j \in Task
               /\ task'[j] \in {"ok", "written", "done"} =>
                     \/ task[j] \in {"ok", "written", "done"}
                     \/ task[j] = "running" /\ task'[j] \in {"ok", "done"}
    <2>1. task \in [Index -> TaskState] /\ Task \subseteq Index
      BY <1>1, TaskIndex DEF IInv, TypeOK
    <2>2. CASE task' = task
      BY <2>2, <2>1 DEF TaskState
    <2>3. ASSUME NEW i \in Task, Starts(i) \/ Ends(i) \/ IsStored(i)
          PROVE  <1>5!2
      BY <2>1, <2>3 DEF Starts, Ends, IsStored, Becomes
    <2> QED
      BY <1>3, <2>2, <2>3
  <1>6. visited' = visited
    <2>1. visited \in [Index -> Nat]
      BY DEF MapInv, Walked
    <2>2. \A j \in Index : task[j] # "running" /\ task'[j] = "running" => visited[j] = 0
      BY <1>5 DEF MapInv, Walked, Walks
    <2> QED
      BY <2>1, <2>2 DEF EngineStep, Restart
  <1>7. Entered'
    BY <1>3, <1>4 DEF MapInv, Entered, mapVars, planVars, QueueInv, Planned,
       Tiles, Fits, SegmentLen, total_len
  <1>8. ASSUME NEW i \in Task
        PROVE  /\ task'[i] = "idle" => task[i] = "idle"
               /\ Produced(i)' => Produced(i) \/ visited[i] = Hi(i) - Lo(i)
    <2>1. i \in Index
      BY <1>1, TaskIndex DEF IInv
    <2>2. task[i] = "running" /\ task'[i] \in {"ok", "done"} =>
              Lo(i) + visited[i] = Hi(i)
      BY DEF EngineStep, ReturnsAfterShard, Through, Lo, Hi
    <2>3. IsShard(i) /\ visited[i] \in Nat
      BY <1>3, <2>1, ShardsOfCall DEF MapInv, ShardsOfRegion, Walked
    <2>4. Lo(i) + visited[i] = Hi(i) => visited[i] = Hi(i) - Lo(i)
      BY <2>3 DEF IsShard
    <2> QED
      BY <1>5, <2>1, <2>2, <2>4 DEF Produced
  <1>9. Walked'
    BY <1>3, <1>4, <1>6, <1>8, WalkedStays DEF MapInv
  <1> QED
    BY <1>2, <1>7, <1>9 DEF MapInv

(* A closure goes through one more cell of its shard, which nobody went    *)
(* through before.                                                         *)
LEMMA VisitInv ==
    ASSUME MapInv, NEW i \in Task, Visit(i)
    PROVE  MapInv'
  <1> DEFINE x == <<Segment(i), Lo(i) + visited[i]>>
  <1>1. /\ UNCHANGED vars
        /\ UNCHANGED <<planVars, mapVars>>
        /\ visited' = [visited EXCEPT ![i] = @ + 1]
        /\ visits' = [visits EXCEPT ![x] = @ + 1]
        /\ task[i] = "running"
        /\ Lo(i) + visited[i] # Hi(i)
    BY DEF Visit, Through, Lo, Hi, Segment
  <1>2. UNCHANGED <<pc, num_chunks, task, results>>
    BY <1>1 DEF vars, callVars, exitVars
  <1>3. IInv /\ IInv'
    <2>1. ~ReturnedEmpty
      BY DEF ReturnedEmpty, Task
    <2> QED
      BY <1>1, <2>1, StutterInv DEF MapInv
  <1>4. pc # "idle" /\ i \in Index /\ Task \subseteq Index /\ Task' = Task
    BY <1>2, <1>3, NoTaskBefore, TaskIndex DEF MapInv, IInv, Task
  <1>5. Entered'
    BY <1>1, <1>2 DEF MapInv, Entered, mapVars, planVars, QueueInv, Planned,
       Tiles, Fits, SegmentLen, total_len
  <1>6. ShardsOfRegion /\ Walked /\ Region \subseteq Cell
    BY <1>4, ShardsOfCall, RegionFits DEF MapInv
  <1>7. /\ IsShard(i) /\ Walks(i)
        /\ visited \in [Index -> Nat] /\ visits \in [Cell -> Nat]
    BY <1>6 DEF ShardsOfRegion, Walked
  <1>8. /\ Lo(i) \in Nat /\ Hi(i) \in Nat /\ visited[i] \in Nat
        /\ Lo(i) + visited[i] < Hi(i)
    BY <1>1, <1>7 DEF IsShard, Walks
  <1>9. x \in Cell
    <2>1. Lo(i) + visited[i] \in Lo(i) .. Hi(i) - 1
      BY <1>8
    <2> QED
      BY <1>6, <1>7, <2>1 DEF IsShard
  <1>10. ASSUME NEW j \in Task
         PROVE  ~Behind(j, x)
    <2>1. CASE j = i
      BY <1>8, <2>1 DEF Behind
    <2>2. CASE j # i
      <3>1. Apart(i, j) /\ IsShard(j) /\ Walks(j)
        BY <1>6, <2>2 DEF ShardsOfRegion, Walked
      <3>2. Lo(j) \in Nat /\ Hi(j) \in Nat /\ visited[j] \in 0 .. Hi(j) - Lo(j)
        BY <3>1 DEF IsShard, Walks
      <3>3. x[1] = Segment(i) /\ x[2] = Lo(i) + visited[i]
        OBVIOUS
      <3> HIDE DEF x
      <3> QED
        BY <1>8, <3>1, <3>2, <3>3 DEF Apart, Behind
    <2> QED
      BY <2>1, <2>2
  <1>11. visits[x] = 0
    BY <1>6, <1>9, <1>10 DEF Walked
  <1>12. \A j : Lo(j)' = Lo(j) /\ Hi(j)' = Hi(j) /\ Segment(j)' = Segment(j)
    BY <1>1, ShardsStay
  <1>13. /\ visited' \in [Index -> Nat]
         /\ visited'[i] = visited[i] + 1
         /\ \A j \in Index : j # i => visited'[j] = visited[j]
    BY <1>1, <1>4, <1>7
  <1> HIDE DEF x
  <1>14. /\ visits' \in [Cell -> Nat]
         /\ visits'[x] = 1
         /\ \A y \in Cell : y # x => visits'[y] = visits[y]
    BY <1>1, <1>7, <1>9, <1>11
  <1>15. ASSUME NEW j \in Task
         PROVE  Walks(j)'
    <2>1. CASE j = i
      BY <1>1, <1>2, <1>7, <1>8, <1>12, <1>13, <2>1 DEF Walks, Produced
    <2>2. CASE j # i
      <3>1. Walks(j) /\ visited'[j] = visited[j]
        BY <1>4, <1>6, <1>13, <2>2 DEF Walked
      <3> QED
        BY <1>2, <1>12, <3>1 DEF Walks, Produced
    <2> QED
      BY <2>1, <2>2
  <1>16. ASSUME NEW y \in Cell
         PROVE  visits'[y] = IF \E j \in Task : Behind(j, y)' THEN 1 ELSE 0
    <2>1. CASE y = x
      <3>1. y[1] = Segment(i) /\ y[2] = Lo(i) + visited[i]
        BY <2>1 DEF x
      <3>2. Behind(i, y)'
        BY <1>8, <1>12, <1>13, <3>1 DEF Behind
      <3> QED
        BY <1>14, <2>1, <3>2
    <2>2. CASE y # x
      <3>1. ASSUME NEW j \in Task
            PROVE  Behind(j, y)' <=> Behind(j, y)
        <4>1. CASE j # i
          <5>1. visited'[j] = visited[j]
            BY <1>4, <1>13, <4>1
          <5> QED
            BY <1>12, <5>1 DEF Behind
        <4>2. CASE j = i
          <5>1. y[1] = Segment(i) => y[2] # Lo(i) + visited[i]
            <6>1. y = <<y[1], y[2]>>
              BY DEF Cell
            <6> QED
              BY <2>2, <6>1 DEF x
          <5>2. y[2] \in Int
            BY DEF Cell
          <5>3. /\ Behind(i, y)' <=> /\ y[1] = Segment(i)
                                    /\ y[2] \in Lo(i) .. Lo(i) + (visited[i] + 1) - 1
                /\ Behind(i, y) <=> /\ y[1] = Segment(i)
                                    /\ y[2] \in Lo(i) .. Lo(i) + visited[i] - 1
            BY <1>12, <1>13 DEF Behind
          <5>4. Behind(i, y)' <=> Behind(i, y)
            BY <1>8, <5>1, <5>2, <5>3
          <5> QED
            BY <4>2, <5>4
        <4> QED
          BY <4>1, <4>2
      <3>2. visits[y] = IF \E j \in Task : Behind(j, y) THEN 1 ELSE 0
        BY <1>6 DEF Walked
      <3> QED
        BY <1>14, <2>2, <3>1, <3>2
    <2> QED
      BY <2>1, <2>2
  <1>17. \A j \in Index \ Task : visited'[j] = 0
    BY <1>6, <1>13 DEF Walked
  <1>18. Walked'
    BY <1>4, <1>13, <1>14, <1>15, <1>16, <1>17 DEF Walked
  <1> QED
    BY <1>3, <1>5, <1>18 DEF MapInv

(* A plan that callers pass is well formed.                                *)
LEMMA PlansAreWellFormed ==
    ASSUME NEW p \in Plans
    PROVE  WellFormed(p)
  BY PlansAssumption, UsizeAssumption
  DEF WellFormed, Parts, ChunkSize, AvailableParallelism, AtLeastOne, Usize

(* The descriptors of a queue are computed before the call.                *)
LEMMA PlanQueueInv ==
    ASSUME MapInv, NEW l \in 0 .. MaxLen, NEW front \in 0 .. l,
           NEW p \in Plans, NEW r \in 1 .. 2, PlanQueue(front, l - front, p, r)
    PROVE  MapInv'
  <1>1. /\ driver = "none" /\ driver' = "deque" /\ UNCHANGED vars
        /\ from_lengths(front, l - front, p, r)
        /\ UNCHANGED <<visited, visits>>
    BY DEF PlanQueue
  <1>2. UNCHANGED <<pc, num_chunks>> /\ pc = "idle" /\ chunk_len = 0
    BY <1>1 DEF vars, callVars, MapInv, Entered
  <1>3. IInv'
    BY <1>1, <1>2, StutterInv DEF MapInv, ReturnedEmpty
  <1>4. /\ front \in Nat /\ l - front \in Nat
        /\ front + (l - front) = l /\ l <= MaxLen /\ l <= IsizeMax
    BY Bounds
  <1>5. r \in 1 .. UsizeMax
    BY PlansAssumption, UsizeAssumption DEF Usize
  <1>6. QueueInv'
    <2>1. QueueInv /\ WellFormed(p)
      BY PlansAreWellFormed DEF MapInv, Entered
    <2> DEFINE b == l - front
    <2>2. b \in Nat /\ front + b <= IsizeMax /\ from_lengths(front, b, p, r)
      BY <1>1, <1>4
    <2> HIDE DEF b
    <2> QED
      BY <1>2, <1>4, <1>5, <2>1, <2>2, FromLengths
  <1>7. total_len' <= MaxLen
    BY <1>1, <1>4 DEF from_lengths, total_len
  <1>8. Entered'
    BY <1>1, <1>2, <1>6, <1>7 DEF MapInv, Entered
  <1>9. Walked'
    <2>1. Task = {} /\ Task' = {}
      BY <1>2, NoTaskBefore DEF MapInv, Task
    <2> QED
      BY <1>1, <2>1, NothingWalked DEF MapInv
  <1> QED
    BY <1>3, <1>8, <1>9 DEF MapInv

(* A turn of the planning loop of a queue.                                 *)
LEMMA PlanTurnInv ==
    ASSUME MapInv, PlanTurn
    PROVE  MapInv'
  <1>1. /\ driver = "deque" /\ pc = "idle" /\ PushShards
        /\ UNCHANGED vars /\ UNCHANGED mapVars /\ UNCHANGED <<visited, visits>>
    BY DEF PlanTurn
  <1>2. UNCHANGED <<pc, num_chunks, driver>>
    BY <1>1 DEF vars, callVars, mapVars
  <1>3. IInv'
    BY <1>1, StutterInv DEF MapInv, ReturnedEmpty
  <1>4. QueueInv' /\ total_len' = total_len
    BY <1>1, TurnKeepsTiling DEF MapInv, Entered, PushShards, total_len
  <1>5. Entered'
    BY <1>1, <1>2, <1>4 DEF MapInv, Entered
  <1>6. Walked'
    <2>1. Task = {} /\ Task' = {}
      BY <1>1, <1>2, NoTaskBefore DEF MapInv, Task
    <2> QED
      BY <1>1, <2>1, NothingWalked DEF MapInv
  <1> QED
    BY <1>3, <1>5, <1>6 DEF MapInv

(* The entry of a driver, for a region that is cut as planned: it returns  *)
(* at once, or the engine starts with as many chunks as there are shards.  *)
LEMMA EnterInv ==
    ASSUME MapInv, NEW d \in {"map", "read_map", "deque"}, NEW l \in 0 .. MaxLen,
           NEW p, WellFormed(p), NEW r \in 1 .. UsizeMax,
           IF d = "deque"
           THEN driver = "deque" /\ start = total_len /\ l = Len(shards) /\ p = ChunkSize(1)
           ELSE driver = "none",
           Enter(d, l, p, r)
    PROVE  MapInv'
  <1> DEFINE c == AtLeastOne(chunk_len_for(p, l, r))
             n == partition_count(l, c)
  <1>1. /\ pc = "idle" /\ driver' = d /\ len' = l /\ chunk_size' = c
        /\ UNCHANGED planVars /\ UNCHANGED <<visited, visits>>
        /\ \/ /\ n = 0 /\ pc' = "returned"
              /\ UNCHANGED <<callVars, exitVars, task>>
           \/ n > 0 /\ drive(n)
    BY DEF Enter
  <1>2. /\ l \in Nat /\ l <= MaxLen /\ l \in 0 .. UsizeMax
        /\ MaxLen \in Nat /\ MaxLen <= MaxChunks /\ MaxChunks \in Nat
    BY Bounds, UsizeAssumption
  <1>3. c \in 1 .. UsizeMax /\ c \in Nat \ {0}
    <2>1. chunk_len_for(p, l, r) \in 1 .. UsizeMax
      BY <1>2, PlanChunk
    <2> QED
      BY <2>1, UsizeAssumption DEF AtLeastOne
  <1>4. d = "deque" => c = 1
    BY DEF chunk_len_for, ChunkSize, AtLeastOne
  <1>5. n \in Nat /\ n <= l
    <2> HIDE DEF c
    <2>1. l <= l * c
      BY <1>2, <1>3
    <2> QED
      BY <1>2, <1>3, <2>1, CountIsNat, CountAtMost
  <1>6. IInv /\ Task = {} /\ num_chunks = 0 /\ results = << >>
    BY <1>1, NoTaskBefore DEF MapInv, ReturnedEmpty, IInv, Collected, Entered
  <1>7. \A i \in Index : visited[i] = 0 /\ task[i] = "idle"
    BY <1>6 DEF MapInv, Walked, IInv, Untouched
  <1>8. \A x \in Cell : visits[x] = 0
    BY <1>6 DEF MapInv, Walked
  <1>9. visited \in [Index -> Nat] /\ visits \in [Cell -> Nat]
    BY DEF MapInv, Walked
  <1>10. QueueInv' /\ total_len' = total_len /\ chunk_len' = chunk_len /\ start' = start
         /\ shards' = shards
    BY <1>1 DEF MapInv, Entered, planVars, QueueInv, Planned, Tiles, Fits,
       SegmentLen, total_len
  <1> HIDE DEF c, n
  <1>11. pc' # "idle" /\ num_chunks' = n /\ task' = task
    BY <1>1, <1>6 DEF drive, callVars
  <1>12. IInv' \/ ReturnedEmpty'
    <2>1. CASE n = 0
      BY <1>1, <1>6, <1>11, <2>1 DEF ReturnedEmpty, exitVars, drive
    <2>2. CASE n > 0
      <3>1. n \in 1 .. MaxChunks
        BY <1>2, <1>5, <2>2
      <3> QED
        BY <1>1, <1>6, <2>2, <3>1, DriveInv
    <2> QED
      BY <1>5, <2>1, <2>2
  <1>13. Entered'
    <2>1. len' \in 0 .. MaxLen /\ num_chunks' = partition_count(len, chunk_size)'
      BY <1>1, <1>11 DEF n
    <2> QED
      BY <1>1, <1>3, <1>4, <1>10, <1>11, <2>1 DEF MapInv, Entered
  <1>14. ShardsOfRegion'
    <2>1. (Entered /\ pc # "idle")'
      BY <1>11, <1>13
    <2> QED
      BY <2>1, ShardsOfCall, PTL
  <1>15. \A i \in Task' : i \in Index
    BY <1>2, <1>5, <1>11 DEF Task, Index
  <1>16. ASSUME NEW i \in Task'
         PROVE  /\ Walks(i)'
                /\ \A x : ~Behind(i, x)'
    <2>1. /\ Lo(i)' \in Nat /\ Hi(i)' \in Nat /\ Lo(i)' < Hi(i)'
          /\ visited'[i] = 0 /\ task'[i] = "idle"
      BY <1>1, <1>7, <1>11, <1>14, <1>15 DEF ShardsOfRegion, IsShard
    <2> QED
      BY <2>1 DEF Walks, Behind, Produced
  <1>17. Walked'
    BY <1>1, <1>7, <1>8, <1>9, <1>16 DEF Walked
  <1> QED
    BY <1>12, <1>13, <1>17 DEF MapInv

(* The initial states.                                                     *)
LEMMA MapInitInv == MapInit => MapInv
  <1> SUFFICES ASSUME MapInit
               PROVE  MapInv
    OBVIOUS
  <1>1. IInv /\ Task = {}
    BY InitInv DEF MapInit, Init, Task
  <1>2. QueueInv
    BY PlanStarts DEF MapInit
  <1>3. Entered
    BY <1>2, Bounds DEF MapInit, Init, PlanInit, Entered, total_len
  <1>4. Walked
    BY <1>1 DEF MapInit, Walked
  <1> QED
    BY <1>1, <1>3, <1>4 DEF MapInv

(* Every step of every driver, its closures, the engine and the other      *)
(* threads keeps the invariant.                                            *)
LEMMA MapNextInv == MapInv /\ [MapNext]_allVars => MapInv'
  <1> SUFFICES ASSUME MapInv, [MapNext]_allVars
               PROVE  MapInv'
    OBVIOUS
  <1>1. CASE \E l \in 0 .. MaxLen, plan \in Plans, reported \in 1 .. 2 :
                \/ partition_map_with(l, plan, reported)
                \/ partition_read_map_with(l, plan, reported)
                \/ \E front \in 0 .. l : PlanQueue(front, l - front, plan, reported)
    <2>1. PICK l \in 0 .. MaxLen, plan \in Plans, reported \in 1 .. 2 :
                \/ partition_map_with(l, plan, reported)
                \/ partition_read_map_with(l, plan, reported)
                \/ \E front \in 0 .. l : PlanQueue(front, l - front, plan, reported)
      BY <1>1
    <2>2. reported \in 1 .. UsizeMax /\ WellFormed(plan)
      BY PlansAssumption, UsizeAssumption, PlansAreWellFormed DEF Usize
    <2>3. CASE partition_map_with(l, plan, reported)
      <3>1. driver = "none" /\ Enter("map", l, plan, reported)
        BY <2>3 DEF partition_map_with
      <3> QED
        BY <2>2, <3>1, EnterInv
    <2>4. CASE partition_read_map_with(l, plan, reported)
      <3>1. driver = "none" /\ Enter("read_map", l, plan, reported)
        BY <2>4 DEF partition_read_map_with
      <3> QED
        BY <2>2, <3>1, EnterInv
    <2>5. CASE \E front \in 0 .. l : PlanQueue(front, l - front, plan, reported)
      BY <2>5, PlanQueueInv
    <2> QED
      BY <2>1, <2>3, <2>4, <2>5
  <1>2. CASE PlanTurn
    BY <1>2, PlanTurnInv
  <1>3. CASE map_shards
    <2> DEFINE l == Len(shards)
               p == ChunkSize(1)
    <2>1. /\ driver = "deque" /\ start = total_len
          /\ Enter("deque", l, p, 1)
      BY <1>3 DEF map_shards
    <2>2. l \in 0 .. MaxLen
      <3>1. l \in Nat /\ l <= start /\ total_len <= MaxLen /\ total_len \in Nat
        BY DEF MapInv, Entered, QueueInv, Planned, Tiles, total_len
      <3> QED
        BY <2>1, <3>1, Bounds
    <2>3. WellFormed(p) /\ 1 \in 1 .. UsizeMax
      BY UsizeAssumption DEF WellFormed, ChunkSize, AtLeastOne
    <2>4. l = Len(shards) /\ p = ChunkSize(1)
      OBVIOUS
    <2> HIDE DEF l, p
    <2> QED
      BY <2>1, <2>2, <2>3, <2>4, EnterInv
  <1>4. CASE \E i \in Task : Visit(i)
    BY <1>4, VisitInv
  <1>5. CASE EngineStep
    BY <1>5, EngineStepInv
  <1>6. CASE SlotStep
    BY <1>6, SlotStepInv
  <1>7. CASE UNCHANGED allVars
    <2>1. /\ UNCHANGED vars /\ UNCHANGED <<planVars, mapVars>>
          /\ visited' = visited /\ visits' = visits
      BY <1>7 DEF allVars
    <2>2. UNCHANGED <<pc, num_chunks, task, results>>
      BY <2>1 DEF vars, callVars, exitVars
    <2>3. IInv' \/ ReturnedEmpty'
      BY <2>1, <2>2, StutterInv DEF MapInv, ReturnedEmpty
    <2>4. Entered'
      BY <2>1, <2>2 DEF MapInv, Entered, mapVars, planVars, QueueInv, Planned,
         Tiles, Fits, SegmentLen, total_len
    <2>5. Walked'
      BY <2>1, <2>2, WalkedStays DEF MapInv, Produced
    <2> QED
      BY <2>3, <2>4, <2>5 DEF MapInv
  <1> QED
    BY <1>1, <1>2, <1>3, <1>4, <1>5, <1>6, <1>7 DEF MapNext

(* The invariant of the partition drivers over slices and queues.          *)
THEOREM MapInvariance == MapSpec => []MapInv
  BY MapInitInv, MapNextInv, PTL DEF MapSpec

----------------------------------------------------------------------------
(* Two closures in flight never hold a cell in common, and none reaches    *)
(* outside the region: the &mut slices that ParChunks and DequeMutSlices   *)
(* form from raw pointers on different threads do not alias.               *)
THEOREM ClosuresShareNoCell == MapSpec => []NoSharedCell
  <1>1. MapInv => NoSharedCell
    <2> SUFFICES ASSUME MapInv, NEW i \in Task
                 PROVE  /\ \A j \in Task : i # j => Holds(i) \cap Holds(j) = {}
                        /\ Holds(i) \subseteq Region
      BY DEF NoSharedCell
    <2>1. ShardsOfRegion
      BY NoTaskBefore, ShardsOfCall DEF MapInv
    <2>2. \A j \in Task : Holds(j) \subseteq {Segment(j)} \X (Lo(j) .. Hi(j) - 1)
      BY DEF Holds, Cells, Segment, Lo, Hi
    <2>3. ASSUME NEW j \in Task, i # j
          PROVE  Holds(i) \cap Holds(j) = {}
      <3> SUFFICES ASSUME NEW x \in Holds(i), x \in Holds(j)
                   PROVE  FALSE
        OBVIOUS
      <3>1. /\ x[1] = Segment(i) /\ x[2] \in Lo(i) .. Hi(i) - 1
            /\ x[1] = Segment(j) /\ x[2] \in Lo(j) .. Hi(j) - 1
        BY <2>2
      <3>2. IsShard(i) /\ IsShard(j) /\ Apart(i, j)
        BY <2>1, <2>3 DEF ShardsOfRegion
      <3> QED
        BY <3>1, <3>2 DEF IsShard, Apart
    <2>4. Holds(i) \subseteq Region
      <3> SUFFICES ASSUME NEW x \in Holds(i)
                   PROVE  x \in Region
        OBVIOUS
      <3>1. x = <<Segment(i), x[2]>> /\ x[2] \in Lo(i) .. Hi(i) - 1
        BY <2>2
      <3>2. IsShard(i)
        BY <2>1 DEF ShardsOfRegion
      <3>3. <<Segment(i), x[2]>> \in Region
        BY <3>1, <3>2 DEF IsShard
      <3> QED
        BY <3>1, <3>3
    <2> QED
      BY <2>3, <2>4
  <1> QED
    BY <1>1, MapInvariance, PTL

(* The cells of an empty cut: there are none.                              *)
LEMMA EmptyRegion ==
    ASSUME Entered, ReturnedEmpty
    PROVE  Region = {} /\ (driver = "deque" => Len(shards) = 0)
  <1>1. ShardsOfRegion /\ Task = {}
    BY ShardsOfCall DEF ReturnedEmpty, Task
  <1>2. Region = {}
    BY <1>1 DEF ShardsOfRegion
  <1>3. ASSUME driver = "deque"
        PROVE  Len(shards) = 0
    <2>1. /\ len = Len(shards) /\ len \in Nat /\ chunk_size = 1
          /\ partition_count(len, 1) = 0
      BY <1>3, Bounds DEF Entered, ReturnedEmpty
    <2>2. len # 0 => partition_count(len, 1) = len
      BY <2>1 DEF partition_count
    <2> QED
      BY <2>1, <2>2
  <1> QED
    BY <1>2, <1>3

(* No cell is gone through twice in a call, on any schedule, and a call    *)
(* that returns went through every cell of its region exactly once.        *)
THEOREM CellsAreVisitedOnce == MapSpec => []EachCellOnce
  <1>1. MapInv => EachCellOnce
    <2> SUFFICES ASSUME MapInv
                 PROVE  EachCellOnce
      OBVIOUS
    <2>1. pc # "idle" => ShardsOfRegion
      BY ShardsOfCall DEF MapInv
    <2>2. ASSUME NEW x \in Cell
          PROVE  visits[x] <= IF x \in Region THEN 1 ELSE 0
      <3>1. visits[x] = IF \E i \in Task : Behind(i, x) THEN 1 ELSE 0
        BY DEF MapInv, Walked
      <3>2. ASSUME NEW i \in Task, Behind(i, x)
            PROVE  x \in Region
        <4>1. IsShard(i) /\ Walks(i)
          BY <2>1, NoTaskBefore DEF MapInv, ShardsOfRegion, Walked
        <4>2. x[1] = Segment(i) /\ x[2] \in Lo(i) .. Hi(i) - 1
          BY <3>2, <4>1 DEF Behind, IsShard, Walks
        <4>3. x = <<x[1], x[2]>>
          BY DEF Cell
        <4>4. <<Segment(i), x[2]>> \in Region
          BY <4>1, <4>2 DEF IsShard
        <4> QED
          BY <4>2, <4>3, <4>4
      <3> QED
        BY <3>1, <3>2
    <2>3. ASSUME pc = "returned", NEW x \in Region
          PROVE  visits[x] = 1
      <3>1. ~ReturnedEmpty /\ IInv
        BY EmptyRegion DEF MapInv
      <3>2. x \in Cell
        BY <2>3, RegionFits DEF MapInv
      <3>3. PICK i \in Task : Contains(i, x)
        BY <2>1, <2>3 DEF ShardsOfRegion
      <3>4. visited[i] = Hi(i) - Lo(i)
        BY <2>3, <3>1 DEF IInv, ReturnsAllResultsInOrder, Produced, MapInv,
           Walked, Walks
      <3>5. IsShard(i)
        BY <2>1, <2>3 DEF ShardsOfRegion
      <3>6. Behind(i, x)
        BY <3>3, <3>4, <3>5 DEF Behind, Contains, IsShard
      <3> QED
        BY <3>2, <3>6 DEF MapInv, Walked
    <2> QED
      BY <2>2, <2>3 DEF EachCellOnce
  <1> QED
    BY <1>1, MapInvariance, PTL

(* The results of a queue's driver follow the queue from end to end,       *)
(* across the wrap of its storage.                                         *)
THEOREM ResultsAreInQueueOrder == MapSpec => []ResultsFollowTheQueue
  <1>1. MapInv => ResultsFollowTheQueue
    <2> SUFFICES ASSUME MapInv, pc = "returned", driver = "deque"
                 PROVE  /\ Len(results) = Len(shards)
                        /\ \A k \in 1 .. Len(results) :
                              /\ Descriptor(results[k]).start =
                                    IF k = 1 THEN 0
                                    ELSE Descriptor(results[k - 1]).start
                                            + Descriptor(results[k - 1]).len
                              /\ k = Len(results) =>
                                    Descriptor(results[k]).start
                                       + Descriptor(results[k]).len = total_len
      BY DEF ResultsFollowTheQueue
    <2>1. /\ start = total_len /\ len = Len(shards) /\ chunk_size = 1
          /\ len \in 0 .. IsizeMax /\ chunk_size \in 1 .. UsizeMax /\ len \in Nat
          /\ num_chunks = partition_count(len, 1)
      BY Bounds DEF MapInv, Entered
    <2>2. num_chunks = len
      BY <2>1 DEF partition_count
    <2>3. Len(results) = len /\ \A k \in 1 .. len : results[k] = k - 1
      <3>1. CASE ReturnedEmpty
        BY <2>2, <3>1, <2>1 DEF ReturnedEmpty
      <3>2. CASE IInv
        <4>1. results = [k \in 1 .. len |-> k - 1]
          BY <2>2, <3>2 DEF IInv, ReturnsAllResultsInOrder
        <4> QED
          BY <2>1, <4>1
      <3> QED
        BY <3>1, <3>2 DEF MapInv
    <2>4. \A k \in 1 .. len : Descriptor(results[k]) = shards[k]
      <3> SUFFICES ASSUME NEW k \in 1 .. len
                   PROVE  Descriptor(k - 1) = shards[k]
        BY <2>3
      <3> DEFINE i == k - 1
      <3>1. i \in Shards(len, chunk_size)
        BY <2>1, <2>2 DEF Shards
      <3> HIDE DEF i
      <3>2. wrap(i * chunk_size) = i * chunk_size
        BY <2>1, <3>1, NoWrap
      <3>3. i * chunk_size = k - 1
        BY <2>1 DEF i
      <3>4. (k - 1) + 1 = k
        BY <2>1
      <3> QED
        BY <3>2, <3>3, <3>4 DEF i, Descriptor, read_range
    <2>5. DescriptorsTile
      BY TilesAreDescriptors DEF MapInv, Entered
    <2> SUFFICES ASSUME NEW k \in 1 .. len
                 PROVE  /\ shards[k].start = IF k = 1 THEN 0
                              ELSE shards[k - 1].start + shards[k - 1].len
                        /\ k = len => shards[k].start + shards[k].len = total_len
      <3>1. \A k \in 1 .. len : k # 1 => k - 1 \in 1 .. len
        BY <2>1
      <3> QED
        BY <2>1, <2>3, <2>4, <3>1
    <2> QED
      BY <2>1, <2>5 DEF DescriptorsTile
  <1> QED
    BY <1>1, MapInvariance, PTL

(* Once a call has returned, raised or aborted, no closure touches a cell. *)
THEOREM QuietAfterTheCall == MapSpec => RegionIsQuietAfterTheCall
  <1>1. MapInv /\ [MapNext]_allVars => [visits' # visits => pc \in Working]_allVars
    <2> SUFFICES ASSUME MapInv, MapNext, visits' # visits
                 PROVE  pc \in Working
      BY DEF allVars
    <2>1. PICK i \in Task : Visit(i)
      BY DEF MapNext, partition_map_with, partition_read_map_with, PlanQueue,
         PlanTurn, map_shards, Enter, EngineStep, SlotStep
    <2>2. IInv
      BY <2>1 DEF MapInv, ReturnedEmpty, Task
    <2>3. i \in Index /\ task[i] \in InFlight /\ pc # "aborted"
      BY <2>1, <2>2, TaskIndex DEF Visit, InFlight, IInv
    <2>4. pc \in OnThreads \cup {"execute"}
      BY <2>2, <2>3, EndsInside DEF NoTaskOutlivesTheCall
    <2> QED
      BY <2>4 DEF Working, OnExecutor
  <1> QED
    BY <1>1, MapInvariance, PTL DEF MapSpec, RegionIsQuietAfterTheCall
=============================================================================
