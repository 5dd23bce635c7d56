-------------------------- MODULE PlannedCutsProofs --------------------------
(***************************************************************************)
(* Cutting a region on one thread, for every word size, every region of at *)
(* most isize::MAX cells and every plan: the shards tile the region, the   *)
(* iterator of WriterShard::chunks hands out the ranges of ParChunks, its  *)
(* size hint is exact, and the descriptors of a queue tile the queue.      *)
(***************************************************************************)
EXTENDS PlannedCuts, TilingProofs

(* The plan is resolved for the region.                                    *)
Resolved ==
    /\ len \in 0 .. IsizeMax
    /\ plan \in Plans
    /\ reported \in 1 .. 2
    /\ chunk \in 0 .. UsizeMax

(* How far the iterator is: it has handed out the first y shards, and what *)
(* it still has starts where the next one does.  It has handed out no more *)
(* than there are, and all of them when it has nothing left to give.       *)
Progress ==
    LET y == Len(yielded) IN
    /\ begun \in BOOLEAN /\ ended \in BOOLEAN
    /\ yielded \in Seq(Nat \X Nat)
    /\ ~begun => rest = None /\ y = 0 /\ ~ended
    /\ begun => /\ chunk # 0
                /\ rest \in {None, <<Least(y * chunk, len), len>>}
                /\ y <= partition_count(len, chunk)
    /\ begun /\ rest = None => ended
    /\ ended => y = partition_count(len, chunk)
    /\ \A k \in 1 .. y : yielded[k] = range(len, chunk, k - 1)

CutInv == Resolved /\ Progress /\ QueueInv

----------------------------------------------------------------------------
(* Every plan of the constructors is well-formed.                          *)
LEMMA PlansAreWellFormed ==
    ASSUME NEW p \in Plans
    PROVE  WellFormed(p)
  <1> USE UsizeAssumption, ParameterAssumption
  <1>1. CASE \E k \in 0 .. MaxParameter : p = Parts(k)
    BY <1>1 DEF Parts, AtLeastOne, WellFormed, Usize
  <1>2. CASE \E k \in 0 .. MaxParameter : p = ChunkSize(k)
    BY <1>2 DEF ChunkSize, AtLeastOne, WellFormed, Usize
  <1>3. CASE p = AvailableParallelism
    BY <1>3 DEF AvailableParallelism, WellFormed
  <1> QED
    BY <1>1, <1>2, <1>3 DEF Plans

(* What is known of the numbers once a plan is resolved.                   *)
LEMMA ResolvedNumbers ==
    ASSUME Resolved
    PROVE  /\ len \in Nat /\ chunk \in Nat /\ len <= UsizeMax
           /\ chunk # 0 => chunk \in 1 .. UsizeMax
           /\ reported \in 1 .. UsizeMax
           /\ WellFormed(plan)
  BY UsizeAssumption, ParameterAssumption, DivBounds, PlansAreWellFormed
     DEF Resolved, IsizeMax, Usize

(* A resolved plan has a chunk, and it is not zero.                        *)
LEMMA Resolving ==
    ASSUME Resolved, Resolve
    PROVE  Resolved' /\ chunk' = chunk_len_for(plan, len, reported) /\ chunk' # 0
  <1>1. chunk_len_for(plan, len, reported) \in 1 .. UsizeMax
    BY ResolvedNumbers, PlanChunk
  <1> QED
    BY <1>1, UsizeAssumption DEF Resolved, Resolve

----------------------------------------------------------------------------
(* The iterator.                                                           *)

(* The shard after the first y is the range of index y.                    *)
LEMMA NextRange ==
    ASSUME Resolved, chunk # 0, NEW y \in Nat, y * chunk < len
    PROVE  /\ y < partition_count(len, chunk)
           /\ partition_count(len, chunk) \in Nat
           /\ y * chunk \in Nat
           /\ (y + 1) * chunk = y * chunk + chunk
           /\ range(len, chunk, y) = <<y * chunk, Least(y * chunk + chunk, len)>>
  <1>1. len \in Nat /\ chunk \in Nat \ {0} /\ chunk \in 1 .. UsizeMax
    BY ResolvedNumbers
  <1>2. y * chunk \in Nat
    BY <1>1, CountIsCeiling
  <1>3. y < partition_count(len, chunk)
    BY <1>1, CountAtLeast
  <1>4. partition_count(len, chunk) \in Nat
    BY <1>1, CountIsNat
  <1>5. y \in Shards(len, chunk)
    BY <1>3, <1>4 DEF Shards
  <1>6. len \in 0 .. IsizeMax
    BY DEF Resolved
  <1>7. wrap(y * chunk) = y * chunk /\ wrap(y * chunk + chunk) = y * chunk + chunk
    BY <1>1, <1>5, <1>6, NoWrap
  <1>8. Least(y * chunk, len) = y * chunk
    BY <1>1, <1>2 DEF Least
  <1>9. range(len, chunk, y) = <<y * chunk, Least(y * chunk + chunk, len)>>
    BY <1>7, <1>8 DEF range
  <1>10. (y + 1) * chunk = y * chunk + chunk
    BY <1>1
  <1> QED
    BY <1>2, <1>3, <1>4, <1>9, <1>10

(* What is left when y shards are out.                                     *)
LEMMA WhatRemains ==
    ASSUME Resolved, Progress, begun
    PROVE  LET y == Len(yielded) IN
           /\ y \in Nat /\ y * chunk \in Nat
           /\ Remaining = len - Least(y * chunk, len)
           /\ Remaining = 0 <=> len <= y * chunk
           /\ Remaining > 0 => rest = <<y * chunk, len>>
  <1> DEFINE y == Len(yielded)
             z == y * chunk
  <1>1. len \in Nat /\ chunk \in Nat \ {0} /\ y \in Nat
    BY ResolvedNumbers DEF Progress
  <1>2. z \in Nat
    BY <1>1, CountIsCeiling
  <1>3. rest \in {None, <<Least(z, len), len>>} /\ (rest = None => ended)
    BY DEF Progress
  <1>4. ended => y = partition_count(len, chunk)
    BY DEF Progress
  <1>5. CASE rest = None
    <2>1. len <= z
      <3>1. CASE len = 0
        BY <1>2, <3>1
      <3>2. CASE len \in Nat \ {0}
        <4>1. len <= partition_count(len, chunk) * chunk
          BY <1>1, <3>2, CountIsCeiling
        <4> QED
          BY <1>3, <1>4, <1>5, <4>1
      <3> QED BY <1>1, <3>1, <3>2
    <2>2. Remaining = 0
      BY <1>5 DEF Remaining
    <2> HIDE DEF z
    <2>3. Least(z, len) = len
      BY <1>1, <1>2, <2>1 DEF Least
    <2> QED
      BY <1>1, <1>2, <2>1, <2>2, <2>3 DEF z
  <1>6. CASE rest # None
    <2> HIDE DEF z
    <2>1. rest = <<Least(z, len), len>>
      BY <1>3, <1>6
    <2>2. Remaining = len - Least(z, len)
      BY <1>6, <2>1 DEF Remaining
    <2> QED
      BY <1>1, <1>2, <2>1, <2>2 DEF Least, z
  <1> QED
    BY <1>5, <1>6

(* next of the shard iterator, when a shard is left.                       *)
LEMMA ShardHandedOut ==
    ASSUME Resolved, Progress, NextShard
    PROVE  Progress'
  <1> DEFINE y == Len(yielded)
  <1>1. begun /\ ~(rest = None) /\ Remaining > 0
    <2>1. Remaining > 0
      BY DEF NextShard
    <2> QED
      BY <2>1 DEF Progress, Remaining
  <1>2. /\ len \in Nat /\ chunk \in Nat \ {0} /\ y \in Nat
        /\ begun \in BOOLEAN /\ ended \in BOOLEAN
        /\ yielded \in Seq(Nat \X Nat)
    BY <1>1, ResolvedNumbers DEF Progress
  <1>3. /\ y * chunk \in Nat /\ y * chunk < len
        /\ Remaining = len - Least(y * chunk, len)
        /\ rest = <<y * chunk, len>>
    BY <1>1, <1>2, WhatRemains
  <1>4. /\ y < partition_count(len, chunk)
        /\ partition_count(len, chunk) \in Nat
        /\ (y + 1) * chunk = y * chunk + chunk
        /\ range(len, chunk, y) = <<y * chunk, Least(y * chunk + chunk, len)>>
    BY <1>1, <1>2, <1>3, NextRange DEF Progress
  <1> DEFINE z == y * chunk
  <1>5. rest[1] + Mid = Least(z + chunk, len)
    <2> HIDE DEF z
    <2>1. z \in Nat /\ z < len /\ Remaining = len - Least(z, len) /\ rest[1] = z
      BY <1>3 DEF z
    <2> QED
      BY <1>2, <2>1 DEF Mid, Least
  <1>6. Least(z + chunk, len) \in Nat
    BY <1>2, <1>3 DEF Least
  <1>7. /\ yielded' = Append(yielded, range(len, chunk, y))
        /\ rest' = <<Least(z + chunk, len), len>>
        /\ begun' = begun /\ ended' = ended /\ len' = len /\ chunk' = chunk
    BY <1>3, <1>4, <1>5 DEF NextShard, vars
  <1>8. range(len, chunk, y) \in Nat \X Nat
    BY <1>3, <1>4, <1>6
  <1>9. /\ yielded' \in Seq(Nat \X Nat) /\ Len(yielded') = y + 1
        /\ yielded'[y + 1] = range(len, chunk, y)
        /\ \A k \in 1 .. y : yielded'[k] = yielded[k]
    BY <1>2, <1>7, <1>8, AppendProperties
  <1>10. rest' = <<Least((y + 1) * chunk, len), len>>
    BY <1>4, <1>7
  <1>11. ~ended
    <2>1. y # partition_count(len, chunk)
      BY <1>2, <1>4
    <2> QED
      BY <2>1 DEF Progress
  <1>12. y + 1 <= partition_count(len, chunk)
    BY <1>2, <1>4
  <1>13. \A k \in 1 .. y + 1 : yielded'[k] = range(len, chunk, k - 1)
    <2>1. \A k \in 1 .. y : yielded'[k] = range(len, chunk, k - 1)
      BY <1>9 DEF Progress
    <2>2. ASSUME NEW k \in 1 .. y + 1
          PROVE  yielded'[k] = range(len, chunk, k - 1)
      <3>1. CASE k \in 1 .. y
        BY <2>1, <3>1
      <3>2. CASE k = y + 1
        <4>1. k - 1 = y
          BY <1>2, <3>2
        <4> QED
          BY <1>9, <3>2, <4>1
      <3> QED
        BY <1>2, <3>1, <3>2
    <2> QED
      BY <2>2
  <1>14. rest' # None
    BY <1>7 DEF None
  <1> HIDE DEF y, z
  <1> QED
    BY <1>1, <1>2, <1>7, <1>9, <1>10, <1>11, <1>12, <1>13, <1>14 DEF Progress, None

(* next of the shard iterator, when none is.                               *)
LEMMA NothingLeft ==
    ASSUME Resolved, Progress, NextNone
    PROVE  Progress'
  <1> DEFINE y == Len(yielded)
  <1>1. /\ len \in Nat /\ chunk \in Nat \ {0} /\ y \in Nat /\ begun
    BY ResolvedNumbers DEF Progress, NextNone
  <1>2. len <= y * chunk
    BY <1>1, WhatRemains DEF NextNone
  <1>3. partition_count(len, chunk) <= y
    BY <1>1, <1>2, CountAtMost
  <1>4. y <= partition_count(len, chunk)
    BY <1>1 DEF Progress
  <1>5. partition_count(len, chunk) \in Nat
    BY <1>1, CountIsNat
  <1>6. y = partition_count(len, chunk)
    BY <1>1, <1>3, <1>4, <1>5
  <1> HIDE DEF y
  <1> QED
    BY <1>1, <1>4, <1>6 DEF Progress, NextNone, vars, None, y

(* The iterator starts with the whole region.                              *)
LEMMA IterationStarts ==
    ASSUME Resolved, Progress, chunks
    PROVE  Progress'
  <1>1. /\ len \in Nat /\ chunk \in Nat \ {0} /\ Len(yielded) = 0 /\ ~ended
    BY ResolvedNumbers DEF Progress, chunks
  <1>2. 0 * chunk = 0 /\ Least(0, len) = 0
    BY <1>1 DEF Least
  <1>3. partition_count(len, chunk) \in Nat
    BY <1>1, CountIsNat
  <1>4. /\ yielded' = yielded /\ ended' = ended /\ begun' = TRUE
        /\ rest' = <<0, len>> /\ len' = len /\ chunk' = chunk
    BY DEF chunks, vars
  <1>5. rest' = <<Least(Len(yielded') * chunk', len'), len'>> /\ rest' # None
    BY <1>1, <1>2, <1>4 DEF None
  <1> QED
    BY <1>1, <1>3, <1>4, <1>5 DEF Progress

----------------------------------------------------------------------------
(* The initial states: every region and every plan.                        *)
LEMMA CutStarts == CutInit => CutInv
  <1> SUFFICES ASSUME CutInit
               PROVE  CutInv
    OBVIOUS
  <1>1. Resolved
    BY UsizeAssumption, RegionAssumption, DivBounds
       DEF CutInit, ChunksInit, Init, Resolved, IsizeMax
  <1>2. Progress
    <2>1. begun = FALSE /\ ended = FALSE /\ rest = None /\ yielded = << >>
      BY DEF CutInit, ChunksInit
    <2>2. yielded \in Seq(Nat \X Nat) /\ Len(yielded) = 0
      BY <2>1, EmptySeq
    <2>3. \A k \in 1 .. Len(yielded) : yielded[k] = range(len, chunk, k - 1)
      BY <2>2
    <2> QED
      BY <2>1, <2>2, <2>3, Zenon DEF Progress
  <1>3. QueueInv
    BY PlanStarts DEF CutInit
  <1> QED
    BY <1>1, <1>2, <1>3 DEF CutInv

(* Every step of the two loops.                                            *)
LEMMA CutStep == CutInv /\ [CutNext]_cutVars => CutInv'
  <1> SUFFICES ASSUME CutInv, [CutNext]_cutVars
               PROVE  CutInv'
    OBVIOUS
  <1>1. ASSUME UNCHANGED planVars
        PROVE  QueueInv'
    BY <1>1 DEF CutInv, QueueInv, Planned, Tiles, Fits, SegmentLen, total_len, planVars
  <1>2. ASSUME UNCHANGED chunksVars
        PROVE  Resolved' /\ Progress'
    BY <1>2 DEF CutInv, Resolved, Progress, chunksVars, vars, iterVars
  <1>3. CASE CutSlice
    <2>1. CASE Plan
      <3>1. ~begun /\ Resolved'
        BY <2>1, Resolving DEF CutInv, Plan, Resolve, Progress
      <3> QED
        BY <1>1, <1>3, <2>1, <3>1 DEF CutInv, CutSlice, Plan, Progress, iterVars
    <2>2. ASSUME UNCHANGED vars
          PROVE  Resolved'
      BY <2>2 DEF CutInv, Resolved, vars
    <2>3. CASE chunks
      BY <1>1, <1>3, <2>2, <2>3, IterationStarts DEF CutInv, CutSlice, chunks
    <2>4. CASE NextShard
      BY <1>1, <1>3, <2>2, <2>4, ShardHandedOut DEF CutInv, CutSlice, NextShard
    <2>5. CASE NextNone
      BY <1>1, <1>3, <2>2, <2>5, NothingLeft DEF CutInv, CutSlice, NextNone
    <2> QED
      BY <1>3, <2>1, <2>3, <2>4, <2>5 DEF CutSlice
  <1>4. CASE CutQueue
    <2>1. CASE PushShards
      BY <1>2, <1>4, <2>1, TurnKeepsTiling DEF CutInv, CutQueue
    <2>2. ASSUME NEW front \in 0 .. len, chunk_len = 0,
                 from_lengths(front, len - front, plan, reported)
          PROVE  QueueInv'
      <3>1. /\ front \in Nat /\ len - front \in Nat /\ front + (len - front) <= IsizeMax
            /\ WellFormed(plan) /\ reported \in 1 .. UsizeMax
        BY ResolvedNumbers, UsizeAssumption, DivBounds DEF CutInv, Resolved, IsizeMax
      <3> QED
        BY <2>2, <3>1, FromLengths DEF CutInv
    <2> QED
      BY <1>2, <1>4, <2>1, <2>2 DEF CutInv, CutQueue
  <1>5. CASE UNCHANGED cutVars
    BY <1>1, <1>2, <1>5 DEF CutInv, cutVars
  <1> QED
    BY <1>3, <1>4, <1>5 DEF CutNext

(* The invariant of the two ways of cutting, for every region and plan.    *)
THEOREM CutInvariance == CutSpec => []CutInv
  BY CutStarts, CutStep, PTL DEF CutSpec

(* Whatever the region (of at most isize::MAX cells) and the plan, the     *)
(* shards the drivers cut are in bounds and non-empty: the contract        *)
(* get_unchecked_chunk relies on.                                          *)
THEOREM PlansCutInBounds == CutSpec => []ShardsInBounds
  <1>1. CutInv => ShardsInBounds
    BY ResolvedNumbers, ShardsAreInBounds DEF CutInv, Resolved, ShardsInBounds
  <1> QED
    BY <1>1, CutInvariance, PTL

(* They share no cell, and together they are the region.                   *)
THEOREM PlansTileTheRegion == CutSpec => []ShardsTileTheRegion
  <1>1. CutInv => ShardsTileTheRegion
    BY ResolvedNumbers, ShardsAreDisjoint, ShardsCover
       DEF CutInv, Resolved, ShardsTileTheRegion
  <1> QED
    BY <1>1, CutInvariance, PTL

(* The read driver and the write driver cut the same shards and pass the   *)
(* same start index.                                                       *)
THEOREM DriversCutAlike == CutSpec => []DriversAgree
  <1>1. CutInv => DriversAgree
    BY ResolvedNumbers, StartsAreAgreed DEF CutInv, Resolved, DriversAgree
  <1> QED
    BY <1>1, CutInvariance, PTL

(* The iterator hands out the ranges of ParChunks, all of them and no      *)
(* more.                                                                   *)
THEOREM ChunksMatchParChunks == CutSpec => []MatchesParChunks
  <1>1. CutInv => MatchesParChunks
    BY DEF CutInv, Progress, MatchesParChunks
  <1> QED
    BY <1>1, CutInvariance, PTL

(* The shards of what is left are the shards not handed out yet.           *)
LEMMA HintIsExact ==
    ASSUME Resolved, Progress, begun
    PROVE  Len(yielded) + size_hint = partition_count(len, chunk)
  <1> DEFINE y == Len(yielded)
             z == y * chunk
             c == partition_count(len, chunk)
  <1>1. len \in Nat /\ chunk \in Nat \ {0} /\ y \in Nat /\ y <= c
    BY ResolvedNumbers DEF Progress
  <1>2. c \in Nat
    BY <1>1, CountIsNat
  <1>3. /\ z \in Nat
        /\ Remaining = len - Least(z, len)
        /\ Remaining = 0 <=> len <= z
    BY WhatRemains
  <1>4. CASE len <= z
    <2>1. c <= y
      BY <1>1, <1>4, CountAtMost
    <2>2. size_hint = 0
      BY <1>3, <1>4 DEF size_hint, partition_count
    <2> HIDE DEF c, y
    <2> QED
      BY <1>1, <1>2, <2>1, <2>2 DEF c, y
  <1>5. CASE z < len
    <2> DEFINE r == len - z
               d == c - y
    <2>1. Remaining = r /\ r \in Nat \ {0}
      <3> HIDE DEF z
      <3> QED BY <1>1, <1>3, <1>5 DEF Least
    <2>2. len \in Nat \ {0}
      BY <1>1, <1>3, <1>5
    <2>3. (c - 1) * chunk <= len - 1 /\ len <= c * chunk
      BY <1>1, <2>2, CountIsCeiling
    <2>4. y < c
      BY <1>1, <1>5, CountAtLeast
    <2> HIDE DEF c, y
    <2>5. d \in Nat \ {0}
      BY <1>1, <1>2, <2>4
    <2>6. d * chunk = c * chunk - z /\ (d - 1) * chunk = (c - 1) * chunk - z
      BY <1>1, <1>2
    <2>7. c * chunk \in Int /\ (c - 1) * chunk \in Int
      BY <1>1, <1>2
    <2>8. r <= d * chunk /\ (d - 1) * chunk < r
      <3> HIDE DEF z
      <3> QED BY <1>1, <1>3, <2>3, <2>6, <2>7
    <2>9. partition_count(r, chunk) <= d
      BY <1>1, <2>1, <2>5, <2>8, CountAtMost
    <2>10. d - 1 < partition_count(r, chunk)
      BY <1>1, <2>1, <2>5, <2>8, CountAtLeast
    <2>11. partition_count(r, chunk) \in Nat
      BY <1>1, <2>1, CountIsNat
    <2>12. partition_count(r, chunk) = d
      BY <2>5, <2>9, <2>10, <2>11
    <2> QED
      BY <1>1, <1>2, <2>1, <2>12 DEF size_hint, c, y
  <1> QED
    BY <1>1, <1>3, <1>4, <1>5

(* ExactSizeIterator::len is right at every moment of the iteration.       *)
THEOREM SizeHintExact == CutSpec => []SizeHintIsExact
  <1>1. CutInv => SizeHintIsExact
    BY HintIsExact DEF CutInv, SizeHintIsExact
  <1> QED
    BY <1>1, CutInvariance, PTL

(* Parts(n) resolves to at most n shards, and to the smallest chunk that   *)
(* does.                                                                   *)
THEOREM PartsBound == CutSpec => PartsBoundsTheShards
  <1>1. CutInv /\ [CutNext]_cutVars => [PartsIsAnUpperBound]_vars
    <2> SUFFICES ASSUME CutInv, [CutNext]_cutVars, vars' # vars
                 PROVE  PartsIsAnUpperBound
      OBVIOUS
    <2>1. Resolve
      BY DEF CutNext, CutSlice, CutQueue, Plan, chunks, NextShard, NextNone,
             cutVars, chunksVars
    <2>2. chunk' = chunk_len_for(plan, len, reported) /\ chunk' \in 1 .. UsizeMax
      BY <2>1, Resolving, UsizeAssumption DEF CutInv, Resolved
    <2>3. ASSUME plan.kind = "Parts"
          PROVE  /\ partition_count(len, chunk') <= plan.n
                 /\ chunk' > 1 => partition_count(len, chunk' - 1) > plan.n
      <3>1. len \in Nat /\ plan.n \in Nat \ {0}
        BY <2>3, ResolvedNumbers DEF CutInv, WellFormed
      <3>2. chunk' = chunk_for_parts(len, plan.n)
        BY <2>2, <2>3 DEF chunk_len_for
      <3> QED
        BY <3>1, <3>2, PartsAreBounded
    <2> QED
      BY <2>2, <2>3 DEF PartsIsAnUpperBound
  <1> QED
    BY <1>1, CutInvariance, PTL DEF CutSpec, PartsBoundsTheShards

(* Each descriptor of a queue is a non-empty part of one of its segments:  *)
(* what with_shard_mut forms a &mut slice from.                            *)
THEOREM QueueShardsInBounds == CutSpec => []DescriptorsInBounds
  <1>1. CutInv => DescriptorsInBounds
    BY TilesAreDescriptors DEF CutInv
  <1> QED
    BY <1>1, CutInvariance, PTL

(* The descriptors follow each other without gap or overlap, across the    *)
(* wrap of the storage too.                                                *)
THEOREM QueueShardsTile == CutSpec => []DescriptorsTile
  <1>1. CutInv => DescriptorsTile
    BY TilesAreDescriptors DEF CutInv
  <1> QED
    BY <1>1, CutInvariance, PTL
=============================================================================
