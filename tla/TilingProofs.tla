---------------------------- MODULE TilingProofs ----------------------------
(***************************************************************************)
(* The shards of a region tile it, for every chunk size and every region   *)
(* of at most isize::MAX cells: the bound of a Rust slice whose elements   *)
(* are not zero-sized.  (Beyond it the wrapping sum in ParChunks::range    *)
(* breaks InBounds, see run tiling_zst.)                                   *)
(***************************************************************************)
EXTENDS DequePlan, SequenceTheorems, TLAPS

(* The two bounds that characterise the quotient of a division.            *)
LEMMA DivBounds ==
    ASSUME NEW a \in Nat, NEW b \in Nat \ {0}
    PROVE  /\ a \div b \in Nat
           /\ (a \div b) * b <= a
           /\ a < ((a \div b) + 1) * b
  OBVIOUS

(* Multiplying by a natural number keeps the order.                        *)
LEMMA TimesMonotone ==
    ASSUME NEW a \in Int, NEW b \in Int, NEW c \in Nat, a <= b
    PROVE  a * c <= b * c
  OBVIOUS

(* partition_count is the ceiling of n / c.                                *)
LEMMA CountIsCeiling ==
    ASSUME NEW n \in Nat \ {0}, NEW c \in Nat \ {0}
    PROVE  /\ partition_count(n, c) \in Nat \ {0}
           /\ (partition_count(n, c) - 1) * c <= n - 1
           /\ n <= partition_count(n, c) * c
  <1> DEFINE q == (n - 1) \div c
  <1>1. /\ q \in Nat
        /\ q * c <= n - 1
        /\ n - 1 < (q + 1) * c
    BY DivBounds
  <1>2. partition_count(n, c) = q + 1
    BY <1>1 DEF partition_count
  <1>3. (q + 1) * c \in Int
    BY <1>1
  <1> QED
    BY <1>1, <1>2, <1>3

(* The count of shards is a number.                                        *)
LEMMA CountIsNat ==
    ASSUME NEW n \in Nat, NEW c \in Nat \ {0}
    PROVE  partition_count(n, c) \in Nat
  <1>1. CASE n = 0
    BY <1>1 DEF partition_count
  <1>2. CASE n \in Nat \ {0}
    BY <1>2, CountIsCeiling
  <1> QED
    BY <1>1, <1>2

(* The start of an existing shard is inside the region, and the sum that   *)
(* computes its end does not wrap.                                         *)
LEMMA NoWrap ==
    ASSUME NEW n \in 0 .. IsizeMax, NEW c \in 1 .. UsizeMax,
           NEW i \in Shards(n, c)
    PROVE  /\ n > 0
           /\ i \in Nat
           /\ i * c \in 0 .. n - 1
           /\ wrap(i * c) = i * c
           /\ wrap(i * c + c) = i * c + c
  <1> USE UsizeAssumption
  <1>1. n \in Nat /\ c \in Nat \ {0} /\ 2 * n <= UsizeMax
    BY DivBounds DEF IsizeMax
  <1>2. n > 0 /\ i \in Nat
    BY <1>1 DEF Shards, partition_count
  <1> DEFINE last == partition_count(n, c) - 1
  <1>3. i <= last /\ last \in Nat /\ last * c <= n - 1
    BY <1>1, <1>2, CountIsCeiling DEF Shards
  <1> HIDE DEF last
  <1>4. i * c <= last * c
    BY <1>1, <1>2, <1>3, TimesMonotone
  <1>5. i * c \in Nat /\ i * c <= n - 1
    BY <1>1, <1>2, <1>3, <1>4
  <1>6. i * c + c <= UsizeMax
    <2>1. CASE i = 0
      BY <2>1
    <2>2. CASE i >= 1
      <3>1. 1 * c <= i * c
        BY <1>1, <1>2, <2>2, TimesMonotone
      <3> QED
        BY <1>1, <1>5, <3>1
    <2> QED
      BY <1>2, <2>1, <2>2
  <1>7. \A x \in Nat : x <= UsizeMax => x % (UsizeMax + 1) = x
    OBVIOUS
  <1>8. wrap(i * c) = i * c
    BY <1>1, <1>5, <1>7 DEF wrap
  <1>9. wrap(i * c + c) = i * c + c
    BY <1>1, <1>5, <1>6, <1>7 DEF wrap
  <1> QED
    BY <1>1, <1>2, <1>5, <1>8, <1>9

(* The range of an existing shard, with the wrapping and the clamping of   *)
(* the start gone.                                                         *)
LEMMA RangeIs ==
    ASSUME NEW n \in 0 .. IsizeMax, NEW c \in 1 .. UsizeMax,
           NEW i \in Shards(n, c)
    PROVE  /\ range(n, c, i)[1] = i * c
           /\ range(n, c, i)[2] = Least(i * c + c, n)
  <1>1. Least(i * c, n) = i * c
    BY NoWrap, UsizeAssumption, DivBounds DEF Least, IsizeMax
  <1> QED
    BY <1>1, NoWrap DEF range

(* Every shard that ParChunks::len announces is non-empty and inside the   *)
(* region, so get_unchecked_chunk never forms a slice out of bounds.       *)
THEOREM ShardsAreInBounds ==
    ASSUME NEW n \in 0 .. IsizeMax, NEW c \in 1 .. UsizeMax
    PROVE  InBounds(n, c)
  <1> SUFFICES ASSUME NEW i \in Shards(n, c)
               PROVE  /\ 0 <= range(n, c, i)[1]
                      /\ range(n, c, i)[1] < range(n, c, i)[2]
                      /\ range(n, c, i)[2] <= n
    BY DEF InBounds
  <1>1. n \in Nat /\ c \in Nat \ {0}
    BY UsizeAssumption, DivBounds DEF IsizeMax
  <1>2. i * c \in 0 .. n - 1
    BY NoWrap
  <1> QED
    BY <1>1, <1>2, RangeIs DEF Least

(* Shards of distinct indices never overlap: concurrent tasks cannot hold  *)
(* aliasing &mut slices of the region.                                     *)
THEOREM ShardsAreDisjoint ==
    ASSUME NEW n \in 0 .. IsizeMax, NEW c \in 1 .. UsizeMax
    PROVE  Disjoint(n, c)
  <1> SUFFICES ASSUME NEW i \in Shards(n, c),
                      NEW j \in Shards(n, c), i < j
               PROVE  range(n, c, i)[2] <= range(n, c, j)[1]
    BY DEF Disjoint
  <1>1. n \in Nat /\ c \in Nat \ {0}
    BY UsizeAssumption, DivBounds DEF IsizeMax
  <1>2. i \in Nat /\ j \in Nat /\ i + 1 <= j
    BY NoWrap
  <1>3. (i + 1) * c <= j * c
    BY <1>1, <1>2, TimesMonotone
  <1>4. i * c + c <= j * c
    BY <1>1, <1>2, <1>3
  <1>5. Least(i * c + c, n) <= i * c + c
    BY <1>1, <1>2 DEF Least
  <1>6. i * c \in Int /\ j * c \in Int
    BY <1>1, <1>2
  <1>7. Least(i * c + c, n) \in Int
    BY <1>1, <1>6 DEF Least
  <1>8. range(n, c, i)[2] = Least(i * c + c, n)
    BY RangeIs
  <1>9. range(n, c, j)[1] = j * c
    BY RangeIs
  <1> QED
    BY <1>1, <1>4, <1>5, <1>6, <1>7, <1>8, <1>9

(* No cell is forgotten: cell x belongs to shard x \div c.                 *)
THEOREM ShardsCover ==
    ASSUME NEW n \in 0 .. IsizeMax, NEW c \in 1 .. UsizeMax
    PROVE  Covers(n, c)
  <1> SUFFICES ASSUME NEW x \in 0 .. n - 1
               PROVE  \E i \in Shards(n, c) :
                          x \in Cells(range(n, c, i))
    BY DEF Covers
  <1> DEFINE i == x \div c
  <1>1. n \in Nat \ {0} /\ c \in Nat \ {0} /\ x \in Nat
    BY UsizeAssumption, DivBounds DEF IsizeMax
  <1>2. i \in Nat /\ i * c <= x /\ x < (i + 1) * c
    BY <1>1, DivBounds
  <1>3. i \in Shards(n, c)
    <2> DEFINE m == partition_count(n, c)
    <2>1. m \in Nat \ {0} /\ n <= m * c
      BY <1>1, CountIsCeiling
    <2>2. CASE i >= m
      <3>1. m * c <= i * c
        BY <1>1, <1>2, <2>1, <2>2, TimesMonotone
      <3>2. m * c \in Int /\ i * c \in Int
        BY <1>1, <1>2, <2>1
      <3>3. FALSE
        <4> HIDE DEF m, i
        <4> QED BY <1>1, <1>2, <2>1, <3>1, <3>2
      <3> QED BY <3>3
    <2> QED
      BY <1>2, <2>1, <2>2 DEF Shards
  <1>4. x < Least(i * c + c, n)
    <2>1. (i + 1) * c = i * c + c
      BY <1>1, <1>2
    <2> HIDE DEF i
    <2> QED
      BY <1>1, <1>2, <2>1 DEF Least
  <1>5. Least(i * c + c, n) \in Int /\ i * c \in Int
    <2> HIDE DEF i
    <2> QED BY <1>1, <1>2 DEF Least
  <1>6. x \in Cells(range(n, c, i))
    <2>1. /\ range(n, c, i)[1] = i * c
          /\ range(n, c, i)[2] = Least(i * c + c, n)
      BY <1>3, RangeIs
    <2> HIDE DEF i
    <2> QED
      BY <1>1, <1>2, <1>4, <1>5, <2>1 DEF Cells
  <1> QED
    BY <1>3, <1>6
----------------------------------------------------------------------------
(* A resolved chunk size is a usize of at least one.                       *)
LEMMA ResolvedChunk ==
    ASSUME NEW n \in 0 .. UsizeMax, NEW p \in Nat \ {0}, p <= UsizeMax
    PROVE  chunk_for_parts(n, p) \in 1 .. UsizeMax
  <1>1. CASE n = 0
    BY <1>1, UsizeAssumption DEF chunk_for_parts, partition_count, AtLeastOne
  <1>2. CASE n > 0
    <2> DEFINE q == (n - 1) \div p
    <2>1. q \in Nat /\ q * p <= n - 1
      BY <1>2, DivBounds
    <2>2. q <= n - 1
      <3>1. q * 1 <= q * p
        <4>1. 1 * q <= p * q
          BY <2>1, TimesMonotone
        <4> QED BY <2>1, <4>1
      <3> HIDE DEF q
      <3> QED BY <2>1, <3>1
    <2>3. chunk_for_parts(n, p) = 1 + q
      BY <1>2, <2>1 DEF chunk_for_parts, partition_count, AtLeastOne
    <2> HIDE DEF q
    <2> QED
      BY <1>2, <2>1, <2>2, <2>3, UsizeAssumption
  <1> QED
    BY <1>1, <1>2

(* A plan as the constructors build it: its argument is a usize of at      *)
(* least one, or it has none.                                              *)
WellFormed(p) ==
    \/ p.kind \in {"Parts", "ChunkSize"} /\ p.n \in 1 .. UsizeMax
    \/ p.kind = "AvailableParallelism"

(* The chunk size a plan resolves to.                                      *)
LEMMA PlanChunk ==
    ASSUME NEW n \in 0 .. UsizeMax, NEW p, WellFormed(p), NEW r \in 1 .. UsizeMax
    PROVE  chunk_len_for(p, n, r) \in 1 .. UsizeMax
  <1> USE UsizeAssumption
  <1>1. CASE p.kind = "Parts" /\ p.n \in 1 .. UsizeMax
    BY <1>1, ResolvedChunk DEF chunk_len_for
  <1>2. CASE p.kind = "ChunkSize" /\ p.n \in 1 .. UsizeMax
    BY <1>2 DEF chunk_len_for
  <1>3. CASE p.kind = "AvailableParallelism"
    BY <1>3, ResolvedChunk DEF chunk_len_for
  <1> QED
    BY <1>1, <1>2, <1>3 DEF WellFormed

(* A number of shards that is enough for the region is at least the count. *)
LEMMA CountAtMost ==
    ASSUME NEW n \in Nat, NEW c \in Nat \ {0}, NEW m \in Nat, n <= m * c
    PROVE  partition_count(n, c) <= m
  <1>1. CASE n = 0
    BY <1>1 DEF partition_count
  <1>2. CASE n > 0
    <2> DEFINE k == partition_count(n, c)
    <2>1. k \in Nat \ {0} /\ (k - 1) * c <= n - 1
      BY <1>2, CountIsCeiling
    <2> HIDE DEF k
    <2>2. CASE k >= m + 1
      <3>1. m * c <= (k - 1) * c
        BY <2>1, <2>2, TimesMonotone
      <3>2. m * c \in Int /\ (k - 1) * c \in Int
        BY <2>1
      <3> QED
        BY <1>2, <2>1, <3>1, <3>2
    <2> QED
      BY <2>1, <2>2 DEF k
  <1> QED
    BY <1>1, <1>2

(* One that all of which begin inside the region is at most the count.     *)
LEMMA CountAtLeast ==
    ASSUME NEW n \in Nat, NEW c \in Nat \ {0}, NEW m \in Nat, m * c < n
    PROVE  m < partition_count(n, c)
  <1>1. m * c \in Nat
    BY CountIsCeiling
  <1> DEFINE k == partition_count(n, c)
  <1>2. n \in Nat \ {0}
    BY <1>1
  <1>3. k \in Nat \ {0} /\ n <= k * c
    BY <1>2, CountIsCeiling
  <1> HIDE DEF k
  <1>4. CASE k <= m
    <2>1. k * c <= m * c
      BY <1>3, <1>4, TimesMonotone
    <2>2. k * c \in Int
      BY <1>3
    <2> QED
      BY <1>1, <1>3, <2>1, <2>2
  <1> QED
    BY <1>3, <1>4 DEF k

(* Parts(p) never makes more than p shards, and a smaller chunk would.     *)
THEOREM PartsAreBounded ==
    ASSUME NEW n \in Nat, NEW p \in Nat \ {0}
    PROVE  /\ chunk_for_parts(n, p) >= 1
           /\ partition_count(n, chunk_for_parts(n, p)) <= p
           /\ chunk_for_parts(n, p) > 1 =>
                 partition_count(n, chunk_for_parts(n, p) - 1) > p
  <1>1. CASE n = 0
    BY <1>1 DEF chunk_for_parts, partition_count, AtLeastOne
  <1>2. CASE n > 0
    <2> DEFINE c == partition_count(n, p)
    <2>1. c \in Nat \ {0} /\ (c - 1) * p <= n - 1 /\ n <= c * p
      BY <1>2, CountIsCeiling
    <2>2. chunk_for_parts(n, p) = c
      BY <2>1 DEF chunk_for_parts, AtLeastOne
    <2> HIDE DEF c
    <2>3. c * p = p * c /\ (c - 1) * p = p * (c - 1)
      BY <2>1
    <2>4. partition_count(n, c) <= p
      BY <2>1, <2>3, CountAtMost
    <2>5. ASSUME c > 1
          PROVE  partition_count(n, c - 1) > p
      <3>1. p * (c - 1) < n
        BY <1>2, <2>1, <2>3
      <3>2. c - 1 \in Nat \ {0} /\ n \in Nat \ {0}
        BY <1>2, <2>1, <2>5
      <3>3. p < partition_count(n, c - 1)
        BY <3>1, <3>2, CountAtLeast
      <3>4. partition_count(n, c - 1) \in Nat \ {0}
        BY ONLY <3>2, CountIsCeiling
      <3> QED
        BY <3>3, <3>4
    <2> QED
      BY <2>1, <2>2, <2>4, <2>5
  <1> QED
    BY <1>1, <1>2

(* The read driver cuts the ranges of the write driver, and both pass the  *)
(* first cell of the shard as its start.                                   *)
THEOREM StartsAreAgreed ==
    ASSUME NEW n \in 0 .. IsizeMax, NEW c \in 1 .. UsizeMax
    PROVE  StartsAgree(n, c)
  <1> SUFFICES ASSUME NEW i \in Shards(n, c)
               PROVE  /\ range(n, c, i)[1] = wrap(i * c)
                      /\ read_range(n, c, i) = range(n, c, i)
    BY DEF StartsAgree
  <1>1. n \in Nat
    BY UsizeAssumption, DivBounds DEF IsizeMax
  <1>2. i * c \in 0 .. n - 1 /\ wrap(i * c) = i * c
    BY NoWrap
  <1>3. Least(wrap(i * c), n) = wrap(i * c)
    BY <1>1, <1>2 DEF Least
  <1>4. range(n, c, i)[1] = Least(wrap(i * c), n)
    BY DEF range
  <1> QED
    BY <1>3, <1>4 DEF range, read_range

----------------------------------------------------------------------------
(* The descriptors of a queue.                                             *)

Descriptors == [start : Nat, segment : {"Front", "Back"}, offset : Nat, len : Nat]

(* A descriptor lies in its segment, and its start is the logical position *)
(* of its first cell.                                                      *)
Fits(d) ==
    /\ d.len \in 1 .. chunk_len
    /\ d.offset + d.len <= SegmentLen(d.segment)
    /\ d.start = d.offset + (IF d.segment = "Front" THEN 0 ELSE front_len)

After(d) == d.start + d.len

(* The descriptors in s tile the logical positions 0 .. p-1.  That they    *)
(* are ascending and leave out no position does not follow from their      *)
(* being adjacent without an induction over s, and is therefore part of    *)
(* what every turn of the loop maintains.                                  *)
Tiles(s, p) ==
    /\ s \in Seq(Descriptors)
    /\ Len(s) <= p
    /\ p > 0 => Len(s) > 0 /\ After(s[Len(s)]) = p
    /\ \A k \in 1 .. Len(s) :
          /\ Fits(s[k])
          /\ After(s[k]) <= p
          /\ s[k].start = IF k = 1 THEN 0 ELSE After(s[k - 1])
    /\ \A j, k \in 1 .. Len(s) : j < k => After(s[j]) <= s[k].start
    /\ \A x \in 0 .. p - 1 : \E k \in 1 .. Len(s) : s[k].start <= x /\ x < After(s[k])

(* The types of the plan, and why the sum start + chunk_len does not wrap: *)
(* a chunk longer than the queue is used up in the first turn.             *)
Planned ==
    /\ front_len \in Nat /\ back_len \in Nat /\ total_len <= IsizeMax
    /\ chunk_len \in 0 .. UsizeMax
    /\ chunk_len = 0 => total_len = 0
    /\ start \in 0 .. total_len
    /\ start \in {0, total_len} \/ chunk_len <= start

QueueInv == Planned /\ Tiles(shards, start)

(* A descriptor that fits is pushed where the tiling ends.                 *)
LEMMA PushTiles ==
    ASSUME front_len \in Nat, back_len \in Nat, chunk_len \in Nat,
           NEW p \in Nat, NEW s, Tiles(s, p),
           NEW d \in Descriptors, Fits(d), d.start = p
    PROVE  Tiles(Append(s, d), p + d.len)
  <1> DEFINE t == Append(s, d)
             n == Len(s)
  <1>1. /\ s \in Seq(Descriptors) /\ n \in Nat
        /\ d.start \in Nat /\ d.len \in Nat /\ d.len >= 1 /\ d.offset \in Nat
    BY DEF Tiles, Descriptors, Fits
  <1>2. /\ t \in Seq(Descriptors) /\ Len(t) = n + 1 /\ t[n + 1] = d
        /\ \A k \in 1 .. n : t[k] = s[k]
    BY <1>1, AppendProperties
  <1>3. \A k \in 1 .. n : s[k] \in Descriptors
    BY <1>1
  <1>4. \A k \in 1 .. n : /\ s[k].start \in Nat /\ s[k].len \in Nat
                          /\ After(s[k]) \in Nat
    BY <1>3 DEF Descriptors, After
  <1>5. After(d) = p + d.len
    BY DEF After
  <1>6. /\ n <= p
        /\ p > 0 => n > 0 /\ After(s[n]) = p
        /\ \A k \in 1 .. n : /\ Fits(s[k])
                             /\ After(s[k]) <= p
                             /\ s[k].start = IF k = 1 THEN 0 ELSE After(s[k - 1])
        /\ \A j, k \in 1 .. n : j < k => After(s[j]) <= s[k].start
        /\ \A x \in 0 .. p - 1 : \E k \in 1 .. n : s[k].start <= x /\ x < After(s[k])
    BY DEF Tiles
  <1> HIDE DEF t, n
  <1>7. n + 1 <= p + d.len /\ n + 1 > 0 /\ After(t[n + 1]) = p + d.len
    BY <1>1, <1>2, <1>5, <1>6
  <1>8. ASSUME NEW k \in 1 .. n + 1
        PROVE  /\ Fits(t[k])
               /\ After(t[k]) <= p + d.len
               /\ t[k].start = IF k = 1 THEN 0 ELSE After(t[k - 1])
    <2>1. CASE k \in 1 .. n
      <3>1. t[k] = s[k] /\ (k # 1 => t[k - 1] = s[k - 1])
        BY <1>1, <1>2, <2>1
      <3>2. After(s[k]) <= p /\ After(s[k]) \in Nat
        BY <1>4, <1>6, <2>1
      <3> QED
        BY <1>1, <1>6, <2>1, <3>1, <3>2
    <2>2. CASE k = n + 1
      <3>1. t[k] = d
        BY <1>2, <2>2
      <3>2. CASE p = 0
        BY <1>1, <1>5, <1>6, <2>2, <3>1, <3>2
      <3>3. CASE p > 0
        <4>1. t[k - 1] = s[n] /\ k # 1
          BY <1>1, <1>2, <1>6, <2>2, <3>3
        <4> QED
          BY <1>1, <1>5, <1>6, <3>1, <3>3, <4>1
      <3> QED
        BY <3>2, <3>3
    <2> QED
      BY <1>1, <2>1, <2>2
  <1>9. ASSUME NEW j \in 1 .. n + 1, NEW k \in 1 .. n + 1, j < k
        PROVE  After(t[j]) <= t[k].start
    <2>1. j \in 1 .. n /\ t[j] = s[j]
      BY <1>1, <1>2, <1>9
    <2>2. CASE k \in 1 .. n
      BY <1>2, <1>6, <1>9, <2>1, <2>2
    <2>3. CASE k = n + 1
      BY <1>2, <1>6, <2>1, <2>3
    <2> QED
      BY <1>1, <2>2, <2>3
  <1>10. ASSUME NEW x \in 0 .. (p + d.len) - 1
         PROVE  \E k \in 1 .. n + 1 : t[k].start <= x /\ x < After(t[k])
    <2>1. CASE x < p
      <3>1. PICK k \in 1 .. n : s[k].start <= x /\ x < After(s[k])
        BY <1>1, <1>6, <2>1
      <3> QED
        BY <1>1, <1>2, <3>1
    <2>2. CASE x >= p
      BY <1>1, <1>2, <1>5, <2>2
    <2> QED
      BY <1>1, <2>1, <2>2
  <1> DEFINE q == p + d.len
  <1>11. /\ Len(t) <= q
         /\ q > 0 => Len(t) > 0 /\ After(t[Len(t)]) = q
    BY <1>2, <1>7
  <1>12. \A k \in 1 .. Len(t) : /\ Fits(t[k])
                                /\ After(t[k]) <= q
                                /\ t[k].start = IF k = 1 THEN 0 ELSE After(t[k - 1])
    BY <1>2, <1>8
  <1>13. \A j, k \in 1 .. Len(t) : j < k => After(t[j]) <= t[k].start
    BY <1>2, <1>9
  <1>14. \A x \in 0 .. q - 1 : \E k \in 1 .. Len(t) : t[k].start <= x /\ x < After(t[k])
    <2>1. Len(t) = n + 1
      BY <1>2
    <2> QED
      BY <1>10, <2>1, Zenon
  <1>15. Tiles(t, q)
    <2> HIDE DEF q
    <2> QED BY ONLY <1>2, <1>11, <1>12, <1>13, <1>14, Zenon DEF Tiles
  <1> QED
    BY <1>15 DEF t

(* The end of the logical shard of a turn: the sum does not wrap.          *)
LEMMA EndOfTurn ==
    ASSUME Planned, start < total_len
    PROVE  /\ end \in start + 1 .. total_len
           /\ end - start <= chunk_len
           /\ end = total_len \/ end = start + chunk_len
  <1> USE UsizeAssumption
  <1>1. /\ start \in Nat /\ total_len \in Nat /\ chunk_len \in Nat
        /\ chunk_len >= 1 /\ chunk_len <= UsizeMax
        /\ 2 * total_len <= UsizeMax
        /\ start = 0 \/ chunk_len <= start
    <2>1. IsizeMax \in Nat /\ IsizeMax * 2 <= UsizeMax
      BY DivBounds DEF IsizeMax
    <2> QED
      BY <2>1 DEF Planned, total_len
  <1>2. start + chunk_len <= UsizeMax
    BY <1>1
  <1>3. \A x \in Nat : x <= UsizeMax => x % (UsizeMax + 1) = x
    OBVIOUS
  <1>4. wrap(start + chunk_len) = start + chunk_len
    BY <1>1, <1>2, <1>3 DEF wrap
  <1> QED
    BY <1>1, <1>4 DEF end, Least

(* One turn of the loop: the part in the front segment and the part in the *)
(* back segment are pushed where they exist.                               *)
LEMMA TurnKeepsTiling ==
    ASSUME QueueInv, PushShards
    PROVE  QueueInv'
  <1>1. /\ front_len \in Nat /\ back_len \in Nat /\ start \in Nat
        /\ chunk_len \in Nat /\ total_len = front_len + back_len
        /\ start < total_len
    BY UsizeAssumption DEF QueueInv, Planned, PushShards, total_len
  <1>2. /\ end \in Nat /\ start < end /\ end <= total_len
        /\ end - start <= chunk_len
        /\ end = total_len \/ end = start + chunk_len
    BY <1>1, EndOfTurn DEF QueueInv
  <1>3. Planned'
    BY <1>1, <1>2, UsizeAssumption DEF QueueInv, Planned, PushShards, total_len
  <1> DEFINE mid == IF start < front_len THEN Least(end, front_len) ELSE start
  <1>4. /\ mid \in Nat /\ start <= mid /\ mid <= end
        /\ mid = IF end > front_len THEN Greatest(start, front_len) ELSE end
    BY <1>1, <1>2 DEF Least, Greatest
  <1>5. Tiles(WithFront, mid)
    <2>1. CASE start < front_len
      <3> DEFINE d == FrontShard
      <3>1. /\ d \in Descriptors /\ d.start = start /\ d.len = mid - start
            /\ d.len \in 1 .. chunk_len /\ d.offset = start /\ d.segment = "Front"
        BY <1>1, <1>2, <1>4, <2>1 DEF FrontShard, Descriptors, Least
      <3>2. start + d.len <= front_len
        BY <1>1, <1>2, <2>1, <3>1 DEF Least
      <3>3. Fits(d)
        BY <1>1, <3>1, <3>2 DEF Fits, SegmentLen
      <3> HIDE DEF d
      <3>4. Tiles(Append(shards, d), start + d.len)
        BY <1>1, <3>1, <3>3, PushTiles DEF QueueInv
      <3>5. start + d.len = mid
        BY <1>1, <1>4, <3>1
      <3> QED
        BY <2>1, <3>4, <3>5 DEF WithFront, d
    <2>2. CASE ~(start < front_len)
      BY <2>2 DEF WithFront, QueueInv
    <2> QED
      BY <2>1, <2>2
  <1>6. Tiles(WithBoth, end)
    <2>1. CASE end > front_len
      <3> DEFINE d == BackShard
      <3>1. /\ d \in Descriptors /\ d.start = mid /\ d.len = end - mid
            /\ d.len \in 1 .. chunk_len /\ d.offset = mid - front_len
            /\ d.segment = "Back" /\ mid >= front_len
        BY <1>1, <1>2, <1>4, <2>1 DEF BackShard, Descriptors, Greatest
      <3>2. d.offset + d.len <= back_len
        BY <1>1, <1>2, <1>4, <3>1
      <3>3. Fits(d)
        BY <1>1, <1>4, <3>1, <3>2 DEF Fits, SegmentLen
      <3> HIDE DEF d, mid
      <3>4. Tiles(Append(WithFront, d), mid + d.len)
        BY <1>1, <1>4, <1>5, <3>1, <3>3, PushTiles
      <3>5. mid + d.len = end
        BY <1>2, <1>4, <3>1
      <3> QED
        BY <2>1, <3>4, <3>5 DEF WithBoth, d
    <2>2. CASE ~(end > front_len)
      BY <1>4, <1>5, <2>2 DEF WithBoth
    <2> QED
      BY <2>1, <2>2
  <1>7. /\ shards' = WithBoth /\ start' = end
        /\ front_len' = front_len /\ back_len' = back_len /\ chunk_len' = chunk_len
    BY DEF PushShards
  <1>8. Tiles(shards, start)'
    BY <1>6, <1>7 DEF Tiles, Fits, SegmentLen
  <1> QED
    BY <1>3, <1>8 DEF QueueInv

(* The empty plan tiles nothing, before and after from_lengths.            *)
LEMMA EmptyPlan ==
    ASSUME NEW s, s = << >>
    PROVE  Tiles(s, 0)
  BY DEF Tiles

(* The planning loop before it starts.                                     *)
LEMMA PlanStarts ==
    ASSUME PlanInit
    PROVE  QueueInv
  <1>1. IsizeMax \in Nat
    BY UsizeAssumption, DivBounds DEF IsizeMax
  <1>2. Tiles(shards, start)
    BY EmptyPlan DEF PlanInit
  <1> QED
    BY <1>1, <1>2, UsizeAssumption DEF QueueInv, Planned, PlanInit, total_len

(* from_lengths sets the loop up for a region that wraps after f cells.    *)
LEMMA FromLengths ==
    ASSUME QueueInv, NEW f \in Nat, NEW b \in Nat, f + b <= IsizeMax,
           NEW p, WellFormed(p), NEW r \in 1 .. UsizeMax,
           chunk_len = 0, from_lengths(f, b, p, r)
    PROVE  QueueInv'
  <1>1. total_len = 0 /\ start = 0
    BY DEF QueueInv, Planned
  <1>2. Len(shards) = 0 /\ shards \in Seq(Descriptors)
    BY <1>1 DEF QueueInv, Tiles
  <1>3. shards' = << >> /\ start' = 0
    BY <1>1, <1>2 DEF from_lengths
  <1>4. f + b \in 0 .. UsizeMax
    BY UsizeAssumption, DivBounds DEF IsizeMax
  <1>5. chunk_len_for(p, f + b, r) \in 1 .. UsizeMax
    BY <1>4, PlanChunk
  <1>6. chunk_len' \in 1 .. UsizeMax
    BY <1>5, UsizeAssumption DEF from_lengths, AtLeastOne
  <1>7. Tiles(shards, start)'
    BY <1>3 DEF Tiles
  <1> QED
    BY <1>3, <1>6, <1>7, UsizeAssumption DEF QueueInv, Planned, total_len, from_lengths

(* What the invariant says to the callers of the plan.                     *)
LEMMA TilesAreDescriptors ==
    ASSUME QueueInv
    PROVE  DescriptorsInBounds /\ DescriptorsTile
  <1>1. /\ shards \in Seq(Descriptors) /\ Len(shards) \in Nat
        /\ start \in Nat
        /\ start > 0 => After(shards[Len(shards)]) = start
        /\ Len(shards) <= start
        /\ \A k \in 1 .. Len(shards) :
              /\ shards[k] \in Descriptors
              /\ Fits(shards[k])
              /\ shards[k].start = IF k = 1 THEN 0 ELSE After(shards[k - 1])
    BY DEF QueueInv, Planned, Tiles, total_len
  <1>2. DescriptorsInBounds
    BY <1>1 DEF DescriptorsInBounds, Fits, Descriptors
  <1>3. ASSUME NEW k \in 1 .. Len(shards)
        PROVE  /\ shards[k].start = shards[k].offset
                      + (IF shards[k].segment = "Front" THEN 0 ELSE front_len)
               /\ shards[k].start =
                     IF k = 1 THEN 0 ELSE shards[k - 1].start + shards[k - 1].len
               /\ k = Len(shards) => shards[k].start + shards[k].len = start
    <2>1. Fits(shards[k]) /\ shards[k].start = IF k = 1 THEN 0 ELSE After(shards[k - 1])
      BY <1>1
    <2>2. k = Len(shards) => After(shards[k]) = start
      BY <1>1
    <2> QED
      BY <2>1, <2>2 DEF Fits, After
  <1>4. DescriptorsTile
    BY <1>3 DEF DescriptorsTile
  <1> QED
    BY <1>2, <1>4
=============================================================================
