----------------------------- MODULE ShardChunks -----------------------------
(***************************************************************************)
(* WriterShard::chunks and the iterator it returns (region/chunks.rs),     *)
(* which hands out a region shard by shard on one thread, here with the    *)
(* chunk size a plan resolves to.  It is to agree with ParChunks           *)
(* (region/par_chunks.rs), whose ranges are computed from the index alone. *)
(***************************************************************************)
EXTENDS ShardPlan, Sequences

ASSUME RegionAssumption == MaxLen \in 0 .. IsizeMax

VARIABLES
    begun,     \* has chunks been called?
    rest,      \* Some of the cells not handed out, <<from, to>>, or None
    yielded,   \* the shards handed out, as ranges
    ended      \* has next returned None?

iterVars == <<begun, rest, yielded, ended>>
chunksVars == <<vars, iterVars>>

None == <<>>
Remaining == IF rest = None THEN 0 ELSE rest[2] - rest[1]

ChunksInit ==
    /\ Init
    /\ begun = FALSE
    /\ rest = None
    /\ yielded = << >>
    /\ ended = FALSE

Plan == Resolve /\ UNCHANGED iterVars

(* WriterShard::chunks(chunk_size), for a chunk size of at least one.      *)
chunks ==
    /\ chunk # 0
    /\ ~begun
    /\ begun' = TRUE
    /\ rest' = <<0, len>>
    /\ UNCHANGED <<vars, yielded, ended>>

(* split_at_mut(mid): the head is handed out, the tail kept.               *)
Unclamped == chunk
Mid == Least(chunk, Remaining)

(* next finds cells, and leaves the tail, possibly an empty one.           *)
NextShard ==
    /\ Remaining > 0
    /\ LET mid == rest[1] + Mid IN
       /\ yielded' = Append(yielded, <<rest[1], mid>>)
       /\ rest' = <<mid, rest[2]>>
    /\ UNCHANGED <<vars, begun, ended>>

(* next finds none: `rest' has been taken and stays None.                  *)
NextNone ==
    /\ begun
    /\ Remaining = 0
    /\ rest' = None
    /\ ended' = TRUE
    /\ UNCHANGED <<vars, begun, yielded>>

(* ShardChunks::size_hint, lower and upper bound alike.                    *)
FloorHint == Remaining \div chunk
size_hint == partition_count(Remaining, chunk)

----------------------------------------------------------------------------
(* The k-th shard handed out is the k-th range of ParChunks: the two       *)
(* primitives cut a region in the same places ("the two partition          *)
(* primitives can never disagree on how many shards tile a region").       *)
MatchesParChunks ==
    /\ \A k \in 1 .. Len(yielded) : yielded[k] = range(len, chunk, k - 1)
    /\ ended => Len(yielded) = partition_count(len, chunk)

(* size_hint is exact at every moment, which ExactSizeIterator::len        *)
(* promises, also after the iterator is exhausted.                         *)
SizeHintIsExact ==
    begun => Len(yielded) + size_hint = partition_count(len, chunk)
=============================================================================
