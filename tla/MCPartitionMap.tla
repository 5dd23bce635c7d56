--------------------------- MODULE MCPartitionMap ---------------------------
(* Regions of up to four cells, queues wrapped at every place.  IsizeMax   *)
(* is four, so the longest region is the longest there can be.             *)
EXTENDS PartitionMap

MCPlans == {Parts(2), Parts(3), ChunkSize(1), ChunkSize(2), ChunkSize(UsizeMax),
            AvailableParallelism}
=============================================================================
