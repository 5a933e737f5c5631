------------------------- MODULE MCBatchAggregator -------------------------
(***************************************************************************)
(* Small instances of BatchAggregator for TLC, and a claim of the          *)
(* repository about it that the code does not keep.                        *)
(***************************************************************************)
EXTENDS BatchAggregator

\* Two lengths in the first bucket, and one in the second.
MCBuckets == <<2, 4>>

\* "assert agg._get_bucket(5000) == 4096": a request longer than every
\* bucket has a bucket, so that it is batched like any other.
OverlongIsBatched ==
    \A n \in 1 .. MaxRequests :
        (running /\ \E r \in submitted : r.id = n /\ r.len > MaxSeqLen)
            ~> (~ running \/ \E b \in Batches : \E r \in Range(b.requests) : r.id = n)

=============================================================================
