-------------------------- MODULE MCKVCacheManager --------------------------
(***************************************************************************)
(* Small instances of KVCacheManager for TLC, and a claim of the           *)
(* repository about the cache that the code does not keep.                 *)
(***************************************************************************)
EXTENDS KVCacheManager, TLC

\* Two sequences one of which has the name of the other as a prefix.
MCModels == {<<"m">>}
MCSeqIds == {<<"s">>, <<"s", "1">>}
MCLayers == {"0"}

\* No definition tells the devices apart.
MCSymmetry == Permutations(GPUs)

-----------------------------------------------------------------------------
(* What the repository says of the cache and the code does not do.         *)

\* "kv_cache_pool.full": put refuses an entry because the pool is full, so
\* an entry no larger than the capacity is stored once room is made for it.
RefusedOnlyWhenTooLarge ==
    \A g \in GPUs : \A n \in EntrySizes :
        n <= capacity[g] =>
            \/ Fits(g, n)
            \/ \E i \in 0 .. Len(order[g]) :
                    EvictionStopsAt(g, n, i) /\ Freed(g, i) >= n

=============================================================================
