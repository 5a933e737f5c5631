--------------------------- MODULE GPUKVCachePool ---------------------------
(***************************************************************************)
(* The per-GPU LRU pools of KV tensors (class GPUKVCachePool): the state   *)
(* of every pool, and its operations put, get, evict_sequence, _evict_lru  *)
(* and _remove.  KVCacheManager owns the pools and calls them under its    *)
(* asyncio lock, so each operation is one atomic step of the caller.       *)
(*                                                                         *)
(* Sizes are counted in allocation units instead of bytes, and the clock   *)
(* is reduced to what is_expired tells apart: an entry lapses when its     *)
(* ttl has passed since its last access (Lapse), and an access makes it    *)
(* live again.                                                             *)
(***************************************************************************)
EXTENDS Integers, Sequences, FiniteSets, Functions

CONSTANTS
    GPUs,            \* device ids
    Models,          \* model ids, each a sequence of tokens
    SeqIds,          \* sequence ids, each a sequence of tokens
    Layers,          \* layer indexes
    DefaultCapacity  \* units of a pool created without an explicit capacity

ASSUME CapacityAssumption == DefaultCapacity \in Nat \ {0}

VARIABLES
    order,     \* order[g]: keys of pool g as its OrderedDict lists them
    cached,    \* cached[g]: the entries of pool g, by key
    used,      \* used[g]: _used_bytes of pool g
    capacity   \* capacity[g]: _capacity_bytes of pool g

poolVars == <<order, cached, used, capacity>>

-----------------------------------------------------------------------------
(* Keys and entries.                                                       *)

\* The string f"{model_id}:{sequence_id}:{layer_index}", as its tokens.
CacheKey(m, s, l) == m \o <<":">> \o s \o <<":", l>>

Keys == {CacheKey(m, s, l) : m \in Models, s \in SeqIds, l \in Layers}

Entries == [model : Models, seq : SeqIds, layer : Layers,
            nbytes : Nat \ {0}, expired : BOOLEAN]

\* A fresh entry, whose ttl begins to run.
NewEntry(m, s, l, n) ==
    [model |-> m, seq |-> s, layer |-> l, nbytes |-> n, expired |-> FALSE]

\* The units of VRAM the entries of c occupy.
Occupied(c) == UNION {{k} \X (1 .. c[k].nbytes) : k \in DOMAIN c}
Bytes(c)    == Cardinality(Occupied(c))

NoEntries == [k \in {} |-> {}]

With(c, S, k, e) == [x \in S \cup {k} |-> IF x = k THEN e ELSE c[x]]
Without(c, K)    == Restrict(c, DOMAIN c \ K)

\* What is left of the first i keys, and so of all, without those in K.
Drop(s, K) ==
    LET kept[i \in 0 .. Len(s)] ==
            IF i = 0 THEN <<>>
            ELSE IF s[i] \in K THEN kept[i - 1] ELSE Append(kept[i - 1], s[i])
    IN  kept[Len(s)]

\* Mutant: the key is listed again, not moved.
ListAgain(s, k) == Append(s, k)

MoveToEnd(s, k) == Append(Drop(s, {k}), k)

-----------------------------------------------------------------------------
(* Operations on pool g.                                                   *)

\* The first i keys of the OrderedDict, those i rounds of the loop remove.
Oldest(g, i) == {order[g][j] : j \in 1 .. i}
Freed(g, i)  == Bytes(Restrict(cached[g], Oldest(g, i) \cap DOMAIN cached[g]))

\* The loop of _evict_lru runs exactly i rounds: its condition first fails
\* after them, the pool being empty or enough having been freed.
EvictionStopsAt(g, n, i) ==
    LET stop(j) == j = Len(order[g]) \/ Freed(g, j) >= n
    IN  stop(i) /\ \A j \in 0 .. (i - 1) : ~ stop(j)

\* Mutant: off by one.
FitsWhenNotOver(g, n) == used[g] <= capacity[g]

Fits(g, n) == used[g] + n <= capacity[g]

\* Mutant: the size of an overwritten entry is taken off, but the entry may
\* be among those just evicted, whose size is in `freed' already.
InsertTakesOffTwice(g, k, e, K, freed) ==
    LET rest == DOMAIN cached[g] \ K
        old  == IF k \in DOMAIN cached[g] THEN cached[g][k].nbytes ELSE 0
    IN  /\ cached' = [cached EXCEPT ![g] = With(@, rest, k, e)]
        /\ order' = [order EXCEPT ![g] =
                IF k \in rest THEN Drop(@, K) ELSE Append(Drop(@, K), k)]
        /\ used' = [used EXCEPT ![g] = @ - freed - old + e.nbytes]

\* self._cache[key] = entry, after the removal of the keys in K: assigning
\* to a key that is there keeps its place, and adds to _used_bytes without
\* taking off the size of the entry it replaces.
Insert(g, k, e, K, freed) ==
    LET rest == DOMAIN cached[g] \ K
    IN  /\ cached' = [cached EXCEPT ![g] = With(@, rest, k, e)]
        /\ order' = [order EXCEPT ![g] =
                IF k \in rest THEN Drop(@, K) ELSE Append(Drop(@, K), k)]
        /\ used' = [used EXCEPT ![g] = @ - freed + e.nbytes]

PutFits(g, k, e) ==
    /\ Fits(g, e.nbytes)
    /\ Insert(g, k, e, {}, 0)
    /\ UNCHANGED capacity

PutEvicts(g, k, e) ==
    /\ ~ Fits(g, e.nbytes)
    /\ \E i \in 0 .. Len(order[g]) :
        /\ EvictionStopsAt(g, e.nbytes, i)
        /\ Freed(g, i) >= e.nbytes
        /\ Insert(g, k, e, Oldest(g, i), Freed(g, i))
    /\ UNCHANGED capacity

\* Mutant: the size of what the loop removed is not taken off.
PutRefusedUncounted(g, e) ==
    /\ ~ Fits(g, e.nbytes)
    /\ \E i \in 0 .. Len(order[g]) :
        /\ EvictionStopsAt(g, e.nbytes, i)
        /\ Freed(g, i) < e.nbytes
        /\ cached' = [cached EXCEPT ![g] = Without(@, Oldest(g, i))]
        /\ order' = [order EXCEPT ![g] = Drop(@, Oldest(g, i))]
    /\ UNCHANGED <<used, capacity>>

\* put returns False, after the loop has removed every entry it could.
PutRefused(g, e) ==
    /\ ~ Fits(g, e.nbytes)
    /\ \E i \in 0 .. Len(order[g]) :
        /\ EvictionStopsAt(g, e.nbytes, i)
        /\ Freed(g, i) < e.nbytes
        /\ cached' = [cached EXCEPT ![g] = Without(@, Oldest(g, i))]
        /\ order' = [order EXCEPT ![g] = Drop(@, Oldest(g, i))]
        /\ used' = [used EXCEPT ![g] = @ - Freed(g, i)]
    /\ UNCHANGED capacity

Put(g, k, e) == PutFits(g, k, e) \/ PutEvicts(g, k, e) \/ PutRefused(g, e)

\* Mutant: evict_sequence and get drop entries but not their size.
RemoveAllUncounted(gone) ==
    /\ cached' = [g \in GPUs |-> Without(cached[g], gone[g])]
    /\ order' = [g \in GPUs |-> Drop(order[g], gone[g])]
    /\ UNCHANGED <<used, capacity>>

\* _remove of the keys gone[g] of every pool g at once.
RemoveAll(gone) ==
    /\ cached' = [g \in GPUs |-> Without(cached[g], gone[g])]
    /\ order' = [g \in GPUs |-> Drop(order[g], gone[g])]
    /\ used' = [g \in GPUs |->
                   used[g] - Bytes(Restrict(cached[g], gone[g] \cap DOMAIN cached[g]))]
    /\ UNCHANGED capacity

\* Time passes: the ttl of entry k of pool g runs out.
Lapse(g, k) ==
    /\ k \in DOMAIN cached[g] /\ ~ cached[g][k].expired
    /\ cached' = [cached EXCEPT ![g][k].expired = TRUE]
    /\ UNCHANGED <<order, used, capacity>>

PoolInit ==
    /\ order = [g \in GPUs |-> <<>>]
    /\ cached = [g \in GPUs |-> NoEntries]
    /\ used = [g \in GPUs |-> 0]
    /\ capacity = [g \in GPUs |-> DefaultCapacity]

=============================================================================
