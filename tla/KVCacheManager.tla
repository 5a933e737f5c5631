--------------------------- MODULE KVCacheManager ---------------------------
(***************************************************************************)
(* KVCacheManager: the cross-pod shared KV-cache, one pool per GPU.  Every *)
(* coroutine of the class does its work inside `async with self._lock`     *)
(* and awaits nothing there, so each call is one action.  The hit, miss    *)
(* and eviction statistics, which no operation reads, are left out.        *)
(***************************************************************************)
EXTENDS GPUKVCachePool

CONSTANTS
    Capacities,   \* the capacity_mb arguments of add_gpu; 0 stands for None too
    EntrySizes,   \* sizes of the KV tensors that callers store
    ExtendSizes,  \* sizes that extend_kv appends; {} when nobody calls it
    MaxEntry,     \* bound of the model: extend_kv grows no entry beyond it
    MaxUneven     \* bound of the model: pools that extend_kv miscounts, once each

ASSUME SizeAssumption ==
    /\ Capacities \subseteq Nat
    /\ EntrySizes \subseteq Nat \ {0}
    /\ ExtendSizes \subseteq Nat \ {0}
    /\ MaxEntry \in Nat

VARIABLES
    devices,   \* the keys of _pools, in the order of insertion
    extended,  \* history: the pools that extend_kv has appended to
    uneven     \* history: those where it counted other than it appended

managerVars == <<devices, extended, uneven>>
vars == <<order, cached, used, capacity, managerVars>>

Known(g) == g \in Range(devices)

\* add_gpu(g, c): a new, empty pool, also when g has one already.
AddGpu(g, c) ==
    /\ devices' = IF Known(g) THEN devices ELSE Append(devices, g)
    /\ capacity' = [capacity EXCEPT ![g] = IF c = 0 THEN DefaultCapacity ELSE c]
    /\ order' = [order EXCEPT ![g] = <<>>]
    /\ cached' = [cached EXCEPT ![g] = NoEntries]
    /\ used' = [used EXCEPT ![g] = 0]
    /\ extended' = extended \ {g}
    /\ uneven' = uneven \ {g}

\* Mutant: the pool is added whether it is known or not.
StoreKVAddsAgain(m, s, l, n, g) ==
    /\ devices' = Append(devices, g)
    /\ Put(g, CacheKey(m, s, l), NewEntry(m, s, l, n))
    /\ UNCHANGED <<extended, uneven>>

\* Mutant: the pool of a new device is not kept.
StoreKVUnlisted(m, s, l, n, g) ==
    /\ Put(g, CacheKey(m, s, l), NewEntry(m, s, l, n))
    /\ UNCHANGED managerVars

\* store_kv: a device without a pool gets an empty one of default capacity,
\* which is how PoolInit left it.
StoreKV(m, s, l, n, g) ==
    /\ devices' = IF Known(g) THEN devices ELSE Append(devices, g)
    /\ Put(g, CacheKey(m, s, l), NewEntry(m, s, l, n))
    /\ UNCHANGED <<extended, uneven>>

\* The first pool, in insertion order, that satisfies P.
FirstDevice(i, P(_)) ==
    /\ i \in DOMAIN devices
    /\ P(devices[i])
    /\ \A j \in 1 .. (i - 1) : ~ P(devices[j])

Holds(g, k) == k \in DOMAIN cached[g]

\* Mutant: get does not look at the ttl.
LiveUnchecked(g, k) == Holds(g, k)

Live(g, k)  == Holds(g, k) /\ ~ cached[g][k].expired

\* get_kv asks the pools in turn.  Those asked before the hit lose their
\* lapsed copy of the entry; the hit is touched, and moved to the end of its
\* OrderedDict.
GetHit(m, s, l) ==
    LET k == CacheKey(m, s, l)
    IN  \E i \in DOMAIN devices :
        /\ FirstDevice(i, LAMBDA g : Live(g, k))
        /\ LET h      == devices[i]
               before == {devices[j] : j \in 1 .. (i - 1)}
               gone   == [g \in GPUs |-> IF g \in before THEN {k} ELSE {}]
           IN  /\ cached' = [g \in GPUs |->
                    IF g = h THEN [cached[g] EXCEPT ![k].expired = FALSE]
                             ELSE Without(cached[g], gone[g])]
               /\ order' = [g \in GPUs |->
                    IF g = h THEN MoveToEnd(order[g], k) ELSE Drop(order[g], gone[g])]
               /\ used' = [g \in GPUs |->
                    used[g] - Bytes(Restrict(cached[g], gone[g] \cap DOMAIN cached[g]))]
        /\ UNCHANGED <<capacity, managerVars>>

GetMiss(m, s, l) ==
    LET k == CacheKey(m, s, l)
    IN  /\ \A i \in DOMAIN devices : ~ Live(devices[i], k)
        /\ RemoveAll([g \in GPUs |-> IF Known(g) THEN {k} ELSE {}])
        /\ UNCHANGED managerVars

GetKV(m, s, l) == GetHit(m, s, l) \/ GetMiss(m, s, l)

\* Mutant: the prefix lacks its last ":".
LookupByOpenPrefix(m, s) ==
    LET prefix     == m \o <<":">> \o s
        matches(k) == Len(k) >= Len(prefix) /\ SubSeq(k, 1, Len(prefix)) = prefix
        Found(g)   == \E k \in DOMAIN cached[g] : matches(k)
    IN  {devices[i] : i \in {j \in DOMAIN devices : FirstDevice(j, Found)}}

\* lookup_sequence_gpu: the devices it can answer for (m, s), at most one.
\* It looks at the keys of the pools only, not at the entries' ttl.
LookupSequenceGpu(m, s) ==
    LET prefix     == m \o <<":">> \o s \o <<":">>
        matches(k) == Len(k) >= Len(prefix) /\ SubSeq(k, 1, Len(prefix)) = prefix
        Found(g)   == \E k \in DOMAIN cached[g] : matches(k)
    IN  {devices[i] : i \in {j \in DOMAIN devices : FirstDevice(j, Found)}}

\* The tensors of entry k of pool g grow by b in all.
Enlarge(g, k, b, lapsed) ==
    cached' = [cached EXCEPT ![g][k].nbytes = @ + b, ![g][k].expired = lapsed]

MayMiscount(g) == g \notin uneven /\ Cardinality(uneven) < MaxUneven

\* extend_kv: the first pool that has the key, lapsed or not.  The entry is
\* touched, but keeps its place in the OrderedDict; capacity is not checked.
\* The n bytes of the new tensors are counted.  The entry grows by b, by more
\* than n when concatenate promotes either operand to a wider dtype.
ExtendKV(m, s, l, n) ==
    LET k == CacheKey(m, s, l)
    IN  \E i \in DOMAIN devices :
        /\ FirstDevice(i, LAMBDA g : Holds(g, k))
        /\ LET g == devices[i]
           IN  \E b \in n .. (MaxEntry - cached[g][k].nbytes) :
               /\ b = n \/ MayMiscount(g)
               /\ Enlarge(g, k, b, FALSE)
               /\ used' = [used EXCEPT ![g] = @ + n]
               /\ extended' = extended \cup {g}
               /\ uneven' = IF b = n THEN uneven ELSE uneven \cup {g}
        /\ UNCHANGED <<order, capacity, devices>>

\* extend_kv raises after the keys of the entry, or its values too, have
\* grown, by b in all: nothing is counted.  The entry has been touched when
\* only the new values have no nbytes.  (A call that raises before has changed
\* nothing.)
ExtendKVRaises(m, s, l, b) ==
    LET k == CacheKey(m, s, l)
    IN  \E i \in DOMAIN devices, touched \in BOOLEAN :
        /\ FirstDevice(i, LAMBDA g : Holds(g, k))
        /\ LET g == devices[i]
           IN  /\ cached[g][k].nbytes + b <= MaxEntry
               /\ MayMiscount(g)
               /\ Enlarge(g, k, b, cached[g][k].expired /\ ~ touched)
               /\ extended' = extended \cup {g}
               /\ uneven' = uneven \cup {g}
        /\ UNCHANGED <<order, used, capacity, devices>>

EvictSequence(s) ==
    /\ RemoveAll([g \in GPUs |->
            {k \in DOMAIN cached[g] : Known(g) /\ cached[g][k].seq = s}])
    /\ UNCHANGED managerVars

\* prefill_from_storage(descriptor): the tensor id takes the place of the
\* sequence id.
PrefillFromStorage(m, t, l, n, g) == StoreKV(m, t, l, n, g)

Init == PoolInit /\ devices = <<>> /\ extended = {} /\ uneven = {}

Next ==
    \/ \E g \in GPUs, c \in Capacities : AddGpu(g, c)
    \/ \E m \in Models, s \in SeqIds, l \in Layers :
        \/ \E n \in EntrySizes, g \in GPUs : StoreKV(m, s, l, n, g)
        \/ \E n \in EntrySizes, g \in GPUs : PrefillFromStorage(m, s, l, n, g)
        \/ GetKV(m, s, l)
        \/ \E n \in ExtendSizes : ExtendKV(m, s, l, n)
        \/ \E b \in ExtendSizes : ExtendKVRaises(m, s, l, b)
    \/ \E s \in SeqIds : EvictSequence(s)
    \/ \E g \in GPUs, k \in Keys : Lapse(g, k) /\ UNCHANGED managerVars

Spec == Init /\ [][Next]_vars

-----------------------------------------------------------------------------
(* Properties.                                                             *)

\* Types: pools hold entries under their own cache keys, with a positive
\* size, and the bookkeeping is made of numbers; devices lists pools once.
TypeOK ==
    /\ \A g \in GPUs : \A k \in DOMAIN cached[g] :
        LET e == cached[g][k]
        IN  e \in Entries /\ k = CacheKey(e.model, e.seq, e.layer)
    /\ used \in [GPUs -> Int]
    /\ capacity \in [GPUs -> Nat \ {0}]
    /\ devices \in Seq(GPUs)
    /\ \A i, j \in DOMAIN devices : devices[i] = devices[j] => i = j
    /\ uneven \subseteq extended /\ extended \subseteq Range(devices)

\* The OrderedDict that picks the victims lists exactly the entries of the
\* pool, each once: eviction, expiry, overwrite and move_to_end leave nothing
\* behind that could be evicted twice.
OrderOK ==
    \A g \in GPUs :
        /\ Range(order[g]) = DOMAIN cached[g]
        /\ Len(order[g]) = Cardinality(DOMAIN cached[g])

\* _used_bytes never falls below what the entries of the pool occupy, so
\* the capacity check of put errs on the safe side after any history of
\* overwrites, extensions, expiries and evictions.  A pool is exempt from the
\* first call of extend_kv that raises half-way or grows an entry by more than
\* it counts, until add_gpu replaces it; no other operation undercounts.
NeverUndercounts == \A g \in GPUs \ uneven : Bytes(cached[g]) <= used[g]

\* put does not take the size of the entry it overwrites off _used_bytes.
\* What leaks so never reaches the whole capacity, however often entries
\* are overwritten: the put that leaks also stores something.  A pool that
\* extend_kv appended to is exempt until add_gpu replaces it.
LeakBelowCapacity ==
    \A g \in GPUs \ extended : used[g] - Bytes(cached[g]) < capacity[g]

\* Such a pool is never wedged for good: whatever was leaked, an entry of
\* the smallest size is stored, after evictions if need be.
SmallestIsStored ==
    \A g \in GPUs \ extended :
        \/ Fits(g, 1)
        \/ \E i \in 0 .. Len(order[g]) :
                EvictionStopsAt(g, 1, i) /\ Freed(g, i) >= 1

\* lookup_sequence_gpu matches keys by prefix.  It answers with a device
\* that holds an entry of that very sequence and model, the first such
\* device, and never with one that holds a sequence of a longer name.
LookupNamesTheSequence ==
    \A m \in Models, s \in SeqIds :
        LET has(g) == \E k \in DOMAIN cached[g] :
                        cached[g][k].model = m /\ cached[g][k].seq = s
            holders == {i \in DOMAIN devices : has(devices[i])}
        IN  LookupSequenceGpu(m, s) =
                {devices[i] : i \in {j \in holders : \A h \in holders : j <= h}}

\* A step that stores an entry, or appends to one.
Stores   == \E m \in Models, s \in SeqIds, l \in Layers, n \in EntrySizes, g \in GPUs :
                StoreKV(m, s, l, n, g)
Appends  == \E m \in Models, s \in SeqIds, l \in Layers, n \in ExtendSizes :
                ExtendKV(m, s, l, n) \/ ExtendKVRaises(m, s, l, n)

\* extend_kv checks no capacity.  It is the one operation that takes a pool
\* beyond it: put never adds to what is over, whatever was extended before.
OnlyExtensionOverflows ==
    [][\A g \in GPUs :
        used'[g] > used[g] /\ used'[g] > capacity'[g] => Appends]_vars

\* The cache of a lapsed sequence comes back to life only when somebody
\* stores it anew or appends to it; a lookup does not revive it.
ExpiryIsFinal ==
    [][\A g \in GPUs, k \in Keys :
        Holds(g, k) /\ cached[g][k].expired /\ k \in DOMAIN cached'[g] =>
            cached'[g][k].expired \/ Stores \/ Appends]_vars

=============================================================================
