--------------------------- MODULE RoutingEngine ---------------------------
(***************************************************************************)
(* RoutingEngine with its AccessPatternPredictor, composed with the state  *)
(* manager: route decides over the published snapshot and the registry,    *)
(* counts what follows what, and queues prefetches.                        *)
(***************************************************************************)
EXTENDS GPUStateManager, Sequences, FiniteSetsExt, Functions

CONSTANTS
    Descriptors,  \* of tensors: their key, model, whether weight, and mb
    Window,       \* window of the history, 100 in the code
    MaxPrefetch,  \* MAX_PREFETCH_QUEUE, 32 in the code
    MaxRoutes     \* bound of the model: calls of route

ASSUME RoutingAssumption ==
    /\ \A d \in Descriptors : d.weight \in BOOLEAN /\ d.model \in Models /\ d.mb \in Nat
    /\ Window \in Nat \ {0}
    /\ MaxPrefetch \in Nat
    /\ MaxRoutes \in Nat

VARIABLES
    history,   \* _predictor._history
    ngrams,    \* _predictor._ngrams: 0 where it has no entry
    prefetch,  \* _prefetch_queue
    routed     \* _route_count

engineVars == <<history, ngrams, prefetch, routed>>
vars       == <<stateVars, engineVars>>

CacheKeys == {d.key : d \in Descriptors}

-----------------------------------------------------------------------------
(* The predictor.                                                          *)

Trimmed(h) == IF Len(h) > Window THEN Tail(h) ELSE h

\* Mutant: the predecessor is looked up at the front of the history.
RecordAtFront(k) ==
    LET h == Trimmed(Append(history, k))
    IN  /\ history' = h
        /\ ngrams' = IF Len(h) >= 2 THEN [ngrams EXCEPT ![h[1]][k] = @ + 1] ELSE ngrams

\* record: counts the key after its predecessor in the window.
Record(k) ==
    LET h == Trimmed(Append(history, k))
    IN  /\ history' = h
        /\ ngrams' = IF Len(h) >= 2 THEN [ngrams EXCEPT ![h[Len(h) - 1]][k] = @ + 1] ELSE ngrams

\* predict_next has an answer and confidence reaches 0.65, for the counts of
\* the successors of a key.
Confident(counts) ==
    LET total == SumFunction(counts)
    IN  /\ total > 0
        /\ \E k \in DOMAIN counts : 100 * counts[k] >= 65 * total

-----------------------------------------------------------------------------
(* Decisions.  A device that may be missing is a set of at most one.       *)

Decision(strategy, D) == {[strategy |-> strategy, target |-> g] : g \in D}

\* _route_cache_hit: the device that the caller names, wherever it is.
CacheHit(kv) == Decision("cache_hit", kv)

\* Mutant: the first of the registered devices, in the snapshot or not.
AnyRegistered(m) == GpusWithModel(m)

\* _route_affinity: the least used of the registered devices that are in the
\* snapshot, healthy or not, else any of them, the first of a set.
AffinityTargets(m) ==
    LET present == GpusWithModel(m) \cap DOMAIN loaded
    IN  IF present = {} THEN GpusWithModel(m)
        ELSE UNION {LeastUsed(t, present) : t \in published}

Affinity(d) == IF d.weight THEN Decision("vram_affinity", AffinityTargets(d.model)) ELSE {}

\* get_nvlink_peers and _best_nvlink_peer.
Locality(current) ==
    LET Peers(t) == {l[2] : l \in {k \in t.nvlinks : k[1] \in current /\ Healthy(t.nodes[k[2]])}}
    IN  Decision("nvlink_locality", UNION {LeastUsed(t, Peers(t)) : t \in published})

\* _least_loaded_healthy_gpu, for 1.2 times the size of the tensor.
LeastLoaded(d) ==
    LET Fitting(t) == {g \in DOMAIN t.nodes :
                         Healthy(t.nodes[g]) /\ 10 * t.nodes[g].free >= 12 * d.mb}
    IN  UNION {LeastUsed(t, Fitting(t)) : t \in published}

Fallback(d) == Decision("least_loaded", IF LeastLoaded(d) = {} THEN {0} ELSE LeastLoaded(d))

\* The four loops of route: the first that has an answer decides.
Decisions(d, kv, current) ==
    LET tries == <<CacheHit(kv), Affinity(d), Locality(current), Fallback(d)>>
    IN  tries[Min({i \in DOMAIN tries : tries[i] # {}})]

\* Mutant: the limit of the queue is not looked at.
PrefetchWithoutLimit(d, target) ==
    prefetch' = IF Confident(ngrams'[d.key])
                THEN Append(prefetch, [key |-> d.key, target |-> target])
                ELSE prefetch

\* _maybe_prefetch, after the access has been recorded.  What is predicted
\* is only logged: the job has the tensor of the call.
MaybePrefetch(d, target) ==
    prefetch' = IF Len(prefetch) < MaxPrefetch /\ Confident(ngrams'[d.key])
                THEN Append(prefetch, [key |-> d.key, target |-> target])
                ELSE prefetch

Route(d, kv, current) ==
    /\ routed < MaxRoutes
    /\ routed' = routed + 1
    /\ Record(d.key)
    /\ \E decision \in Decisions(d, kv, current) :
        IF decision.strategy = "least_loaded"
        THEN MaybePrefetch(d, decision.target)
        ELSE UNCHANGED prefetch
    /\ UNCHANGED stateVars

\* best_gpu_for_model: room for 1.1 times the model, and the best score.
BestGpuForModel(mb) ==
    LET Score(n)   == n.free * (100 - n.util)
        Fitting(t) == {g \in DOMAIN t.nodes :
                         Healthy(t.nodes[g]) /\ 10 * t.nodes[g].free >= 11 * mb}
        Best(t)    == {g \in Fitting(t) : \A e \in Fitting(t) :
                         Score(t.nodes[g]) >= Score(t.nodes[e])}
    IN  UNION {Best(t) : t \in published}

\* The registered devices of the snapshot that are healthy and have room.
Serving(m, mb) ==
    {g \in GpusWithModel(m) \cap DOMAIN loaded :
        \A t \in published : Healthy(t.nodes[g]) /\ t.nodes[g].free >= mb}

\* best_gpu_for_inference.
BestGpuForInference(m, mb) ==
    IF Serving(m, mb) # {} THEN UNION {LeastUsed(t, Serving(m, mb)) : t \in published}
    ELSE BestGpuForModel(mb)

-----------------------------------------------------------------------------
Init ==
    /\ StateInit
    /\ history = <<>>
    /\ ngrams = [a \in CacheKeys |-> [b \in CacheKeys |-> 0]]
    /\ prefetch = <<>>
    /\ routed = 0

\* At most one device, or none.
AtMostOne(D) == {{}} \cup {{d} : d \in D}

\* route_tensor of the API, with the devices that its caller may name.
RouteTensor ==
    \E d \in Descriptors, kv, current \in AtMostOne(Devices) : Route(d, kv, current)

Next ==
    \/ StateNext /\ UNCHANGED engineVars
    \/ RouteTensor

\* The event loop wakes every task whose sleep is over: a poll loop polls,
\* or ends, in the end.
Spec == Init /\ [][Next]_vars /\ WF_vars(Poll /\ UNCHANGED engineVars)
                              /\ WF_vars(LoopEnd /\ UNCHANGED engineVars)

-----------------------------------------------------------------------------
(* Properties.                                                             *)

\* Types of the state manager and of the engine, the limits of the history
\* and of the prefetch queue with them.
TypeOK ==
    /\ StateTypeOK
    /\ history \in UNION {[1 .. n -> CacheKeys] : n \in 0 .. Window}
    /\ ngrams \in [CacheKeys -> [CacheKeys -> 0 .. MaxRoutes]]
    /\ Len(prefetch) <= MaxPrefetch
    /\ \A i \in DOMAIN prefetch : prefetch[i].key \in CacheKeys /\ prefetch[i].target \in Nat
    /\ routed \in 0 .. MaxRoutes

\* The counts outlive the window but never fall behind it: every pair of
\* neighbours in the history has been counted as often as it is there.
NgramsCoverHistory ==
    \A a, b \in CacheKeys :
        ngrams[a][b] >= Cardinality({i \in 1 .. (Len(history) - 1) :
                                        history[i] = a /\ history[i + 1] = b})

\* Weights go to, and inference is placed on, a device that the snapshot
\* lists as holding the model whenever it lists one that can be used, after
\* devices have left the hardware and come back as well.  A device that left
\* stays registered.
PlacementFollowsSnapshot ==
    \A m \in Models :
        /\ SnapshotGpusWith(m) # {} => AffinityTargets(m) \subseteq SnapshotGpusWith(m)
        /\ (\E t \in published, g \in SnapshotGpusWith(m) : Healthy(t.nodes[g]))
            => BestGpuForInference(m, 0) \subseteq SnapshotGpusWith(m)

\* The answer of /ready: 200 if the snapshot has devices.
Ready == \E t \in published : DOMAIN t.nodes # {}

\* What route decides without a cache or a placement is a device of the
\* snapshot.
TargetsExist ==
    \A d \in Descriptors, current \in AtMostOne(Devices) :
        \A decision \in Locality(current) \cup Fallback(d) :
            \E t \in published : decision.target \in DOMAIN t.nodes

\* /ready takes back its 200 only because NVML answers that the machine has no
\* device left, and never for a failure of the driver, devices of which some
\* leave, or a restart without NVML.  By a snapshot for which it answers 200,
\* the tensors that are routed for their locality or for want of anything
\* better go to devices of that snapshot.
StaysReady ==
    [][/\ Ready /\ ~ Ready' => Discovers /\ DOMAIN machine.nodes = {} /\ published' = {machine}
       /\ Ready' /\ published' # published => TargetsExist']_vars

=============================================================================
