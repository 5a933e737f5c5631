---------------------------- MODULE InferenceMesh ----------------------------
(***************************************************************************)
(* InferenceMesh: the turns of conversations that pass through the         *)
(* KV-cache lookup, the routing engine and NIM, and the task that caches   *)
(* the KV tensors of a turn after its response.                            *)
(*                                                                         *)
(* Nobody awaits while holding the lock of the cache, so it is free        *)
(* whenever a coroutine asks for it.  A request therefore runs in one step *)
(* from its arrival to the wait for NIM, and in one step from there to its *)
(* response; the store task runs later.                                    *)
(***************************************************************************)
EXTENDS GPUKVCachePool

CONSTANTS
    NumGpus,      \* config.num_gpus: the devices 0 .. NumGpus - 1
    Cluster,      \* the devices of the topology
    KvSharing,    \* config.enable_kv_sharing
    EntrySizes,   \* sizes of the KV tensors of a turn
    MaxRequests,  \* bound of the model: requests
    MaxRestarts,  \* bound of the model: calls of start after the first
    MaxRelief     \* bound of the model: vram_low tasks waiting at a time

ASSUME MeshAssumption ==
    /\ NumGpus \in Nat /\ 0 .. (NumGpus - 1) \subseteq GPUs
    /\ "0" \in Layers
    /\ Cluster \cup {0} \subseteq GPUs
    /\ KvSharing \in BOOLEAN
    /\ EntrySizes \subseteq Nat \ {0}
    /\ MaxRestarts \in Nat /\ MaxRelief \in Nat

VARIABLES
    devices,   \* the keys of _kv_cache._pools, in the order of insertion
    requests,  \* the requests of the mesh in the order of their arrival
    restarts,  \* calls of start after the first
    relief     \* evict_sequence tasks of vram_low events that have not run

cacheVars == <<order, cached, used, capacity, devices>>
vars      == <<cacheVars, requests, restarts, relief>>

KV == INSTANCE KVCacheManager WITH
        Capacities <- {0}, ExtendSizes <- {}, MaxEntry <- 0, MaxUneven <- 0,
        extended <- {}, uneven <- {}

-----------------------------------------------------------------------------
(* Requests.                                                               *)

\* "nim": waits for the answer of NIM.  "storing": answered, and its store
\* task has not run.  "stored", "done": answered, with and without a store.
Phases == {"nim", "storing", "stored", "done"}

Same(q, m, s) == q.model = m /\ q.seq = s

\* No earlier turn of the conversation waits for NIM or has its store to come.
Alone(m, s) == \A q \in Range(requests) : Same(q, m, s) => q.phase \in {"stored", "done"}

\* Mutant: the device that lookup_sequence_gpu found is one among others.
RouteByLoad(kv) == Cluster \cup {0} \cup kv

\* route, for an INPUT tensor and without a current GPU: the device of the
\* cache if there is one, else the least loaded healthy one of the latest
\* topology, which may be any, else 0.
Route(kv) == IF kv = {} THEN Cluster \cup {0} ELSE kv

\* handle, or handle_stream, up to the wait for NIM.
Begin(m, s, streams) ==
    /\ Len(requests) < MaxRequests
    /\ LET kv == IF KvSharing \/ streams THEN KV!LookupSequenceGpu(m, s) ELSE {}
       IN  \E g \in Route(kv) :
            requests' = Append(requests,
                [model |-> m, seq |-> s, streams |-> streams, phase |-> "nim",
                 target |-> g, hit |-> kv # {},
                 alone |-> Alone(m, s)])
    /\ UNCHANGED <<cacheVars, restarts, relief>>

\* NIM, or _dispatch_to_nim in its place, answers and the response is out.
Respond(i) ==
    /\ requests[i].phase = "nim"
    /\ requests' = [requests EXCEPT ![i].phase =
            IF KvSharing /\ ~ requests[i].streams THEN "storing" ELSE "done"]
    /\ UNCHANGED <<cacheVars, restarts, relief>>

\* _store_simulated_kv: layer 0 of the turn, on the device it was routed to.
Store(i) ==
    LET r == requests[i]
    IN  /\ r.phase = "storing"
        /\ \E n \in EntrySizes : KV!StoreKV(r.model, r.seq, "0", n, r.target)
        /\ requests' = [requests EXCEPT ![i].phase = "stored"]
        /\ UNCHANGED <<restarts, relief>>

-----------------------------------------------------------------------------
(* Start, events and time.                                                 *)

StartedGpus == 0 .. (NumGpus - 1)

\* start, called again: new, empty pools for the configured devices, while
\* requests may be on their way.
Restart ==
    LET Fresh(f, v) == [g \in GPUs |-> IF g \in StartedGpus THEN v ELSE f[g]]
    IN  /\ restarts < MaxRestarts
        /\ restarts' = restarts + 1
        /\ order' = Fresh(order, <<>>)
        /\ cached' = Fresh(cached, NoEntries)
        /\ used' = Fresh(used, 0)
        /\ capacity' = Fresh(capacity, DefaultCapacity)
        /\ UNCHANGED <<devices, requests, relief>>

\* _on_gpu_event: every start has registered the listener once per device,
\* and each of them starts a task.
VramLow ==
    LET tasks == NumGpus * (1 + restarts)
    IN  /\ relief + tasks <= MaxRelief
        /\ relief' = relief + tasks
        /\ UNCHANGED <<cacheVars, requests, restarts>>

\* The task: evict_sequence("__oldest__").
Relieve ==
    /\ relief > 0
    /\ KV!EvictSequence(<<"__oldest__">>)
    /\ relief' = relief - 1
    /\ UNCHANGED <<requests, restarts>>

Time ==
    /\ \E g \in GPUs, k \in Keys : Lapse(g, k)
    /\ UNCHANGED <<devices, requests, restarts, relief>>

\* The mesh has been started once before its first request.
Init ==
    /\ PoolInit
    /\ devices = [i \in 1 .. NumGpus |-> i - 1]
    /\ requests = <<>>
    /\ restarts = 0
    /\ relief = 0

Next ==
    \/ \E m \in Models, s \in SeqIds, streams \in BOOLEAN : Begin(m, s, streams)
    \/ \E i \in DOMAIN requests : Respond(i)
    \/ \E i \in DOMAIN requests : Store(i)
    \/ Restart
    \/ VramLow
    \/ Relieve
    \/ Time

Spec == Init /\ [][Next]_vars

-----------------------------------------------------------------------------
(* Properties.                                                             *)

\* Types: a request is routed to a device of the mesh, and the keys of the
\* pools are those of the conversations.
TypeOK ==
    /\ \A i \in DOMAIN requests : requests[i] \in
        [model : Models, seq : SeqIds, streams : BOOLEAN, phase : Phases,
         target : GPUs, hit : BOOLEAN, alone : BOOLEAN]
    /\ Range(devices) \subseteq GPUs
    /\ \A g \in GPUs : DOMAIN cached[g] \subseteq Keys
    /\ \A g \in GPUs : cached[g] # NoEntries => g \in Range(devices)
    /\ restarts \in 0 .. MaxRestarts
    /\ relief \in 0 .. MaxRelief

\* The devices that hold a conversation's cache.
Homes(m, s) == {g \in GPUs : \E k \in DOMAIN cached[g] : Same(cached[g][k], m, s)}

\* The devices that the routing engine chose for a turn that found no cache
\* and was stored.
Chosen(m, s) ==
    {requests[i].target : i \in {j \in DOMAIN requests :
        Same(requests[j], m, s) /\ ~ requests[j].hit /\ requests[j].phase = "stored"}}

\* Only a turn that misses opens a new home for its conversation, however
\* turns, evictions and restarts overlap: a hit goes to a home, and so does
\* the cache that it stores.
HomesComeFromMisses == \A m \in Models, s \in SeqIds : Homes(m, s) \subseteq Chosen(m, s)

\* A conversation whose turns never overlap, each begun after the store of
\* the one before, has its cache on one device at most, through evictions,
\* expiry and restarts.
OneHome ==
    \A m \in Models, s \in SeqIds :
        (\A q \in Range(requests) : Same(q, m, s) => q.alone)
            => Cardinality(Homes(m, s)) <= 1

=============================================================================
