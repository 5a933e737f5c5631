------------------------- MODULE ControlPlaneProofs -------------------------
(***************************************************************************)
(* Theorems about the control plane: the state machine of GPUStateManager, *)
(* under the routing engine that reads its snapshots, and the engine's own *)
(* predictor and prefetch queue.                                           *)
(***************************************************************************)
EXTENDS RoutingEngine, FiniteSetTheorems, TLAPS

-----------------------------------------------------------------------------
(* Types.                                                                  *)

\* The type invariant of the state manager holds at first.
LEMMA InitTypes == Init => StateTypeOK
<1> SUFFICES ASSUME Init PROVE StateTypeOK
  OBVIOUS
<1>1. registry = NoDevice /\ loaded = NoDevice /\ published = {} /\ loops = 0 /\ shared = FALSE
  BY DEF Init, StateInit
<1>2. DOMAIN registry \subseteq Models /\ registry \in [DOMAIN registry -> SUBSET Devices]
  BY <1>1 DEF NoDevice
<1>3. loops \in 0 .. MaxLoops
  BY <1>1, StateAssumption
<1>4. QED
  BY <1>1, <1>2, <1>3 DEF Init, StateInit, StateTypeOK, Topologies

\* A registration keeps the types: the published nodes stay the same, and so
\* do the devices that loaded is about.
LEMMA RegistryTypes ==
    ASSUME StateTypeOK, NEW m \in Models, NEW d \in Devices,
           RegisterModel(m, d) \/ EvictModel(m, d)
    PROVE  StateTypeOK'
<1>1. /\ DOMAIN registry' \subseteq Models
      /\ registry' \in [DOMAIN registry' -> SUBSET Devices]
  BY DEF StateTypeOK, RegisterModel, EvictModel, Registered, GpusWithModel
<1>2. published = {} => loaded' = NoDevice
  BY DEF StateTypeOK, RegisterModel, EvictModel, NoDevice
<1>3. \A t \in published : loaded' \in [DOMAIN t.nodes -> SUBSET Models]
  BY DEF StateTypeOK, RegisterModel, EvictModel
<1>4. UNCHANGED <<machine, driver, pynvml, inited, latest, published, shared, running, loops>>
  BY DEF RegisterModel, EvictModel, hardware, discovery, tasks
<1>5. QED
  BY <1>1, <1>2, <1>3, <1>4 DEF StateTypeOK, Topologies

\* A poll keeps the types: what it publishes is the latest topology, and
\* loaded is about its nodes.
LEMMA PollTypes == ASSUME StateTypeOK, Poll PROVE StateTypeOK'
<1> DEFINE top  == Refresh
           kept == IF shared /\ ~ Discovers THEN loaded ELSE [d \in DOMAIN top.nodes |-> {}]
<1>1. top \in Topologies
  BY DEF StateTypeOK, Refresh, Topologies
<1>2. /\ latest' = top /\ published' = {top} /\ shared' = TRUE
      /\ loaded' = IF DOMAIN registry = {} THEN kept
                   ELSE [d \in DOMAIN top.nodes |-> ModelsOn(d)]
  BY DEF Poll
<1>3. kept \in [DOMAIN top.nodes -> SUBSET Models]
  <2>1. CASE shared /\ ~ Discovers
    BY <2>1 DEF StateTypeOK, Refresh
  <2>2. CASE ~ (shared /\ ~ Discovers)
    BY <2>2
  <2>3. QED
    BY <2>1, <2>2
<1>4. \A d : ModelsOn(d) \subseteq Models
  BY DEF StateTypeOK, ModelsOn
<1>5. loaded' \in [DOMAIN top.nodes -> SUBSET Models]
  BY <1>2, <1>3, <1>4
<1>6. UNCHANGED <<machine, driver, pynvml, inited, registry, running, loops>>
  BY DEF Poll, hardware, tasks
<1> HIDE DEF top, kept
<1>7. QED
  BY <1>1, <1>2, <1>5, <1>6 DEF StateTypeOK, Topologies

\* Every step of the control plane keeps the types of the state manager.
LEMMA NextTypes == StateTypeOK /\ [Next]_vars => StateTypeOK'
<1> SUFFICES ASSUME StateTypeOK, [Next]_vars PROVE StateTypeOK'
  OBVIOUS
<1>1. CASE \E m \in Models, d \in Devices : RegisterModel(m, d) \/ EvictModel(m, d)
  BY <1>1, RegistryTypes
<1>2. CASE Start
  <2>1. /\ latest' \in Topologies /\ inited' \in BOOLEAN /\ shared' \in BOOLEAN
        /\ shared' => shared /\ latest' = latest
    BY <1>2 DEF Start, Initialize, StateTypeOK, Topologies
  <2>2. running' \in BOOLEAN /\ loops' \in 0 .. MaxLoops
    BY <1>2, StateAssumption DEF Start, StateTypeOK
  <2>3. UNCHANGED <<machine, driver, pynvml, published, loaded, registry>>
    BY <1>2 DEF Start, hardware
  <2>4. QED
    BY <2>1, <2>2, <2>3 DEF StateTypeOK, Topologies
<1>3. CASE Stop
  BY <1>3 DEF Stop, StateTypeOK, Topologies, hardware, discovery, snapshot
<1>4. CASE Poll
  BY <1>4, PollTypes
<1>5. CASE LoopEnd
  <2>1. MaxLoops \in Nat
    BY StateAssumption
  <2>2. loops' \in 0 .. MaxLoops
    BY <1>5, <2>1 DEF LoopEnd, StateTypeOK
  <2>3. QED
    BY <1>5, <2>2 DEF LoopEnd, StateTypeOK, Topologies, hardware, discovery, snapshot
<1>6. CASE HardwareChange
  BY <1>6 DEF HardwareChange, StateTypeOK, Topologies, discovery, snapshot, tasks
<1>7. CASE UNCHANGED stateVars
  BY <1>7 DEF stateVars, StateTypeOK, Topologies, hardware, discovery, snapshot, tasks
<1>8. QED
  BY <1>1, <1>2, <1>3, <1>4, <1>5, <1>6, <1>7 DEF Next, StateNext, RouteTensor, Route, vars

\* The state manager is type-correct under the routing engine, for any sets
\* of devices, models and machines: in particular a published snapshot always
\* has the loaded_models of exactly its nodes, and it is the object of the
\* discovery whenever a poll has passed since the last start without NVML.
THEOREM StateTypeCorrect == Spec => []StateTypeOK
  BY InitTypes, NextTypes, PTL DEF Spec

-----------------------------------------------------------------------------
(* Placements.                                                             *)

\* A registration enters the model into the registry and into the node of the
\* snapshot, if there is one, and touches no other model.
LEMMA RegisterAgrees ==
    ASSUME PlacementsAgree, NEW m \in Models, NEW d \in Devices, RegisterModel(m, d)
    PROVE  PlacementsAgree'
<1> SUFFICES ASSUME NEW n \in Models
             PROVE  SnapshotGpusWith(n)' = GpusWithModel(n)' \cap DOMAIN loaded'
  BY DEF PlacementsAgree
<1>1. SnapshotGpusWith(n) = GpusWithModel(n) \cap DOMAIN loaded
  BY DEF PlacementsAgree
<1>2. GpusWithModel(n)' = IF n = m THEN GpusWithModel(m) \cup {d} ELSE GpusWithModel(n)
  BY DEF RegisterModel, Registered, GpusWithModel
<1>3. /\ DOMAIN loaded' = DOMAIN loaded
      /\ SnapshotGpusWith(n)' = IF n = m THEN SnapshotGpusWith(n) \cup ({d} \cap DOMAIN loaded)
                                ELSE SnapshotGpusWith(n)
  BY DEF RegisterModel, SnapshotGpusWith
<1>4. QED
  BY <1>1, <1>2, <1>3

\* An eviction takes it out of both.
LEMMA EvictAgrees ==
    ASSUME PlacementsAgree, NEW m \in Models, NEW d \in Devices, EvictModel(m, d)
    PROVE  PlacementsAgree'
<1> SUFFICES ASSUME NEW n \in Models
             PROVE  SnapshotGpusWith(n)' = GpusWithModel(n)' \cap DOMAIN loaded'
  BY DEF PlacementsAgree
<1>1. SnapshotGpusWith(n) = GpusWithModel(n) \cap DOMAIN loaded
  BY DEF PlacementsAgree
<1>2. GpusWithModel(n)' = IF n = m THEN GpusWithModel(m) \ {d} ELSE GpusWithModel(n)
  BY DEF EvictModel, Registered, GpusWithModel
<1>3. /\ DOMAIN loaded' = DOMAIN loaded
      /\ SnapshotGpusWith(n)' = IF n = m THEN SnapshotGpusWith(n) \ {d}
                                ELSE SnapshotGpusWith(n)
  BY DEF EvictModel, SnapshotGpusWith
<1>4. QED
  BY <1>1, <1>2, <1>3

\* A poll takes the placements from the registry.  When no model was ever
\* named it leaves those of the object alone, and there are none to lose.
LEMMA PollAgrees ==
    ASSUME StateTypeOK, PlacementsAgree, Poll
    PROVE  PlacementsAgree'
<1> SUFFICES ASSUME NEW n \in Models
             PROVE  SnapshotGpusWith(n)' = GpusWithModel(n)' \cap DOMAIN loaded'
  BY DEF PlacementsAgree
<1>1. GpusWithModel(n)' = GpusWithModel(n)
  BY DEF Poll, GpusWithModel
<1>2. SnapshotGpusWith(n) = GpusWithModel(n) \cap DOMAIN loaded
  BY DEF PlacementsAgree
<1>3. CASE DOMAIN registry = {}
  <2>1. GpusWithModel(n) = {}
    BY <1>3 DEF GpusWithModel
  <2>2. loaded' = loaded \/ loaded' = [d \in DOMAIN Refresh.nodes |-> {}]
    BY <1>3 DEF Poll
  <2>3. SnapshotGpusWith(n)' = {}
    BY <1>2, <2>1, <2>2 DEF SnapshotGpusWith
  <2>4. QED
    BY <1>1, <2>1, <2>3
<1>4. CASE DOMAIN registry # {}
  <2>1. loaded' = [d \in DOMAIN Refresh.nodes |-> ModelsOn(d)]
    BY <1>4 DEF Poll
  <2>2. \A d : n \in ModelsOn(d) <=> d \in GpusWithModel(n)
    BY DEF ModelsOn, GpusWithModel
  <2>3. QED
    BY <1>1, <2>1, <2>2 DEF SnapshotGpusWith
<1>5. QED
  BY <1>3, <1>4

\* Every step keeps the placements of the snapshot and of the registry equal.
LEMMA NextAgrees == StateTypeOK /\ PlacementsAgree /\ [Next]_vars => PlacementsAgree'
<1> SUFFICES ASSUME StateTypeOK, PlacementsAgree, [Next]_vars PROVE PlacementsAgree'
  OBVIOUS
<1>1. CASE \E m \in Models, d \in Devices : RegisterModel(m, d)
  BY <1>1, RegisterAgrees
<1>2. CASE \E m \in Models, d \in Devices : EvictModel(m, d)
  BY <1>2, EvictAgrees
<1>3. CASE Poll
  BY <1>3, PollAgrees
<1>4. CASE UNCHANGED <<loaded, registry>>
  BY <1>4 DEF PlacementsAgree, SnapshotGpusWith, GpusWithModel
<1>5. Start \/ Stop \/ LoopEnd \/ HardwareChange \/ UNCHANGED stateVars
        => UNCHANGED <<loaded, registry>>
  BY DEF Start, Stop, LoopEnd, HardwareChange, stateVars, snapshot
<1>6. QED
  BY <1>1, <1>2, <1>3, <1>4, <1>5 DEF Next, StateNext, RouteTensor, Route, vars

\* No model is placed at first, neither here nor there.
LEMMA InitAgrees == Init => PlacementsAgree
  BY DEF Init, StateInit, PlacementsAgree, SnapshotGpusWith, GpusWithModel, NoDevice

\* The queries gpus_with_model of the state manager and of its snapshot agree
\* at all times, whatever the machines, models and devices are.
THEOREM PlacementsAlwaysAgree == Spec => []PlacementsAgree
  BY InitTypes, NextTypes, InitAgrees, NextAgrees, PTL DEF Spec

-----------------------------------------------------------------------------
(* Decisions.                                                              *)

\* What free memory a snapshot states is a number, in the mock topology too.
LEMMA FreeIsNat ==
    ASSUME NEW t \in Topologies, NEW g \in DOMAIN t.nodes
    PROVE  t.nodes[g].free \in Nat
<1>1. CASE t \in Machines
  BY <1>1, StateAssumption
<1>2. CASE t = EmptyTopology
  BY <1>2 DEF EmptyTopology, NoDevice
<1>3. CASE t = MockTopology
  <2>1. g \in 0 .. (MockGpus - 1) /\ t.nodes[g].free = 81920 - 8192 * g
    BY <1>3 DEF MockTopology
  <2>2. MockGpus \in 1 .. 8
    BY StateAssumption
  <2>3. g \in 0 .. 7
    BY <2>1, <2>2
  <2>4. QED
    BY <2>1, <2>3
<1>4. QED
  BY <1>1, <1>2, <1>3 DEF Topologies

\* The least used of some devices are among them.
LEMMA LeastUsedAmong == \A t, D : LeastUsed(t, D) \subseteq D
  BY DEF LeastUsed

\* Decisions of a single state: where the queries agree, weights and
\* inference follow the snapshot.
LEMMA DecisionsFollow == StateTypeOK /\ PlacementsAgree => PlacementFollowsSnapshot
<1> SUFFICES ASSUME StateTypeOK, PlacementsAgree, NEW m \in Models
             PROVE  /\ SnapshotGpusWith(m) # {} => AffinityTargets(m) \subseteq SnapshotGpusWith(m)
                    /\ (\E t \in published, g \in SnapshotGpusWith(m) : Healthy(t.nodes[g]))
                        => BestGpuForInference(m, 0) \subseteq SnapshotGpusWith(m)
  BY DEF PlacementFollowsSnapshot
<1>1. SnapshotGpusWith(m) = GpusWithModel(m) \cap DOMAIN loaded
  BY DEF PlacementsAgree
<1>2. ASSUME SnapshotGpusWith(m) # {}
      PROVE  AffinityTargets(m) \subseteq SnapshotGpusWith(m)
  BY <1>1, <1>2, LeastUsedAmong DEF AffinityTargets
<1>3. ASSUME NEW t \in published, NEW g \in SnapshotGpusWith(m), Healthy(t.nodes[g])
      PROVE  BestGpuForInference(m, 0) \subseteq SnapshotGpusWith(m)
  <2>1. published = {t} /\ t \in Topologies
    BY <1>3 DEF StateTypeOK
  <2>2. g \in DOMAIN loaded /\ DOMAIN loaded = DOMAIN t.nodes
    BY <1>1, <1>3 DEF StateTypeOK
  <2>3. t.nodes[g].free >= 0
    BY <2>1, <2>2, FreeIsNat
  <2>4. g \in Serving(m, 0)
    BY <1>1, <1>3, <2>1, <2>3 DEF Serving
  <2>5. Serving(m, 0) \subseteq SnapshotGpusWith(m)
    BY <1>1 DEF Serving
  <2>6. QED
    BY <2>4, <2>5, LeastUsedAmong DEF BestGpuForInference
<1>4. QED
  BY <1>2, <1>3

\* Weights are routed to, and inference is placed on, a device that the
\* snapshot lists as holding the model whenever it lists one that can be
\* used.
THEOREM PlacementsAreFollowed == Spec => []PlacementFollowsSnapshot
  BY InitTypes, NextTypes, InitAgrees, NextAgrees, DecisionsFollow, PTL DEF Spec

-----------------------------------------------------------------------------
(* Readiness.                                                              *)

\* What a refresh that fails falls back to has devices as long as the snapshot
\* has some.
LatestFilled == Ready => DOMAIN latest.nodes # {}

\* Topologies have no device, or the device 0, and their links join devices.
LEMMA Shape ==
    ASSUME NEW t \in Topologies
    PROVE  /\ DOMAIN t.nodes # {} => 0 \in DOMAIN t.nodes
           /\ t.nvlinks \subseteq (DOMAIN t.nodes) \X (DOMAIN t.nodes)
<1>1. CASE t \in Machines
  BY <1>1, StateAssumption
<1>2. CASE t = EmptyTopology
  BY <1>2 DEF EmptyTopology, NoDevice
<1>3. CASE t = MockTopology
  BY <1>3, StateAssumption DEF MockTopology
<1>4. QED
  BY <1>1, <1>2, <1>3 DEF Topologies

\* A step keeps the snapshot filled, and what a refresh falls back to, unless
\* it is a poll that finds no device.
LEMMA NextReady ==
    ASSUME StateTypeOK, LatestFilled, [Next]_vars
    PROVE  /\ LatestFilled'
           /\ Ready /\ ~ Ready' => Discovers /\ DOMAIN machine.nodes = {} /\ published' = {machine}
<1>1. CASE Poll
  <2>1. latest' = Refresh /\ published' = {Refresh}
    BY <1>1 DEF Poll
  <2>2. Ready' <=> DOMAIN Refresh.nodes # {}
    BY <2>1 DEF Ready
  <2>3. LatestFilled'
    BY <2>1, <2>2 DEF LatestFilled
  <2>4. ASSUME Ready, DOMAIN Refresh.nodes = {}
        PROVE  Discovers /\ DOMAIN machine.nodes = {} /\ Refresh = machine
    BY <2>4 DEF LatestFilled, Refresh
  <2>5. QED
    BY <2>1, <2>2, <2>3, <2>4
<1>2. CASE Start
  <2>1. UNCHANGED published
    BY <1>2 DEF Start
  <2>2. latest' = latest \/ latest' = MockTopology
    BY <1>2 DEF Start, Initialize
  <2>3. DOMAIN MockTopology.nodes # {}
    <3>1. DOMAIN MockTopology.nodes = 0 .. (MockGpus - 1)
      BY DEF MockTopology
    <3>2. 0 \in 0 .. (MockGpus - 1)
      BY StateAssumption
    <3>3. QED
      BY <3>1, <3>2
  <2>4. QED
    BY <2>1, <2>2, <2>3 DEF LatestFilled, Ready
<1>3. CASE UNCHANGED <<published, latest>>
  BY <1>3 DEF LatestFilled, Ready
<1>4. ASSUME NEW m \in Models, NEW d \in Devices, RegisterModel(m, d) \/ EvictModel(m, d)
      PROVE  UNCHANGED <<published, latest>>
  BY <1>4 DEF RegisterModel, EvictModel, discovery
<1>5. Stop \/ LoopEnd \/ HardwareChange \/ UNCHANGED stateVars => UNCHANGED <<published, latest>>
  BY DEF Stop, LoopEnd, HardwareChange, stateVars, snapshot, discovery
<1>6. QED
  BY <1>1, <1>2, <1>3, <1>4, <1>5 DEF Next, StateNext, RouteTensor, Route, vars

\* A snapshot that is ready has the targets of locality and of the fallback.
LEMMA ReadyHasTargets == StateTypeOK /\ Ready => TargetsExist
<1> SUFFICES ASSUME StateTypeOK, Ready,
                    NEW d \in Descriptors, NEW current \in AtMostOne(Devices),
                    NEW decision \in Locality(current) \cup Fallback(d)
             PROVE  \E t \in published : decision.target \in DOMAIN t.nodes
  BY DEF TargetsExist
<1>1. PICK t \in published : DOMAIN t.nodes # {}
  BY DEF Ready
<1>2. published = {t} /\ t \in Topologies
  BY <1>1 DEF StateTypeOK
<1>3. 0 \in DOMAIN t.nodes /\ t.nvlinks \subseteq (DOMAIN t.nodes) \X (DOMAIN t.nodes)
  BY <1>1, <1>2, Shape
<1>4. CASE decision \in Locality(current)
  <2> DEFINE Peers == {l[2] : l \in {k \in t.nvlinks : k[1] \in current /\ Healthy(t.nodes[k[2]])}}
  <2>1. decision.target \in LeastUsed(t, Peers)
    BY <1>2, <1>4 DEF Locality, Decision
  <2>2. Peers \subseteq DOMAIN t.nodes
    BY <1>3
  <2>3. QED
    BY <1>2, <2>1, <2>2, LeastUsedAmong
<1>5. CASE decision \in Fallback(d)
  <2>1. decision.target = 0 \/ decision.target \in LeastLoaded(d)
    BY <1>5 DEF Fallback, Decision
  <2>2. LeastLoaded(d) \subseteq DOMAIN t.nodes
    BY <1>2, LeastUsedAmong DEF LeastLoaded
  <2>3. QED
    BY <1>2, <1>3, <2>1, <2>2
<1>6. QED
  BY <1>4, <1>5

\* The control plane stops to be ready only by a poll that finds a machine
\* without devices, and what it decides for the locality of a tensor, or for
\* want of anything better, is a device of the snapshot that is ready: for any
\* machines that number their devices from 0.
THEOREM ReadyWhileDevices == Spec => StaysReady
<1>1. Init => LatestFilled
  BY DEF Init, StateInit, LatestFilled, Ready
<1>2. StateTypeOK /\ StateTypeOK' /\ LatestFilled /\ [Next]_vars
        => /\ LatestFilled'
           /\ [/\ Ready /\ ~ Ready' =>
                    Discovers /\ DOMAIN machine.nodes = {} /\ published' = {machine}
               /\ Ready' /\ published' # published => TargetsExist']_vars
  <2>1. StateTypeOK' /\ Ready' => TargetsExist'
    BY ReadyHasTargets, PTL
  <2>2. QED
    BY <2>1, NextReady
<1>3. QED
  BY InitTypes, NextTypes, <1>1, <1>2, PTL DEF Spec, StaysReady

-----------------------------------------------------------------------------
(* The predictor.                                                          *)

\* The window holds a sequence, and the counts are kept below the calls.
Predictor ==
    /\ history \in Seq(CacheKeys) /\ Len(history) <= Window
    /\ ngrams \in [CacheKeys -> [CacheKeys -> Nat]]
    /\ \A a, b \in CacheKeys : ngrams[a][b] <= routed
    /\ routed \in 0 .. MaxRoutes

\* The places of h at which b follows a.
Pairs(h, a, b) == {i \in 1 .. (Len(h) - 1) : h[i] = a /\ h[i + 1] = b}

LEMMA PairsFinite ==
    ASSUME NEW S, NEW h \in Seq(S), NEW a, NEW b
    PROVE  IsFiniteSet(Pairs(h, a, b)) /\ Cardinality(Pairs(h, a, b)) \in Nat
<1>1. IsFiniteSet(1 .. (Len(h) - 1))
  BY FS_Interval
<1>2. Pairs(h, a, b) \subseteq 1 .. (Len(h) - 1)
  BY DEF Pairs
<1>3. QED
  BY <1>1, <1>2, FS_Subset, FS_CardinalityType

\* A key that is appended makes one pair, with the last one before it.
LEMMA PairsAfterAppend ==
    ASSUME NEW S, NEW h \in Seq(S), NEW k \in S, NEW a, NEW b
    PROVE  Cardinality(Pairs(Append(h, k), a, b)) <=
             Cardinality(Pairs(h, a, b))
               + IF Len(h) > 0 /\ h[Len(h)] = a /\ k = b THEN 1 ELSE 0
<1> DEFINE o == Append(h, k)
           n == Len(h)
           P == Pairs(h, a, b)
<1>1. /\ n \in Nat /\ o \in Seq(S) /\ Len(o) = n + 1
      /\ \A i \in 1 .. n : o[i] = h[i]
      /\ o[n + 1] = k
  OBVIOUS
<1>2. \A i \in Pairs(o, a, b) : i \in P \/ (i = n /\ n > 0 /\ h[n] = a /\ k = b)
  <2> SUFFICES ASSUME NEW i \in Pairs(o, a, b)
               PROVE  i \in P \/ (i = n /\ n > 0 /\ h[n] = a /\ k = b)
    OBVIOUS
  <2>1. i \in 1 .. n /\ o[i] = a /\ o[i + 1] = b
    BY <1>1 DEF Pairs
  <2>2. CASE i = n
    BY <1>1, <2>1, <2>2
  <2>3. CASE i # n
    <3>1. i \in 1 .. (n - 1) /\ i + 1 \in 1 .. n
      BY <1>1, <2>1, <2>3
    <3>2. QED
      BY <1>1, <2>1, <3>1 DEF Pairs
  <2>4. QED
    BY <2>2, <2>3
<1>3. IsFiniteSet(P) /\ Cardinality(P) \in Nat
  BY PairsFinite
<1> HIDE DEF o, n, P
<1>4. CASE n > 0 /\ h[n] = a /\ k = b
  <2>1. Pairs(o, a, b) \subseteq P \cup {n}
    BY <1>2
  <2>2. /\ IsFiniteSet(P \cup {n})
        /\ Cardinality(P \cup {n}) = IF n \in P THEN Cardinality(P) ELSE Cardinality(P) + 1
    BY <1>3, FS_AddElement
  <2>3. Cardinality(Pairs(o, a, b)) <= Cardinality(P \cup {n})
        /\ Cardinality(P \cup {n}) \in Nat /\ Cardinality(Pairs(o, a, b)) \in Nat
    BY <2>1, <2>2, FS_Subset, FS_CardinalityType
  <2>4. Cardinality(Pairs(o, a, b)) <= Cardinality(P) + 1
    BY <1>3, <2>2, <2>3
  <2>5. QED
    BY <1>4, <2>4 DEF o, n, P
<1>5. CASE ~ (n > 0 /\ h[n] = a /\ k = b)
  <2>1. Pairs(o, a, b) \subseteq P
    BY <1>2, <1>5
  <2>2. Cardinality(Pairs(o, a, b)) <= Cardinality(P) + 0
    BY <1>3, <2>1, FS_Subset, FS_CardinalityType
  <2>3. QED
    BY <1>5, <2>2 DEF o, n, P
<1>6. QED
  BY <1>4, <1>5

\* What leaves the window takes at most a pair along.
LEMMA PairsOfTail ==
    ASSUME NEW S, NEW h \in Seq(S), h # <<>>, NEW a, NEW b
    PROVE  Cardinality(Pairs(Tail(h), a, b)) <= Cardinality(Pairs(h, a, b))
<1> DEFINE t == Tail(h)
           P == Pairs(h, a, b)
           Q == Pairs(t, a, b)
           f == [i \in Q |-> i + 1]
<1>1. /\ Len(h) \in Nat /\ Len(h) > 0 /\ t \in Seq(S) /\ Len(t) = Len(h) - 1
      /\ \A i \in 1 .. Len(t) : t[i] = h[i + 1]
  OBVIOUS
<1>2. \A i \in Q : i \in Nat /\ i + 1 \in P
  <2> SUFFICES ASSUME NEW i \in Q PROVE i \in Nat /\ i + 1 \in P
    OBVIOUS
  <2>1. i \in 1 .. (Len(t) - 1) /\ t[i] = a /\ t[i + 1] = b
    BY DEF Pairs
  <2>2. i \in 1 .. Len(t) /\ i + 1 \in 1 .. Len(t) /\ i + 1 \in 1 .. (Len(h) - 1)
    BY <1>1, <2>1
  <2>3. h[i + 1] = a /\ h[(i + 1) + 1] = b
    BY <1>1, <2>1, <2>2
  <2>4. QED
    BY <2>2, <2>3 DEF Pairs
<1>3. IsFiniteSet(P)
  BY PairsFinite
<1> HIDE DEF P, Q, t
<1>4. f \in Injection(Q, P)
  <2>1. f \in [Q -> P]
    BY <1>2
  <2>2. IsInjective(f)
    BY <1>2 DEF IsInjective
  <2>3. QED
    BY <2>1, <2>2 DEF Injection
<1> HIDE DEF f
<1>5. Cardinality(Q) <= Cardinality(P)
  BY <1>3, <1>4, FS_Injection
<1>6. QED
  BY <1>5 DEF P, Q, t

\* The window after a key was appended.
LEMMA WindowAfter ==
    ASSUME Predictor, NEW k \in CacheKeys
    PROVE  LET h == Trimmed(Append(history, k))
           IN  /\ h \in Seq(CacheKeys) /\ Len(h) \in Nat /\ Len(h) <= Window
               /\ Len(h) >= 2 => /\ Len(history) > 0
                                 /\ h[Len(h) - 1] = history[Len(history)]
                                 /\ h[Len(h) - 1] \in CacheKeys
               /\ \A a, b : Cardinality(Pairs(h, a, b))
                              <= Cardinality(Pairs(Append(history, k), a, b))
<1> DEFINE n == Len(history)
           o == Append(history, k)
<1>1. /\ n \in Nat /\ n <= Window /\ Window \in Nat \ {0}
      /\ o \in Seq(CacheKeys) /\ Len(o) = n + 1 /\ o # <<>>
      /\ \A i \in 1 .. n : o[i] = history[i] /\ history[i] \in CacheKeys
  <2>1. history \in Seq(CacheKeys) /\ n <= Window
    BY DEF Predictor
  <2>2. Window \in Nat \ {0}
    BY RoutingAssumption
  <2>3. QED
    BY <2>1, <2>2
<1> HIDE DEF o
<1>2. CASE Len(o) <= Window
  <2>1. Trimmed(o) = o
    BY <1>1, <1>2 DEF Trimmed
  <2>2. \A a, b : Cardinality(Pairs(o, a, b)) <= Cardinality(Pairs(o, a, b))
    BY <1>1, PairsFinite
  <2>3. Len(o) >= 2 => n > 0 /\ o[Len(o) - 1] = history[n] /\ o[Len(o) - 1] \in CacheKeys
    BY <1>1
  <2>4. QED
    BY <1>1, <1>2, <2>1, <2>2, <2>3 DEF o
<1>3. CASE Len(o) > Window
  <2> DEFINE t == Tail(o)
  <2>1. Trimmed(o) = t
    BY <1>3 DEF Trimmed
  <2>2. t \in Seq(CacheKeys) /\ Len(t) = n /\ \A i \in 1 .. n : t[i] = o[i + 1]
    BY <1>1
  <2>3. \A a, b : Cardinality(Pairs(t, a, b)) <= Cardinality(Pairs(o, a, b))
    BY <1>1, PairsOfTail
  <2> HIDE DEF t
  <2>4. n >= 2 => t[n - 1] = history[n] /\ t[n - 1] \in CacheKeys
    <3>1. n >= 2 => n - 1 \in 1 .. n /\ (n - 1) + 1 = n /\ n \in 1 .. n
      BY <1>1
    <3>2. QED
      BY <1>1, <2>2, <3>1
  <2>5. QED
    BY <1>1, <2>1, <2>2, <2>3, <2>4 DEF o
<1>4. QED
  BY <1>1, <1>2, <1>3

\* record keeps the predictor in its types, and counts what it appends.
LEMMA RecordCounts ==
    ASSUME Predictor, NgramsCoverHistory, NEW k \in CacheKeys, Record(k),
           routed < MaxRoutes, routed' = routed + 1
    PROVE  Predictor' /\ NgramsCoverHistory'
<1> DEFINE h == Trimmed(Append(history, k))
           n == Len(history)
           x == history[n]
<1>1. /\ h \in Seq(CacheKeys) /\ Len(h) \in Nat /\ Len(h) <= Window
      /\ Len(h) >= 2 => n > 0 /\ h[Len(h) - 1] = x /\ x \in CacheKeys
      /\ \A a, b : Cardinality(Pairs(h, a, b)) <= Cardinality(Pairs(Append(history, k), a, b))
  BY WindowAfter
<1>2. /\ history' = h
      /\ ngrams' = IF Len(h) >= 2 THEN [ngrams EXCEPT ![h[Len(h) - 1]][k] = @ + 1] ELSE ngrams
  BY DEF Record
<1>3. /\ history \in Seq(CacheKeys) /\ n \in Nat
      /\ routed \in Nat /\ MaxRoutes \in Nat /\ routed' \in 0 .. MaxRoutes
      /\ \A a, b \in CacheKeys : ngrams[a][b] \in Nat /\ ngrams[a][b] <= routed
  BY RoutingAssumption DEF Predictor
<1> HIDE DEF h
<1>4. ASSUME NEW a \in CacheKeys, NEW b \in CacheKeys
      PROVE  /\ ngrams'[a][b] = IF Len(h) >= 2 /\ x = a /\ k = b THEN ngrams[a][b] + 1
                                ELSE ngrams[a][b]
             /\ ngrams' \in [CacheKeys -> [CacheKeys -> Nat]]
  <2>1. CASE Len(h) >= 2
    <3>1. ngrams' = [ngrams EXCEPT ![x][k] = @ + 1] /\ x \in CacheKeys
      BY <1>1, <1>2, <2>1
    <3> HIDE DEF x
    <3>2. ngrams \in [CacheKeys -> [CacheKeys -> Nat]]
      BY DEF Predictor
    <3>3. PICK row : row = [ngrams[x] EXCEPT ![k] = ngrams[x][k] + 1]
      OBVIOUS
    <3>4. row \in [CacheKeys -> Nat] /\ row[k] = ngrams[x][k] + 1
          /\ \A c \in CacheKeys \ {k} : row[c] = ngrams[x][c]
      BY <3>1, <3>2, <3>3
    <3>5. ngrams' = [ngrams EXCEPT ![x] = row]
      BY <3>1, <3>3
    <3>6. ngrams' \in [CacheKeys -> [CacheKeys -> Nat]]
      BY <3>1, <3>2, <3>4, <3>5
    <3>7. ngrams'[a] = IF a = x THEN row ELSE ngrams[a]
      BY <3>1, <3>2, <3>5
    <3>8. ngrams[a][b] \in Nat
      BY <3>2
    <3>9. QED
      BY <2>1, <3>4, <3>6, <3>7, <3>8
  <2>2. CASE ~ (Len(h) >= 2)
    BY <1>2, <1>3, <2>2 DEF Predictor
  <2>3. QED
    BY <2>1, <2>2
<1>5. ASSUME NEW a \in CacheKeys, NEW b \in CacheKeys
      PROVE  ngrams'[a][b] <= routed'
  <2>1. ngrams[a][b] \in Nat /\ ngrams[a][b] <= routed /\ routed \in Nat /\ routed' = routed + 1
    BY <1>3
  <2>2. ngrams'[a][b] = ngrams[a][b] \/ ngrams'[a][b] = ngrams[a][b] + 1
    BY <1>4, <2>1
  <2>3. QED
    BY <2>1, <2>2
<1>6. ngrams' \in [CacheKeys -> [CacheKeys -> Nat]]
  BY <1>4
<1>7. Predictor'
  BY <1>1, <1>2, <1>3, <1>5, <1>6 DEF Predictor
<1>8. ASSUME NEW a \in CacheKeys, NEW b \in CacheKeys
      PROVE  Cardinality(Pairs(h, a, b)) <= ngrams'[a][b]
  <2>1. /\ Cardinality(Pairs(h, a, b)) \in Nat
        /\ Cardinality(Pairs(history, a, b)) \in Nat
        /\ Cardinality(Pairs(Append(history, k), a, b)) \in Nat
    <3>1. Append(history, k) \in Seq(CacheKeys)
      BY <1>3
    <3>2. QED
      BY <1>1, <1>3, <3>1, PairsFinite
  <2>2. Cardinality(Pairs(history, a, b)) <= ngrams[a][b]
    BY DEF NgramsCoverHistory, Pairs
  <2>3. CASE Len(h) >= 2
    <3>1. Cardinality(Pairs(Append(history, k), a, b)) <=
            Cardinality(Pairs(history, a, b)) + IF n > 0 /\ x = a /\ k = b THEN 1 ELSE 0
      BY <1>3, PairsAfterAppend
    <3>2. Cardinality(Pairs(h, a, b)) <= Cardinality(Pairs(Append(history, k), a, b))
      BY <1>1
    <3>3. n > 0
      BY <1>1, <2>3
    <3>4. ngrams'[a][b] = IF x = a /\ k = b THEN ngrams[a][b] + 1 ELSE ngrams[a][b]
      BY <1>4, <2>3
    <3>5. ngrams[a][b] \in Nat
      BY <1>3
    <3> HIDE DEF x, n
    <3>6. QED
      BY <2>1, <2>2, <3>1, <3>2, <3>3, <3>4, <3>5
  <2>4. CASE ~ (Len(h) >= 2)
    <3>1. Pairs(h, a, b) = {}
      BY <1>1, <2>4 DEF Pairs
    <3>2. Cardinality(Pairs(h, a, b)) = 0
      BY <3>1, FS_EmptySet
    <3>3. ngrams'[a][b] \in Nat
      BY <1>6
    <3>4. QED
      BY <3>2, <3>3
  <2>5. QED
    BY <2>3, <2>4
<1>9. NgramsCoverHistory'
  <2>1. \A a, b \in CacheKeys :
          Cardinality(Pairs(h, a, b)) <= ngrams'[a][b]
          /\ Cardinality(Pairs(h, a, b)) \in Nat /\ ngrams'[a][b] \in Nat
    BY <1>1, <1>6, <1>8, PairsFinite
  <2>2. QED
    BY <1>2, <2>1 DEF NgramsCoverHistory, Pairs
<1>10. QED
  BY <1>7, <1>9

-----------------------------------------------------------------------------
(* The prefetch queue.                                                     *)

Jobs == [key : CacheKeys, target : Nat]

Queue == prefetch \in Seq(Jobs) /\ Len(prefetch) <= MaxPrefetch

LEMMA DevicesAreNumbers ==
    ASSUME NEW t \in Topologies PROVE DOMAIN t.nodes \subseteq Nat
<1>1. CASE t \in Machines
  BY <1>1, StateAssumption
<1>2. CASE t = EmptyTopology
  BY <1>2 DEF EmptyTopology, NoDevice
<1>3. CASE t = MockTopology
  BY <1>3, StateAssumption DEF MockTopology
<1>4. QED
  BY <1>1, <1>2, <1>3 DEF Topologies

LEMMA FallbackTargets ==
    ASSUME StateTypeOK, NEW d, NEW decision \in Fallback(d)
    PROVE  decision.target \in Nat
<1>1. decision.target = 0 \/ decision.target \in LeastLoaded(d)
  BY DEF Fallback, Decision
<1>2. LeastLoaded(d) \subseteq UNION {DOMAIN t.nodes : t \in published}
  BY LeastUsedAmong DEF LeastLoaded
<1>3. published \subseteq Topologies
  BY DEF StateTypeOK
<1>4. QED
  BY <1>1, <1>2, <1>3, DevicesAreNumbers

\* The first loop of route that decides is the fallback, when none of the
\* others does.
LEMMA LeastLoadedIsFallback ==
    ASSUME NEW d, NEW kv, NEW current, NEW decision \in Decisions(d, kv, current),
           decision.strategy = "least_loaded"
    PROVE  decision \in Fallback(d)
<1> DEFINE A == CacheHit(kv)
           B == Affinity(d)
           C == Locality(current)
           F == Fallback(d)
           tries == <<A, B, C, F>>
           S == {i \in DOMAIN tries : tries[i] # {}}
<1>1. F # {}
  <2>1. \A D : D # {} => Decision("least_loaded", D) # {}
    BY DEF Decision
  <2>2. QED
    BY <2>1 DEF Fallback
<1>2. \A x \in A \cup B \cup C : x.strategy # "least_loaded"
  <2>1. \A D, x : x \in Decision("cache_hit", D) => x.strategy = "cache_hit"
    BY DEF Decision
  <2>2. \A D, x : x \in Decision("vram_affinity", D) => x.strategy = "vram_affinity"
    BY DEF Decision
  <2>3. \A D, x : x \in Decision("nvlink_locality", D) => x.strategy = "nvlink_locality"
    BY DEF Decision
  <2>4. QED
    BY <2>1, <2>2, <2>3 DEF CacheHit, Affinity, Locality
<1>3. Decisions(d, kv, current) = tries[Min(S)]
  BY DEF Decisions
<1> HIDE DEF A, B, C, F
<1>4. DOMAIN tries = 1 .. 4 /\ tries[1] = A /\ tries[2] = B /\ tries[3] = C /\ tries[4] = F
  OBVIOUS
<1> HIDE DEF tries
<1>5. S \subseteq {1, 2, 3, 4} /\ 4 \in S
  BY <1>1, <1>4
<1> HIDE DEF S
<1>6. \E i \in S : \A j \in S : i <= j
  <2>1. CASE 1 \in S
    BY <1>5, <2>1
  <2>2. CASE 1 \notin S /\ 2 \in S
    BY <1>5, <2>2
  <2>3. CASE 1 \notin S /\ 2 \notin S /\ 3 \in S
    BY <1>5, <2>3
  <2>4. CASE 1 \notin S /\ 2 \notin S /\ 3 \notin S
    BY <1>5, <2>4
  <2>5. QED
    BY <2>1, <2>2, <2>3, <2>4
<1>7. Min(S) \in S
  BY <1>6 DEF Min
<1>8. decision \in A \cup B \cup C \/ decision \in F
  <2>1. decision \in tries[Min(S)]
    BY <1>3
  <2>2. Min(S) = 1 \/ Min(S) = 2 \/ Min(S) = 3 \/ Min(S) = 4
    BY <1>5, <1>7
  <2>3. QED
    BY <1>4, <2>1, <2>2
<1>9. QED
  BY <1>2, <1>8 DEF F

\* A routed tensor puts at most one job into the queue, within its limit.
LEMMA RouteQueues ==
    ASSUME StateTypeOK, Queue, NEW d \in Descriptors, NEW kv, NEW current,
           Route(d, kv, current)
    PROVE  Queue'
<1>1. PICK decision \in Decisions(d, kv, current) :
        IF decision.strategy = "least_loaded"
        THEN MaybePrefetch(d, decision.target) ELSE UNCHANGED prefetch
  BY DEF Route
<1>2. CASE decision.strategy = "least_loaded"
  <2>1. decision.target \in Nat
    BY <1>2, LeastLoadedIsFallback, FallbackTargets
  <2>2. PICK job : job = [key |-> d.key, target |-> decision.target]
    OBVIOUS
  <2>3. job \in Jobs
    BY <2>1, <2>2 DEF Jobs, CacheKeys
  <2>4. \/ prefetch' = prefetch
        \/ Len(prefetch) < MaxPrefetch /\ prefetch' = Append(prefetch, job)
    BY <1>1, <1>2, <2>2 DEF MaybePrefetch
  <2>5. prefetch \in Seq(Jobs) /\ Len(prefetch) <= MaxPrefetch
    BY DEF Queue
  <2>6. CASE prefetch' = prefetch
    BY <2>5, <2>6 DEF Queue
  <2>7. CASE Len(prefetch) < MaxPrefetch /\ prefetch' = Append(prefetch, job)
    <3>1. Len(prefetch) \in Nat /\ MaxPrefetch \in Nat
      BY <2>5, RoutingAssumption
    <3>2. prefetch' \in Seq(Jobs) /\ Len(prefetch') = Len(prefetch) + 1
      BY <2>3, <2>5, <2>7
    <3>3. QED
      BY <2>7, <3>1, <3>2 DEF Queue
  <2>8. QED
    BY <2>4, <2>6, <2>7
<1>3. CASE decision.strategy # "least_loaded"
  BY <1>1, <1>3 DEF Queue
<1>4. QED
  BY <1>2, <1>3

-----------------------------------------------------------------------------
(* The engine.                                                             *)

EngineInv == StateTypeOK /\ Predictor /\ NgramsCoverHistory /\ Queue

LEMMA EngineInvariant == Spec => []EngineInv
<1>1. Init => EngineInv
  <2> SUFFICES ASSUME Init PROVE EngineInv
    OBVIOUS
  <2>1. /\ history = <<>> /\ prefetch = <<>> /\ routed = 0
        /\ ngrams = [a \in CacheKeys |-> [b \in CacheKeys |-> 0]]
    BY DEF Init
  <2>2. Predictor /\ Queue
    BY <2>1, RoutingAssumption DEF Predictor, Queue
  <2>3. \A a, b : Pairs(history, a, b) = {}
    BY <2>1 DEF Pairs
  <2>4. NgramsCoverHistory
    <3>1. \A a, b \in CacheKeys : Cardinality(Pairs(history, a, b)) = 0 /\ ngrams[a][b] = 0
      BY <2>1, <2>3, FS_EmptySet
    <3>2. QED
      BY <3>1 DEF NgramsCoverHistory, Pairs
  <2>5. QED
    BY <2>2, <2>4, InitTypes DEF EngineInv
<1>2. EngineInv /\ [Next]_vars => EngineInv'
  <2> SUFFICES ASSUME EngineInv, [Next]_vars PROVE EngineInv'
    OBVIOUS
  <2>1. StateTypeOK'
    BY NextTypes DEF EngineInv
  <2>2. CASE UNCHANGED engineVars
    BY <2>1, <2>2 DEF EngineInv, engineVars, Predictor, NgramsCoverHistory, Queue
  <2>3. CASE RouteTensor
    <3>1. PICK d \in Descriptors, kv \in AtMostOne(Devices), current \in AtMostOne(Devices) :
            Route(d, kv, current)
      BY <2>3 DEF RouteTensor
    <3>2. Queue'
      BY <3>1, RouteQueues DEF EngineInv
    <3>3. d.key \in CacheKeys /\ Record(d.key) /\ routed < MaxRoutes /\ routed' = routed + 1
      BY <3>1 DEF Route, CacheKeys
    <3>4. Predictor' /\ NgramsCoverHistory'
      BY <3>3, RecordCounts DEF EngineInv
    <3>5. QED
      BY <2>1, <3>2, <3>4 DEF EngineInv
  <2>4. QED
    BY <2>2, <2>3 DEF Next, vars
<1>3. QED
  BY <1>1, <1>2, PTL DEF Spec

\* The types of the engine, with the limits of the window, of the counts and
\* of the prefetch queue, whatever is routed while polls come and go.
THEOREM EngineTypeCorrect == Spec => []TypeOK
<1>1. EngineInv => TypeOK
  <2> SUFFICES ASSUME EngineInv PROVE TypeOK
    OBVIOUS
  <2>1. history \in UNION {[1 .. n -> CacheKeys] : n \in 0 .. Window}
    <3>1. /\ history \in [1 .. Len(history) -> CacheKeys]
          /\ Len(history) \in Nat /\ Len(history) <= Window
      BY DEF EngineInv, Predictor
    <3>2. Window \in Nat
      BY RoutingAssumption
    <3>3. QED
      BY <3>1, <3>2
  <2>2. ngrams \in [CacheKeys -> [CacheKeys -> 0 .. MaxRoutes]]
    <3>1. /\ ngrams \in [CacheKeys -> [CacheKeys -> Nat]]
          /\ routed \in Nat /\ routed <= MaxRoutes /\ MaxRoutes \in Nat
          /\ \A a, b \in CacheKeys : ngrams[a][b] <= routed
      BY RoutingAssumption DEF EngineInv, Predictor
    <3>2. \A a, b \in CacheKeys : ngrams[a][b] \in 0 .. MaxRoutes
      <4>1. \A a, b \in CacheKeys : ngrams[a][b] \in Nat
        BY <3>1
      <4>2. QED
        BY <3>1, <4>1
    <3>3. QED
      BY <3>1, <3>2
  <2>3. /\ Len(prefetch) <= MaxPrefetch
        /\ \A i \in DOMAIN prefetch : prefetch[i].key \in CacheKeys /\ prefetch[i].target \in Nat
    <3>1. \A i \in DOMAIN prefetch : prefetch[i] \in Jobs
      BY DEF EngineInv, Queue
    <3>2. QED
      BY <3>1 DEF EngineInv, Queue, Jobs
  <2>4. QED
    BY <2>1, <2>2, <2>3 DEF TypeOK, EngineInv, Predictor
<1>2. QED
  BY <1>1, EngineInvariant, PTL

\* NgramsCoverHistory: however long the window has been sliding, every pair
\* of neighbours that is in it has been counted.
THEOREM CountsCoverWindow == Spec => []NgramsCoverHistory
<1>1. EngineInv => NgramsCoverHistory
  BY DEF EngineInv
<1>2. QED
  BY <1>1, EngineInvariant, PTL

=============================================================================
