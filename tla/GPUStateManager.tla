-------------------------- MODULE GPUStateManager --------------------------
(***************************************************************************)
(* GPUStateManager and the GPUTopologyDiscovery it owns: poll loops that   *)
(* publish snapshots of the hardware, and the registry of models, which    *)
(* both the registrations and the polls write into the published nodes.    *)
(*                                                                         *)
(* The lock of a poll guards code that awaits nothing, so that a poll is   *)
(* one step.  The state machine is given as StateInit and StateNext, which *)
(* the module of the routing engine composes with its own.                 *)
(***************************************************************************)
EXTENDS Integers, FiniteSets

CONSTANTS
    Devices,   \* the devices that models are registered on
    Models,
    Machines,  \* what NVML can report: topologies
    MockGpus,  \* devices of the mock topology, 8 in the code
    MaxLoops   \* bound of the model: poll loops at a time

\* A node is a record of util, free, total and temp; the devices of a
\* topology are the domain of its nodes.  NVML numbers its devices from 0,
\* and may know none.
ASSUME StateAssumption ==
    /\ \A t \in Machines :
        /\ DOMAIN t.nodes \subseteq Nat
        /\ DOMAIN t.nodes # {} => 0 \in DOMAIN t.nodes
        /\ t.nodes \in [DOMAIN t.nodes -> [util : Nat, free : Nat, total : Nat, temp : Nat]]
        /\ t.nvlinks \subseteq (DOMAIN t.nodes) \X (DOMAIN t.nodes)
    /\ MockGpus \in 1 .. 8
    /\ MaxLoops \in Nat

VARIABLES
    machine,    \* the hardware
    driver,     \* "up", "faulty" when a query of some device raises, or "down"
    pynvml,     \* PYNVML_AVAILABLE
    inited,     \* nvmlInit has succeeded
    latest,     \* _discovery._topology, but for its loaded_models
    published,  \* {} or the one topology that is _topology
    shared,     \* _topology is the object _discovery._topology
    loaded,     \* loaded_models of the nodes of _topology
    registry,   \* _model_registry: its keys are models that were named
    running,    \* _running
    loops       \* poll loops that have not ended

hardware  == <<machine, driver, pynvml>>
discovery == <<inited, latest>>
snapshot  == <<published, shared, loaded>>
tasks     == <<running, loops>>
stateVars == <<hardware, discovery, snapshot, registry, tasks>>

-----------------------------------------------------------------------------
(* Topologies.                                                             *)

NoDevice      == [d \in {} |-> {}]
EmptyTopology == [nodes |-> NoDevice, nvlinks |-> {}]

\* _mock_topology: its devices are idle to busy in the order of their ids,
\* all healthy, and all linked.
MockTopology ==
    LET ids == 0 .. (MockGpus - 1)
    IN  [nodes   |-> [i \in ids |-> [util |-> 12 * i, free |-> 81920 - 8192 * i,
                                     total |-> 81920, temp |-> 55 + 3 * i]],
         nvlinks |-> {l \in ids \X ids : l[1] # l[2]}]

\* is_healthy: a total of 0 counts as no use.
Healthy(n) ==
    /\ n.temp < 85
    /\ n.total # 0 => 100 * (n.total - n.free) < 95 * n.total
    /\ n.util < 98

\* min(..., key = compute_util_pct) over the devices D of a topology.
LeastUsed(t, D) == {d \in D : \A e \in D : t.nodes[d].util <= t.nodes[e].util}

\* GPUTopology.gpus_with_model, of the published topology.
SnapshotGpusWith(m) == {d \in DOMAIN loaded : m \in loaded[d]}

-----------------------------------------------------------------------------
(* The registry of models.                                                 *)

\* GPUStateManager.gpus_with_model.
GpusWithModel(m) == IF m \in DOMAIN registry THEN registry[m] ELSE {}

\* _model_registry_for.
ModelsOn(d) == {m \in DOMAIN registry : d \in registry[m]}

\* The registry with D for the devices of m, which is a key from now on.
Registered(m, D) ==
    [n \in DOMAIN registry \cup {m} |-> IF n = m THEN D ELSE registry[n]]

\* register_model: a device that is not in the snapshot is registered too.
RegisterModel(m, d) ==
    /\ registry' = Registered(m, GpusWithModel(m) \cup {d})
    /\ loaded' = [e \in DOMAIN loaded |-> IF e = d THEN loaded[e] \cup {m} ELSE loaded[e]]
    /\ UNCHANGED <<hardware, discovery, published, shared, tasks>>

\* Mutant: the published node is left to the next poll.
EvictLate(m, d) ==
    /\ registry' = Registered(m, GpusWithModel(m) \ {d})
    /\ UNCHANGED <<hardware, discovery, snapshot, tasks>>

\* evict_model: a model that was never registered becomes a key as well.
EvictModel(m, d) ==
    /\ registry' = Registered(m, GpusWithModel(m) \ {d})
    /\ loaded' = [e \in DOMAIN loaded |-> IF e = d THEN loaded[e] \ {m} ELSE loaded[e]]
    /\ UNCHANGED <<hardware, discovery, published, shared, tasks>>

-----------------------------------------------------------------------------
(* Discovery and polls.                                                    *)

\* initialize: without NVML the mock topology takes the place of whatever
\* was discovered before.
Initialize ==
    IF pynvml /\ driver # "down"
    THEN inited' = TRUE /\ UNCHANGED <<latest, shared>>
    ELSE latest' = MockTopology /\ shared' = FALSE /\ UNCHANGED inited

Start ==
    /\ loops < MaxLoops
    /\ Initialize
    /\ running' = TRUE
    /\ loops' = loops + 1
    /\ UNCHANGED <<hardware, published, loaded, registry>>

Stop ==
    /\ running
    /\ running' = FALSE
    /\ UNCHANGED <<hardware, discovery, snapshot, registry, loops>>

\* refresh raises nothing: it discovers the hardware, or falls back.
Discovers == pynvml /\ inited /\ driver = "up"

\* Mutant: what was discovered once is returned again.
RefreshOnce == IF Discovers /\ latest = EmptyTopology THEN machine ELSE latest

\* Mutant: a discovery that fails has found nothing.
RefreshOrNothing == IF Discovers THEN machine ELSE EmptyTopology

\* The topology that refresh returns: a new object, or the last one.
Refresh == IF Discovers THEN machine ELSE latest

\* A pass of a poll loop.  The nodes of a new object have no loaded_models,
\* and as long as no model has been named the poll leaves them alone.
Poll ==
    LET top  == Refresh
        kept == IF shared /\ ~ Discovers THEN loaded ELSE [d \in DOMAIN top.nodes |-> {}]
    IN  /\ running /\ loops > 0
        /\ latest' = top
        /\ published' = {top}
        /\ shared' = TRUE
        /\ loaded' = IF DOMAIN registry = {} THEN kept
                     ELSE [d \in DOMAIN top.nodes |-> ModelsOn(d)]
        /\ UNCHANGED <<hardware, inited, registry, tasks>>

\* Mutant: a loop that finds the manager stopped sleeps on.
LoopSleeps ==
    /\ ~ running /\ loops > 0
    /\ UNCHANGED stateVars

\* A poll loop wakes and finds the manager stopped.
LoopEnd ==
    /\ ~ running /\ loops > 0
    /\ loops' = loops - 1
    /\ UNCHANGED <<hardware, discovery, snapshot, registry, running>>

\* Devices and driver come and go; without pynvml nobody asks them.
HardwareChange ==
    /\ pynvml
    /\ machine' \in Machines
    /\ driver' \in {"up", "faulty", "down"}
    /\ UNCHANGED <<pynvml, discovery, snapshot, registry, tasks>>

StateInit ==
    /\ machine \in Machines
    /\ driver \in {"up", "faulty", "down"}
    /\ pynvml \in BOOLEAN
    /\ inited = FALSE
    /\ latest = EmptyTopology
    /\ published = {}
    /\ shared = FALSE
    /\ loaded = NoDevice
    /\ registry = NoDevice
    /\ running = FALSE
    /\ loops = 0

StateNext ==
    \/ \E m \in Models, d \in Devices : RegisterModel(m, d)
    \/ \E m \in Models, d \in Devices : EvictModel(m, d)
    \/ Start
    \/ Stop
    \/ Poll
    \/ LoopEnd
    \/ HardwareChange

-----------------------------------------------------------------------------
(* Properties.                                                             *)

Topologies == Machines \cup {EmptyTopology, MockTopology}

\* Types, and how the parts of a snapshot fit: loaded is about the nodes of
\* the published topology.
StateTypeOK ==
    /\ machine \in Machines
    /\ driver \in {"up", "faulty", "down"}
    /\ pynvml \in BOOLEAN /\ inited \in BOOLEAN /\ shared \in BOOLEAN
    /\ latest \in Topologies
    /\ published = {} \/ \E t \in Topologies : published = {t}
    /\ published = {} => loaded = NoDevice
    /\ \A t \in published : loaded \in [DOMAIN t.nodes -> SUBSET Models]
    /\ shared => published = {latest}
    /\ DOMAIN registry \subseteq Models
    /\ registry \in [DOMAIN registry -> SUBSET Devices]
    /\ running \in BOOLEAN
    /\ loops \in 0 .. MaxLoops

\* The two queries named gpus_with_model agree at all times: the devices of
\* the published snapshot that list a model as loaded are those of them on
\* which the registry has it, whatever polls, fallbacks, restarts and
\* registrations before the first snapshot precede.
PlacementsAgree ==
    \A m \in Models : SnapshotGpusWith(m) = GpusWithModel(m) \cap DOMAIN loaded

\* After a failure of the driver, or a change of the hardware, the snapshot
\* shows the machine again, as long as NVML was initialized and the manager
\* runs: refresh falls back for the time of the failure only.
SnapshotRecovers ==
    (running /\ Discovers) ~> (published = {machine} \/ ~ running \/ ~ Discovers)

\* A manager that is stopped for good polls no more, however many loops
\* overlapping starts have left.
StopEndsPolling == ~ running ~> (running \/ loops = 0)

=============================================================================
