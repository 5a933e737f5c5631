---------------------------- MODULE TensorRouter ----------------------------
(***************************************************************************)
(* TensorRouter with its in-network reduction: transfers and broadcasts of *)
(* tensors between devices, the table of pending transfers, and allreduce. *)
(*                                                                         *)
(* A copy from device to device awaits once, between its registration and  *)
(* the copy itself, so that other coroutines run in between.  Collectives  *)
(* of NCCL await nothing and are one step.  CUDA and NCCL are modelled by  *)
(* what the router may see of them: a copy may raise, and NCCL may raise   *)
(* before its group is opened, inside the group, or after its launch.      *)
(***************************************************************************)
EXTENDS Integers, Sequences, FiniteSets, FiniteSetsExt, Functions

CONSTANTS
    GPUs,       \* device ids
    Sources,    \* the devices that callers send from
    Groups,     \* the sets of devices that callers reduce over
    Operations, \* what they reduce with: "sum", "max" or "mean"
    Tensors,    \* descriptors: nbytes, dtype, and whether the array is a cupy one
    Shards,     \* what the devices hold of every tensor at first, no negative number
    Junk,       \* the value of an array that nothing meaningful was written to
    MaxCalls,   \* bound of the model: transfers and broadcasts
    MaxRequests \* bound of the model: those and calls of allreduce

ASSUME RouterAssumption ==
    /\ IsFiniteSet(GPUs)
    /\ Sources \subseteq GPUs /\ Groups \subseteq (SUBSET GPUs) \ {{}}
    /\ Operations \subseteq {"sum", "max", "mean"}
    /\ \A t \in Tensors : t.nbytes \in Nat /\ t.cupy \in BOOLEAN
    /\ Shards \in [GPUs -> Nat]
    /\ Junk \notin Int
    /\ MaxCalls \in Nat /\ MaxRequests \in Nat

VARIABLES
    platform,   \* what is installed: "numpy", "cupy", or "nccl" with cupy
    shard,      \* shard[t][g]: the array of tensor t on device g
    calls,      \* the transfers and broadcasts, in the order of the calls
    pending,    \* pending[t]: the job under the id of t in _pending, {} if none
    completed,  \* _completed
    total,      \* _total_bytes
    groupOpen,  \* an NCCL group was opened and never ended
    reductions  \* history: the calls of allreduce

ledger == <<pending, completed, total>>
vars   == <<platform, shard, calls, ledger, groupOpen, reductions>>

-----------------------------------------------------------------------------
(* Transfers and broadcasts.  A call is a record of the state and the      *)
(* result of each copy, and of what the array of the source has held since *)
(* the call; a job of the ledger is the number of the call and the device. *)
(* kind "tasks": transfers, registered in _pending; "fallback": the copies *)
(* one after the other once NCCL has raised; "nccl": NCCL has done it.     *)

\* cupy arrays are there only if cupy is.
IsCupy(t) == t.cupy /\ platform # "numpy"

\* _transfer_gpu_to_gpu makes this transfer; others return the array.
Copies(t, src, dst) == src # dst /\ IsCupy(t)

UsesNccl(devices) == platform = "nccl" /\ Cardinality(devices) > 1

MoreRequests == Len(calls) + Len(reductions) < MaxRequests
MoreCalls    == MoreRequests /\ Len(calls) < MaxCalls

NewCall(kind, t, src, to, state, got) ==
    [kind |-> kind, tensor |-> t, src |-> src, state |-> [d \in to |-> state],
     got |-> [d \in to |-> got], held |-> {shard[t][src]}, stale |-> groupOpen]

\* gather, or the loop of the fallback, raises at the first copy that does.
Broken(c) == \E d \in DOMAIN c.state : c.state[d] = "failed"

\* The caller has the result.
Returned(c) == \A d \in DOMAIN c.state : c.state[d] = "done"

Ended(c) == Broken(c) \/ Returned(c)

\* The destination gets what the array holds by now.
Copied(i, d) ==
    calls' = [calls EXCEPT ![i].state[d] = "done",
                           ![i].got[d] = shard[calls[i].tensor][calls[i].src]]

\* Mutant: the entry stays when the array is returned as it is.
CompleteInPlace(i, d) ==
    LET t == calls[i].tensor
    IN  /\ pending' = [pending EXCEPT ![t] =
                           IF Copies(t, calls[i].src, d) THEN {} ELSE {<<i, d>>}]
        /\ completed' = Append(completed, <<i, d>>)
        /\ total' = total + t.nbytes

\* The rest of transfer: the entry of the tensor is popped, whichever job it
\* names.
Complete(i, d) ==
    LET t == calls[i].tensor
    IN  /\ pending' = [pending EXCEPT ![t] = {}]
        /\ completed' = Append(completed, <<i, d>>)
        /\ total' = total + t.nbytes

\* Mutant: the jobs of a tensor are collected.
StartTransferAdds(i, d) ==
    LET c == calls[i]
    IN  /\ c.kind = "tasks" /\ c.state[d] = "waiting"
        /\ IF Copies(c.tensor, c.src, d)
           THEN /\ calls' = [calls EXCEPT ![i].state[d] = "copying"]
                /\ pending' = [pending EXCEPT ![c.tensor] = @ \cup {<<i, d>>}]
                /\ UNCHANGED <<completed, total>>
           ELSE Copied(i, d) /\ Complete(i, d)
        /\ UNCHANGED <<platform, shard, groupOpen, reductions>>

\* transfer, up to its await if there is one: in the coroutine of the caller,
\* or in a task of gather.
StartTransfer(i, d) ==
    LET c == calls[i]
    IN  /\ c.kind = "tasks" /\ c.state[d] = "waiting"
        /\ IF Copies(c.tensor, c.src, d)
           THEN /\ calls' = [calls EXCEPT ![i].state[d] = "copying"]
                /\ pending' = [pending EXCEPT ![c.tensor] = {<<i, d>>}]
                /\ UNCHANGED <<completed, total>>
           ELSE Copied(i, d) /\ Complete(i, d)
        /\ UNCHANGED <<platform, shard, groupOpen, reductions>>

\* cp.array has copied what the source holds by now.
FinishTransfer(i, d) ==
    /\ calls[i].kind = "tasks" /\ calls[i].state[d] = "copying"
    /\ Copied(i, d)
    /\ Complete(i, d)
    /\ UNCHANGED <<platform, shard, groupOpen, reductions>>

\* Mutant: gather(..., return_exceptions=True).
ReturnException(i, d) ==
    /\ calls[i].kind = "tasks" /\ calls[i].state[d] = "copying"
    /\ calls' = [calls EXCEPT ![i].state[d] = "done"]
    /\ UNCHANGED <<platform, shard, ledger, groupOpen, reductions>>

\* cp.array raises: the entry stays in _pending, and the other transfers of
\* the broadcast go on.
FailTransfer(i, d) ==
    /\ calls[i].kind = "tasks" /\ calls[i].state[d] = "copying"
    /\ calls' = [calls EXCEPT ![i].state[d] = "failed"]
    /\ UNCHANGED <<platform, shard, ledger, groupOpen, reductions>>

\* A copy of the fallback, which is none of the ledger's.
FallbackCopy(i, d) ==
    /\ calls[i].kind = "fallback" /\ calls[i].state[d] = "waiting" /\ ~ Broken(calls[i])
    /\ Copied(i, d) \/ calls' = [calls EXCEPT ![i].state[d] = "failed"]
    /\ UNCHANGED <<platform, shard, ledger, groupOpen, reductions>>

Transfer(t, src, dst) ==
    /\ MoreCalls
    /\ calls' = Append(calls, NewCall("tasks", t, src, {dst}, "waiting", Junk))
    /\ UNCHANGED <<platform, shard, ledger, groupOpen, reductions>>

\* broadcast without NCCL, or to one device.
BroadcastTasks(t, src, dsts) ==
    /\ MoreCalls /\ ~ UsesNccl(dsts)
    /\ calls' = Append(calls, NewCall("tasks", t, src, dsts \ {src}, "waiting", Junk))
    /\ UNCHANGED <<platform, shard, ledger, groupOpen, reductions>>

\* What NCCL has broadcast: 16 bits for each element of a float16 tensor,
\* 32 bits for each of another dtype.  Nothing is launched when an earlier
\* group was left open.
Received(t, src) ==
    IF groupOpen THEN {Junk}
    ELSE IF t.dtype \in {"float16", "float32"} THEN {shard[t][src]}
    ELSE {shard[t][src], Junk}

NcclBroadcast(t, src, dsts) ==
    /\ MoreCalls /\ UsesNccl(dsts) /\ IsCupy(t)
    /\ \E v \in Received(t, src) :
        calls' = Append(calls, NewCall("nccl", t, src, dsts \ {src}, "done", v))
    /\ UNCHANGED <<platform, shard, ledger, groupOpen, reductions>>

\* NCCL raises, inside the group or not; an array that is not a cupy one
\* has no data.ptr, which raises inside it.
NcclBroadcastFails(t, src, dsts) ==
    /\ MoreCalls /\ UsesNccl(dsts)
    /\ \E inside \in BOOLEAN :
        /\ IsCupy(t) \/ inside
        /\ groupOpen' = (groupOpen \/ inside)
    /\ calls' = Append(calls, NewCall("fallback", t, src, dsts \ {src}, "waiting", Junk))
    /\ UNCHANGED <<platform, shard, ledger, reductions>>

-----------------------------------------------------------------------------
(* AllReduce.                                                              *)

\* allreduce_partial, of the shards of the devices D.
Reduction(op, values, D) ==
    LET sum == SumFunctionOnSet(values, D)
    IN  CASE \E g \in D : values[g] = Junk -> Junk
          [] OTHER -> CASE op = "sum"  -> sum
                        [] op = "max"  -> Max({values[g] : g \in D})
                        [] op = "mean" -> sum \div Cardinality(D)

\* What NCCL leaves in an array that it has reduced: it is asked for a sum
\* of float16, whatever the dtype and the operation are.
NcclSum(t, D) == IF t.dtype = "float16" THEN Reduction("sum", shard[t], D) ELSE Junk

\* The arrays of t on the devices S take the value v in place, under the
\* copies that still wait for them.
Overwrite(t, S, v) ==
    /\ shard' = [shard EXCEPT ![t] = [g \in GPUs |-> IF g \in S THEN v ELSE @[g]]]
    /\ calls' = [i \in DOMAIN calls |->
            IF calls[i].tensor = t /\ calls[i].src \in S /\ ~ Ended(calls[i])
            THEN [calls[i] EXCEPT !.held = @ \cup {v}] ELSE calls[i]]

\* What the caller gets of an exception.
NoResult == [g \in {} |-> Junk]

\* One reduced array, which all devices share, or an exception: arrays of
\* several devices, or of different shapes, do not add up.
SwitchResults(op, values, D) == {[g \in D |-> Reduction(op, values, D)], NoResult}

\* The caller gets result, a value for each device, and NCCL has reduced the
\* arrays of the devices S in place.
Reduced(t, op, fault, S, result) ==
    /\ MoreRequests
    /\ reductions' = Append(reductions, [tensor |-> t, op |-> op, fault |-> fault,
                                         stale |-> groupOpen, inPlace |-> S, result |-> result])
    /\ UNCHANGED <<platform, ledger>>

SwitchReduce(t, op, D) ==
    /\ ~ UsesNccl(D)
    /\ \E result \in SwitchResults(op, shard[t], D) : Reduced(t, op, "none", {}, result)
    /\ UNCHANGED <<shard, calls, groupOpen>>

\* Nothing is launched when an earlier group was left open.
NcclReduce(t, op, D) ==
    /\ UsesNccl(D) /\ IsCupy(t)
    /\ LET S == IF groupOpen THEN {} ELSE D
       IN  /\ Overwrite(t, S, NcclSum(t, D))
           /\ Reduced(t, op, "none", S, [g \in D |-> shard'[t][g]])
    /\ UNCHANGED groupOpen

\* Mutant: the handler returns the arrays, taking them for reduced.
NcclFailsUnnoticed(t, op, D, fault) ==
    /\ UsesNccl(D)
    /\ fault \in {"before", "inside", "after"} /\ (IsCupy(t) \/ fault = "inside")
    /\ \E S \in SUBSET D :
        /\ S # {} => fault = "after" /\ ~ groupOpen
        /\ Overwrite(t, S, NcclSum(t, D))
        /\ Reduced(t, op, fault, S, [g \in D |-> shard'[t][g]])
    /\ groupOpen' = (groupOpen \/ fault = "inside")

\* NCCL raises before it has opened the group, inside the group, where no
\* reduction is launched yet (an array that is not a cupy one always does),
\* or after the launch, when it has reduced any of the arrays.  The
\* exception handler sums them as they are by then, which may raise too.
NcclReduceFails(t, op, D, fault) ==
    /\ UsesNccl(D)
    /\ fault \in {"before", "inside", "after"} /\ (IsCupy(t) \/ fault = "inside")
    /\ \E S \in SUBSET D :
        /\ S # {} => fault = "after" /\ ~ groupOpen
        /\ Overwrite(t, S, NcclSum(t, D))
        /\ \E result \in SwitchResults("sum", shard'[t], D) : Reduced(t, op, fault, S, result)
    /\ groupOpen' = (groupOpen \/ fault = "inside")

-----------------------------------------------------------------------------
Init ==
    /\ platform \in {"numpy", "cupy", "nccl"}
    /\ shard = [t \in Tensors |-> Shards]
    /\ calls = <<>>
    /\ pending = [t \in Tensors |-> {}]
    /\ completed = <<>>
    /\ total = 0
    /\ groupOpen = FALSE
    /\ reductions = <<>>

Request ==
    \E t \in Tensors, src \in Sources :
        \/ \E dst \in GPUs : Transfer(t, src, dst)
        \/ \E dsts \in (SUBSET GPUs) \ {{}} :
            \/ BroadcastTasks(t, src, dsts)
            \/ NcclBroadcast(t, src, dsts)
            \/ NcclBroadcastFails(t, src, dsts)

Copy ==
    \E i \in DOMAIN calls : \E d \in DOMAIN calls[i].state :
        \/ StartTransfer(i, d)
        \/ FinishTransfer(i, d)
        \/ FailTransfer(i, d)
        \/ FallbackCopy(i, d)

AllReduce ==
    \E t \in Tensors, op \in Operations, D \in Groups :
        \/ SwitchReduce(t, op, D)
        \/ NcclReduce(t, op, D)
        \/ \E fault \in {"before", "inside", "after"} : NcclReduceFails(t, op, D, fault)

Next == Request \/ Copy \/ AllReduce

Spec == Init /\ [][Next]_vars

-----------------------------------------------------------------------------
(* Properties.                                                             *)

Values == Int \cup {Junk}
Jobs   == {j \in (1 .. MaxCalls) \X GPUs : j[1] \in DOMAIN calls /\ j[2] \in DOMAIN calls[j[1]].state}

\* Types: every entry of the ledger is a job of a call, at most one is
\* pending for a tensor, and a group can be left open only where NCCL is.
TypeOK ==
    /\ \A t \in Tensors : shard[t] \in [GPUs -> Values]
    /\ \A i \in DOMAIN calls :
        /\ calls[i].tensor \in Tensors /\ calls[i].src \in GPUs
        /\ \A d \in DOMAIN calls[i].state :
            /\ calls[i].state[d] \in {"waiting", "copying", "done", "failed"}
            /\ calls[i].got[d] \in Values
    /\ \A t \in Tensors : pending[t] \subseteq Jobs /\ Cardinality(pending[t]) <= 1
    /\ Range(completed) \subseteq Jobs
    /\ total \in Nat
    /\ groupOpen => platform = "nccl"

\* A transfer or a broadcast that returns gives every destination something
\* that the array of the source has held since the call: however the copies
\* of a broadcast interleave with other calls and fail, and whichever of
\* NCCL and the fallback makes them.  The exceptions are a group that an
\* earlier failure has left open, and the 32 bits per element that NCCL
\* is told of for other dtypes than float16.
ReturnedCopiesAreTrue ==
    \A c \in Range(calls) :
        LET lost == c.kind = "nccl" /\ (c.stale \/ c.tensor.dtype \notin {"float16", "float32"})
        IN  Returned(c) /\ ~ lost => \A d \in DOMAIN c.got : c.got[d] \in c.held

\* Although the transfers of a tensor overwrite and pop each other's entry
\* in _pending, those that are done are completed exactly once, with their
\* bytes, and none stays pending: what the ledger still shows when all is
\* quiet are transfers that failed.
LedgerIsTrue ==
    LET done == {j \in Jobs : calls[j[1]].kind = "tasks" /\ calls[j[1]].state[j[2]] = "done"}
    IN  /\ Range(completed) = done /\ Len(completed) = Cardinality(done)
        /\ total = SumFunction([j \in done |-> calls[j[1]].tensor.nbytes])
        /\ \A t \in Tensors : \A j \in pending[t] :
                calls[j[1]].tensor = t /\ calls[j[1]].state[j[2]] \in {"copying", "failed"}

\* No collective before the k-th reduction has changed the arrays of its
\* tensor, and the k-th has not failed when it had changed some itself.
Undisturbed(k) ==
    LET r == reductions[k]
    IN  /\ \A j \in 1 .. k - 1 : reductions[j].tensor = r.tensor => reductions[j].inPlace = {}
        /\ r.fault = "after" => r.inPlace = {}

\* Whatever reductions of a float16 tensor fail, half-way ones included, and
\* are called again, a sum that returns counts what every device held at
\* first: nothing is lost with the arrays that NCCL has reduced in place or
\* not yet.  It counts it exactly once as long as no array was reduced in
\* place before, so that to repeat a call that failed before its launch is
\* safe; after a launch some count several times.  What a collective "sums"
\* that is not launched, under a group that was left open, is excepted.
SumsCountEveryShard ==
    \A k \in DOMAIN reductions :
        LET r   == reductions[k]
            D   == DOMAIN r.result
            all == SumFunctionOnSet(Shards, D)
        IN  /\ r.op = "sum" /\ r.tensor.dtype = "float16"
            /\ ~ (UsesNccl(D) /\ r.stale /\ r.fault = "none")
            => \A g \in D : r.result[g] >= all /\ (Undisturbed(k) => r.result[g] = all)

=============================================================================
