--------------------------- MODULE BatchAggregator ---------------------------
(***************************************************************************)
(* BatchAggregator: requests queue up per model, a loop task forms batches *)
(* of what it finds every few milliseconds and starts a task for each that *)
(* hands it to dispatch_fn.  No coroutine awaits while it holds the lock,  *)
(* so submit and one round of the loop are atomic.                         *)
(***************************************************************************)
EXTENDS BatchForming

CONSTANTS
    Models,        \* model ids
    Lengths,       \* sequence lengths of requests
    HasDispatchFn, \* the aggregator was given a dispatch_fn; the mesh gives none
    MaxRequests,   \* bound of the model: submissions
    MaxLoops       \* bound of the model: loop tasks alive at a time

ASSUME AggregatorAssumption ==
    /\ Lengths \subseteq Nat
    /\ HasDispatchFn \in BOOLEAN
    /\ MaxRequests \in Nat
    /\ MaxLoops \in Nat

VARIABLES
    submitted,   \* the requests submitted so far
    models,      \* the keys of _queues, in the order of insertion
    queue,       \* queue[m]: _queues[m]; <<>> also when there is none
    running,     \* _running
    loops,       \* number of _aggregation_loop tasks alive
    dispatching, \* batches whose _dispatch task has not run yet
    ended        \* batches whose _dispatch task has ended, with the outcome

vars == <<submitted, models, queue, running, loops, dispatching, ended>>

-----------------------------------------------------------------------------

\* Mutant: the queue of a new model is not registered.
SubmitUnlisted(m, n) ==
    LET r == [id |-> Cardinality(submitted) + 1, model |-> m, len |-> n]
    IN  /\ Cardinality(submitted) < MaxRequests
        /\ submitted' = submitted \cup {r}
        /\ queue' = [queue EXCEPT ![m] = Append(@, r)]
        /\ UNCHANGED <<models, running, loops, dispatching, ended>>

\* submit.  Requests are told apart by their number.
Submit(m, n) ==
    LET r == [id |-> Cardinality(submitted) + 1, model |-> m, len |-> n]
    IN  /\ Cardinality(submitted) < MaxRequests
        /\ submitted' = submitted \cup {r}
        /\ models' = IF m \in Range(models) THEN models ELSE Append(models, m)
        /\ queue' = [queue EXCEPT ![m] = Append(@, r)]
        /\ UNCHANGED <<running, loops, dispatching, ended>>

\* start: every call adds a loop task.
Start ==
    /\ loops < MaxLoops
    /\ running' = TRUE
    /\ loops' = loops + 1
    /\ UNCHANGED <<submitted, models, queue, dispatching, ended>>

Stop ==
    /\ running' = FALSE
    /\ UNCHANGED <<submitted, models, queue, loops, dispatching, ended>>

\* The batches formed of the queue of m, and whether forming them raises.
BatchesOf(m) ==
    {[model |-> m, requests |-> b, padded |-> Padded(b)] : b \in Range(FormBatches(queue[m]))}
Raises(m) == \E b \in Range(FormBatches(queue[m])) : ~ Formable(b)

\* The models a round gets to.  An exception that is raised for one model
\* leaves the queues of that model and of the later ones as they are.
Reached ==
    {models[i] : i \in {j \in DOMAIN models : \A h \in 1 .. j : ~ Raises(models[h])}}

\* What is left of q when the requests in K are removed.
Remaining(q, K) ==
    LET left     == {i \in DOMAIN q : q[i] \notin K}
        place(i) == Cardinality({j \in left : j <= i})
    IN  [p \in 1 .. Cardinality(left) |-> q[CHOOSE i \in left : place(i) = p]]

\* Mutant: the batched requests stay in their queue.
AggregateAndKeep ==
    /\ dispatching' = dispatching \cup UNION {BatchesOf(m) : m \in Reached}
    /\ UNCHANGED queue

\* _aggregate_once: batched requests leave the queue, and each batch gets a
\* task.
AggregateOnce ==
    LET formed  == UNION {BatchesOf(m) : m \in Reached}
        batched == UNION {Range(b.requests) : b \in formed}
    IN  /\ queue' = [m \in Models |-> Remaining(queue[m], batched)]
        /\ dispatching' = dispatching \cup formed

\* A loop task awakes while the aggregator runs; it survives any exception.
LoopRound ==
    /\ loops > 0 /\ running
    /\ AggregateOnce
    /\ UNCHANGED <<submitted, models, running, loops, ended>>

\* Mutant: a loop task that finds the aggregator stopped sleeps on.
SleepOn ==
    /\ loops > 0 /\ ~ running
    /\ UNCHANGED vars

\* A loop task awakes when the aggregator was stopped, and ends.
LoopEnd ==
    /\ loops > 0 /\ ~ running
    /\ loops' = loops - 1
    /\ UNCHANGED <<submitted, models, queue, running, dispatching, ended>>

\* _dispatch: asyncio.coroutine does not exist in the Python versions the
\* package requires (3.11 and later); the AttributeError is logged.
DispatchOutcome == IF HasDispatchFn THEN "error" ELSE "no dispatch_fn"

\* Mutant: what could not be dispatched is queued again.
DispatchRequeues(b) ==
    /\ b \in dispatching
    /\ dispatching' = dispatching \ {b}
    /\ queue' = [queue EXCEPT ![b.model] = b.requests \o @]
    /\ UNCHANGED <<submitted, models, running, loops, ended>>

Dispatch(b) ==
    /\ b \in dispatching
    /\ dispatching' = dispatching \ {b}
    /\ ended' = ended \cup {[batch |-> b, outcome |-> DispatchOutcome]}
    /\ UNCHANGED <<submitted, models, queue, running, loops>>

Init ==
    /\ submitted = {}
    /\ models = <<>>
    /\ queue = [m \in Models |-> <<>>]
    /\ running = FALSE
    /\ loops = 0
    /\ dispatching = {}
    /\ ended = {}

Next ==
    \/ \E m \in Models, n \in Lengths : Submit(m, n)
    \/ Start
    \/ Stop
    \/ LoopRound
    \/ LoopEnd
    \/ \E b \in dispatching : Dispatch(b)

\* A round that would batch something.
RoundReady == loops > 0 /\ running /\ \E m \in Reached : FormBatches(queue[m]) # <<>>

\* The event loop runs every task that is ready, and a sleep ends.  The first
\* conjunct is WF_vars(LoopRound), with ENABLED written out as RoundReady.
Fairness ==
    /\ []<>(~ RoundReady) \/ []<><<LoopRound>>_vars
    /\ WF_vars(LoopEnd)

Spec     == Init /\ [][Next]_vars
FairSpec == Spec /\ Fairness

-----------------------------------------------------------------------------
(* Properties.                                                             *)

Batches == dispatching \cup {e.batch : e \in ended}

Requests == [id : Nat, model : Models, len : Lengths]

\* Types: queues hold requests of their own model, and only models that
\* have been seen have a queue.
TypeOK ==
    /\ submitted \subseteq Requests
    /\ Range(models) \subseteq Models
    /\ \A m \in Models :
        /\ Range(queue[m]) \subseteq {r \in Requests : r.model = m}
        /\ queue[m] # <<>> => m \in Range(models)
    /\ running \in BOOLEAN
    /\ loops \in Nat
    /\ \A b \in Batches : b.model \in Models /\ b.requests \in Seq(Requests)

\* No request is lost and none is dispatched twice: each one submitted is
\* either queued once or in one batch, however many loop tasks run and
\* whichever rounds fail half-way.
EachRequestOnce ==
    \A r \in submitted :
        LET queued == UNION {{m} \X {i \in DOMAIN queue[m] : queue[m][i] = r} : m \in Models}
            inside == {b \in Batches : r \in Range(b.requests)}
        IN  Cardinality(queued) + Cardinality(inside) = 1

\* A batch is of one model and within max_batch_size, and its row length
\* takes every request whole.
BatchesFit ==
    \A b \in Batches :
        /\ Len(b.requests) \in 1 .. MaxBatch
        /\ \A r \in Range(b.requests) : r.model = b.model /\ r.len <= b.padded

\* Lengths of different buckets meet only among the first requests of a
\* batch: beyond these a change of bucket splits.
LateRequestsShareBucket ==
    \A b \in Batches : \A i \in (MinSplit + 1) .. Len(b.requests) :
        Bucket(b.requests[i].len) = Bucket(b.requests[i - 1].len)

\* The aggregator implements a pool of requests: whatever rounds fail and
\* however many loops run, every step accepts a request, hands out batches
\* of those that wait, or shows nothing.
Pool == INSTANCE RequestPool WITH
            Requests <- [id : 1 .. MaxRequests, model : Models, len : Lengths],
            Limit    <- MaxBatch,
            waiting  <- UNION {Range(queue[m]) : m \in Models},
            handed   <- {Range(b.requests) : b \in Batches}
ImplementsPool == Pool!Spec

\* Requests that wait in a running aggregator are all batched in the end,
\* unless it is stopped first or a request longer than every bucket, which
\* aborts the rounds, is among them.
Waiting == \E m \in Models : queue[m] # <<>>
Blocked == \E m \in Models : \E r \in Range(queue[m]) : r.len > Padded(<<r>>)
EventuallyBatched == running /\ Waiting ~> ~ running \/ Blocked \/ ~ Waiting

\* The loop tasks of a stopped aggregator end, unless it is started again
\* before they notice.
StopEndsLoops == ~ running ~> (running \/ loops = 0)

=============================================================================
