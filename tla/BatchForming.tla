---------------------------- MODULE BatchForming ----------------------------
(***************************************************************************)
(* How BatchAggregator cuts the queue of a model into batches:             *)
(* _get_bucket, _form_batches and _form_single_batch, as functions of the  *)
(* queue.  A request is a record with at least the field `len', its        *)
(* sequence_length.                                                        *)
(***************************************************************************)
EXTENDS Integers, Sequences, FiniteSets, FiniteSetsExt, Functions

CONSTANTS
    Buckets,    \* config.bucket_sizes
    MaxSeqLen,  \* config.max_seq_len
    MaxBatch,   \* config.max_batch_size
    MinSplit    \* a change of bucket splits only a batch of this size: 4

ASSUME FormingAssumption ==
    /\ Buckets \in Seq(Nat \ {0})
    /\ MaxSeqLen \in Nat \ {0}
    /\ MaxBatch \in Nat \ {0}
    /\ MinSplit \in Nat \ {0}

Bucket(n) ==
    LET wide == {i \in DOMAIN Buckets : n <= Buckets[i]}
    IN  IF wide = {} THEN MaxSeqLen ELSE Buckets[Min(wide)]

\* sorted(queue, key=sequence_length), which is stable.
ByLength(q) ==
    LET before(i, j) == q[i].len < q[j].len \/ (q[i].len = q[j].len /\ i < j)
        place(i)     == Cardinality({j \in DOMAIN q : before(j, i)}) + 1
    IN  [p \in DOMAIN q |-> q[CHOOSE i \in DOMAIN q : place(i) = p]]

MaxLen(b) == Max({b[i].len : i \in DOMAIN b})

\* _form_single_batch: the requests b padded to their bucket.  A request
\* longer than that makes numpy refuse the assignment to its row.
Padded(b)   == Bucket(MaxLen(b))
Formable(b) == MaxLen(b) <= Padded(b)

\* Mutant: off by one in the limit of the batch size.
SplitsLate(cur, n) ==
    \/ Len(cur) > MaxBatch
    \/ Bucket(n) # Bucket(MaxLen(cur)) /\ Len(cur) >= MinSplit

\* Mutant: the bucket of the request is not looked at.
SplitsWhenFull(cur, n) == n >= 0 /\ Len(cur) >= MaxBatch

\* The batch under construction is closed before a request of length n.
Splits(cur, n) ==
    \/ Len(cur) >= MaxBatch
    \/ Bucket(n) # Bucket(MaxLen(cur)) /\ Len(cur) >= MinSplit

\* One round of the loop of _form_batches, for request r: the open batch is
\* closed before r, or takes it.
Take(g, r) ==
    IF g.cur # <<>> /\ Splits(g.cur, r.len)
    THEN [closed |-> Append(g.closed, g.cur), cur |-> <<r>>]
    ELSE [g EXCEPT !.cur = Append(@, r)]

\* The loop: the batches it has closed, and the open one.
Grouped(q) ==
    LET s == ByLength(q)
        after[i \in 0 .. Len(q)] ==
            IF i = 0 THEN [closed |-> <<>>, cur |-> <<>>] ELSE Take(after[i - 1], s[i])
    IN  after[Len(q)]

\* Mutant: the batch that is open at the end is forgotten.
ClosedOnly(q) == Grouped(q).closed

FormBatches(q) ==
    LET g == Grouped(q)
    IN  IF g.cur = <<>> THEN g.closed ELSE Append(g.closed, g.cur)

=============================================================================
