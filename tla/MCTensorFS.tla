----------------------------- MODULE MCTensorFS -----------------------------
(***************************************************************************)
(* Small instances of TensorFS for TLC, and a claim of the code about      *)
(* itself that it does not keep.                                           *)
(***************************************************************************)
EXTENDS TensorFS

\* Dtypes of half the size of another, one of which numpy does not know.
MCDtypes   == {"bfloat16", "float16", "float32"}
MCSize     == [d \in MCDtypes |-> IF d = "float32" THEN 2 ELSE 1]
MCReadable == MCDtypes \ {"bfloat16"}

\* "Metadata (shape, dtype, model affinity) is the primary key": a tensor
\* that was written stays stored while no tensor of the same key and the same
\* dtype is written, as long as nothing is deleted or lost.
DtypesAreApart ==
    \A i \in DOMAIN ops :
        (/\ ops[i].kind = "write" /\ ops[i].phase = "done"
         /\ \A j \in Writes(ops[i].key) : j # i => ops[j].dtype # ops[i].dtype)
            => index[ops[i].key] = i

=============================================================================
