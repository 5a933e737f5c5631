--------------------------- MODULE MCTensorRouter ---------------------------
(***************************************************************************)
(* A small instance of TensorRouter for TLC.                               *)
(***************************************************************************)
EXTENDS TensorRouter

MCGPUs    == 0 .. 2
MCGroups  == {{0, 1}}
MCShards  == [g \in GPUs |-> 6 * 2 ^ g]

\* One that NCCL handles, and an array of numpy.
MCTensors == {[nbytes |-> 2, dtype |-> "float16", cupy |-> TRUE],
              [nbytes |-> 3, dtype |-> "int8", cupy |-> FALSE]}

=============================================================================
