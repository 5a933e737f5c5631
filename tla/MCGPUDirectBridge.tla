-------------------------- MODULE MCGPUDirectBridge --------------------------
(***************************************************************************)
(* A small instance of GPUDirectBridge for TLC.                            *)
(***************************************************************************)
EXTENDS GPUDirectBridge

\* Two tensors, one after the other.
MCSlots == {[offset |-> 0, size |-> 2], [offset |-> 2, size |-> 1]}

=============================================================================
