---------------------------- MODULE MCNIMClient ----------------------------
(***************************************************************************)
(* Small instances of NIMClient for TLC, and a claim of the repository     *)
(* about it that the code does not keep.                                   *)
(***************************************************************************)
EXTENDS NIMClient

\* "[Simulated response ... NIM not connected]": a response is simulated
\* because NIM did not serve the request.
SimulatedMeansNotConnected ==
    \A r \in Requests : answer[r] = "simulated" => r \in refused

=============================================================================
