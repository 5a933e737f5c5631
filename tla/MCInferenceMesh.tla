--------------------------- MODULE MCInferenceMesh ---------------------------
(***************************************************************************)
(* A small instance of InferenceMesh for TLC.                              *)
(***************************************************************************)
EXTENDS InferenceMesh

\* Two conversations one of which has the name of the other as a prefix.
MCModels == {<<"m">>}
MCSeqIds == {<<"s">>, <<"s", "1">>}
MCLayers == {"0"}

=============================================================================
