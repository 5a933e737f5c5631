--------------------------- MODULE MCControlPlane ---------------------------
(***************************************************************************)
(* A small instance of the control plane for TLC.                          *)
(***************************************************************************)
EXTENDS RoutingEngine

Gpu(util, free, temp) == [util |-> util, free |-> free, total |-> 16, temp |-> temp]

Linked == {<<0, 1>>, <<1, 0>>}

\* Two linked devices, of which the less used one is too hot and too full
\* for the input; that one alone, which then has the index 0; and none.
MCMachines ==
    {EmptyTopology,
     [nodes |-> [d \in 0 .. 1 |-> IF d = 0 THEN Gpu(60, 8, 60) ELSE Gpu(10, 4, 90)], nvlinks |-> Linked],
     [nodes |-> [d \in 0 .. 0 |-> Gpu(10, 4, 90)], nvlinks |-> {}]}

\* A weight and an input of the model.
MCDescriptors ==
    {[key |-> "weight", model |-> "m", weight |-> TRUE, mb |-> 4],
     [key |-> "input", model |-> "m", weight |-> FALSE, mb |-> 6]}

=============================================================================
