------------------------------ MODULE MCProbe -------------------------------
(***************************************************************************)
(* The bridge controllers of the devicetrees, in the order of              *)
(* soc->devices: the last node is at the head.  The AST2600 has two debug  *)
(* UARTs, of which one is enough here.                                     *)
(***************************************************************************)
EXTENDS Probe

AllSocs ==
  [g4 |-> <<"ilpcctl", "pciectl">>,
   g5 |-> <<"ilpcctl", "pciectl", "debugctl">>,
   g6 |-> <<"ilpcctl", "debugctl", "pciectl">>]

MCBridges ==
  [ilpcctl |-> <<"ilpc">>, debugctl |-> <<"debug">>, pciectl |-> <<"p2a", "xdma">>]

=============================================================================
