---------------------------- MODULE MCBridgeCtl -----------------------------
(***************************************************************************)
(* Every controller of every generation, two of the P2A's filter bits and  *)
(* the two X-DMA bits of the AST2600.                                      *)
(***************************************************************************)
EXTENDS BridgeCtl

\* All that the PCIe controllers look at, or all that the others do.
MCBoots ==
  {b \in AllBoots :
     \/ b.sio = "off" /\ b.hicrb = {} /\ b.gated \subseteq {"p2a", "xdma", "xdma-vga"}
     \/ b.dev = {} /\ b.fn = {} /\ b.ro = {} /\ b.gmp = {} /\ b.gated \subseteq {"ilpc", "debug"}}

\* The AST2400 has no debug UART, which "doesn't support restricted mode".
AllRequests ==
  {<<g, c, m>> \in Gens \X Ctls \X Modes :
     c = "debug" => g # "g4" /\ m # bm_restricted}

=============================================================================
