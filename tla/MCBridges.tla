----------------------------- MODULE MCBridges ------------------------------
(***************************************************************************)
(* Three windows, or pages, of two words, the last of them I/O registers.  *)
(* On the debug UART a unit is read or written alone, two words make a     *)
(* line of a dump, and four take two dumps or two uploads.                 *)
(***************************************************************************)
EXTENDS Bridges

\* What a caller may ask for.
MCRequests ==
  {<<o, a, n>> \in Ops \X Addr \X (1 .. 4) :
     a + n <= Size /\ (o \in {"readl", "writel"} => n = 1)}

MCDebugRequests ==
  {<<"readl", 0, 1>>, <<"writel", 1, 1>>, <<"writel", Reload, 1>>, <<"read", 2, 1>>,
   <<"read", 0, 4>>, <<"write", 1, 4>>}

=============================================================================
