----------------------------- MODULE Transfers -----------------------------
(***************************************************************************)
(* One command of culvert that moves data over the AHB: a copy of memory,  *)
(* the coprocessor, a replacement in RAM, a trace, or the JTAG server.     *)
(* Each adds its own state to that of the siphon they share, and meets its *)
(* own second actor: the BMC, the recorder, or clients.                    *)
(***************************************************************************)
EXTENDS Coprocessor, Replace, Trace, Jtag

ASSUME TransfersAssumption ==
  TransferAssumption /\ ReplaceAssumption /\ TraceAssumption /\ JtagAssumption

vars == <<ahbVars, transferVars, coprocVars, replaceVars, traceVars, jtagVars>>

ArgsIdle == wide = TRUE /\ dram = <<0, 0, 0>> /\ asked = <<0, 0>> /\ base = 0 /\ size = 0

Init ==
  \/ TransferInit /\ CoprocessorIdle /\ ReplaceIdle /\ TraceIdle /\ JtagIdle
  \/ CoprocessorInit /\ ReplaceIdle /\ TraceIdle /\ JtagIdle
  \/ ReplaceInit /\ ArgsIdle /\ CoprocessorIdle /\ TraceIdle /\ JtagIdle
  \/ TraceInit /\ ArgsIdle /\ CoprocessorIdle /\ ReplaceIdle /\ JtagIdle
  \/ JtagInit /\ ArgsIdle /\ CoprocessorIdle /\ ReplaceIdle /\ TraceIdle

Copy == TransferStep /\ UNCHANGED <<coprocVars, replaceVars, traceVars, jtagVars>>
Coprocess == CoprocessorStep /\ UNCHANGED <<replaceVars, traceVars, jtagVars>>
ReplaceRam ==
  /\ ReplaceStep \/ Poke
  /\ UNCHANGED <<transferVars, coprocVars, traceVars, jtagVars>>
TraceBus == TraceNext /\ UNCHANGED <<transferVars, coprocVars, replaceVars, jtagVars>>
Serve == JtagStep /\ UNCHANGED <<transferVars, coprocVars, replaceVars, traceVars>>
Call == Connect /\ UNCHANGED <<transferVars, coprocVars, replaceVars, traceVars>>

Next == Copy \/ Coprocess \/ ReplaceRam \/ TraceBus \/ Serve \/ Call

\* The process runs, the kernel sees to the sockets, and an OpenOCD session
\* ends.
Spec == Init /\ [][Next]_vars /\ WF_vars(Serve)

=============================================================================
