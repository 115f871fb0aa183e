------------------------------ MODULE Session ------------------------------
(***************************************************************************)
(* What every command of cmd/ is built around: host.c finds a bridge       *)
(* (Host), soc_probe() binds the drivers of the SoC behind it, the command *)
(* acquires them (SocDrivers), soc_destroy() comes before host_destroy().  *)
(***************************************************************************)
EXTENDS SocDrivers

CONSTANTS BridgeOrder, Platforms  \* of Host

VARIABLES
  probed,  \* soc_probe() has succeeded
  plat, disabled, via, hostPc, tried, bridges, open, faults, hostAhb  \* of Host

host == <<plat, disabled, via, hostPc, tried, bridges, open, faults, hostAhb>>
sessionVars == <<vars, probed, host>>

H == INSTANCE Host WITH
       Order <- BridgeOrder, pc <- hostPc, next <- tried, ahb <- hostAhb

ASSUME SessionAssumption == H!HostAssumption

SessionInit == Init /\ H!Init /\ probed = FALSE

-----------------------------------------------------------------------------
\* A bridge behind which no revision can be read does not get past
\* rev_probe(); a soc_probe() that fails has bound nothing.
soc_probe ==
  /\ hostPc = "use" /\ hostAhb.ctx = "live" /\ ~probed
  /\ probed' = TRUE /\ UNCHANGED <<vars, host>>

\* The command, up to the end of soc_destroy().
Command == probed /\ Next /\ UNCHANGED <<probed, host>>

\* host_init() and host_get_ahb(), and host_destroy() at cleanup_host.
Bridge == (probed => pc = "done") /\ H!Next /\ UNCHANGED <<vars, probed>>

\* An access through /dev/mem to something else than the SoC's registers.
Access == probed /\ pc # "done" /\ H!devmem_setup_win /\ UNCHANGED <<vars, probed>>

SessionNext == soc_probe \/ Command \/ Access \/ Bridge

SessionSpec == SessionInit /\ [][SessionNext]_sessionVars

-----------------------------------------------------------------------------
\* Behind host_destroy() everything that the probes and the command opened is
\* closed, and the P2A is locked again, whichever bridges there are and
\* whatever failed, save what a failing step of the same driver leaves: no
\* bridge that cannot be destroyed keeps another from it (host.c, bridge/*.c).
Released == H!Released

\* With a SuperIO and no FW space (any x86 host of a BMC), the bridge that is
\* picked works: no probe passes by accident, and none hides another.
Picked == H!Picked

=============================================================================
