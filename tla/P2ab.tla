-------------------------------- MODULE P2ab --------------------------------
(***************************************************************************)
(* The PCIe bridge, bridge/p2a.c: a window of the PCI device's MMIO BAR    *)
(* shows the part of the BMC's address space that starts at the remap      *)
(* register RBAR.  The driver caches RBAR.  A reset of the SoC clears the  *)
(* register, and wdt_perform_reset() has the driver reinitialised behind   *)
(* it.                                                                     *)
(***************************************************************************)
EXTENDS Ahb

CONSTANTS
  Window,  \* P2AB_WINDOW_LEN
  Scu      \* an address that rev_probe() reads

WindowAssumption == Window \in Nat \ {0} /\ Scu \in Addr

Base(p) == p - (p % Window)
Bases == {Base(p) : p \in Addr}

VARIABLES
  state,   \* "down", "probe", "up", "reset" (the SoC resets), "gone" or "fault"
  rbar,    \* ctx->rbar
  hwRbar,  \* P2AB_RBAR
  pkr      \* P2AB_PKR: "locked" or "unlocked"

p2a == <<state, rbar, hwRbar, pkr>>
vars == <<ahbVars, p2a>>

Init ==
  /\ AhbInit /\ state = "down" /\ rbar = 0
  /\ hwRbar \in Bases \union {0} /\ pkr \in {"locked", "unlocked"}

\* p2ab_init(): "ensure the HW and SW rbar values are in sync"
p2ab_init ==
  /\ state = "down"
  /\ \/ state' = "probe" /\ rbar' = 0 /\ hwRbar' = 0 /\ pkr' = "unlocked"
     \/ state' = "gone" /\ UNCHANGED <<rbar, hwRbar, pkr>>
  /\ UNCHANGED ahbVars

p2ab_map(p) ==
  /\ rbar' = Base(p)
  /\ hwRbar' = IF rbar = Base(p) THEN hwRbar ELSE Base(p)

\* p2ab_probe(): rev_probe() reads the SCU; an unknown revision closes the
\* bridge again.
p2ab_probe ==
  /\ state = "probe" /\ p2ab_map(Scu)
  /\ \/ state' = "up" /\ UNCHANGED pkr
     \/ state' = "gone" /\ pkr' = "locked"
  /\ UNCHANGED ahbVars

Call(r) == state = "up" /\ Begin(r[1], r[2], r[3]) /\ UNCHANGED p2a

\* One round of the loop in p2ab_read() and p2ab_write(), and the one access
\* of p2ab_readl() and p2ab_writel().  What lies beyond the window lies
\* beyond the mapping of the BAR.
Ingress == IF len - done > Window THEN Window ELSE len - done
Offset == (phys + done) % Window

Piece ==
  /\ state = "up" /\ busy /\ done < len
  /\ p2ab_map(phys + done) /\ UNCHANGED pkr
  /\ IF Offset + Ingress <= Window
       THEN Move(Ingress, hwRbar' + Offset) /\ UNCHANGED state
       ELSE state' = "fault" /\ UNCHANGED ahbVars

Done ==
  /\ state = "up" /\ busy /\ done = len
  /\ Return("ok") /\ UNCHANGED p2a

SocReset ==
  /\ state = "up" /\ ~busy
  /\ state' = "reset" /\ hwRbar' = 0
  /\ UNCHANGED <<rbar, pkr, ahbVars>>

(* Mutated: the cache survives the reset.                                   *)
p2ab_driver_reinit_noop ==
  /\ state = "reset" /\ state' = "up"
  /\ UNCHANGED <<rbar, hwRbar, pkr, ahbVars>>

\* "Update the software cache with the hardware state"
p2ab_driver_reinit ==
  /\ state = "reset" /\ state' = "up" /\ rbar' = hwRbar
  /\ UNCHANGED <<hwRbar, pkr, ahbVars>>

p2ab_destroy ==
  /\ state = "up" /\ ~busy
  /\ state' = "gone" /\ pkr' = "locked"
  /\ UNCHANGED <<rbar, hwRbar, ahbVars>>

Next ==
  \/ p2ab_init \/ p2ab_probe \/ Piece \/ Done
  \/ \E r \in Requests : Call(r)
  \/ SocReset \/ p2ab_driver_reinit \/ p2ab_destroy

Spec == Init /\ [][Next]_vars

-----------------------------------------------------------------------------
TypeOK ==
  /\ AhbTypeOK
  /\ state \in {"down", "probe", "up", "reset", "gone", "fault"}
  /\ {rbar, hwRbar} \subseteq Bases \union {0} /\ pkr \in {"locked", "unlocked"}

=============================================================================
