------------------------------- MODULE Devmem -------------------------------
(***************************************************************************)
(* The bridge for a culvert that runs on the BMC itself, bridge/devmem.c:  *)
(* /dev/mem is mapped once for the SoC's I/O registers, and through a      *)
(* window that moves for everything else.  mmap() and munmap() may fail.   *)
(***************************************************************************)
EXTENDS Ahb

CONSTANTS
  PgSize,  \* ctx->pgsize
  IoBase,  \* AST_SOC_IO ...
  IoLen    \* ... and AST_SOC_IO_LEN

PageAssumption ==
  PgSize \in Nat \ {0} /\ IoBase \in Nat /\ IoLen \in Nat

VARIABLES
  state,  \* "down", "up", "gone", "abort" (an assertion failed) or "fault"
  win,    \* ctx->win: is there a window?
  wphys,  \* ctx->phys
  wlen    \* ctx->len

dm == <<state, win, wphys, wlen>>
vars == <<ahbVars, dm>>

Init == AhbInit /\ state = "down" /\ win = FALSE /\ wphys = 0 /\ wlen = 0

\* devmem_init() and devmem_probe(), whose accesses are to the I/O registers.
devmem_init ==
  /\ state = "down" /\ state' \in {"up", "gone"}
  /\ UNCHANGED <<win, wphys, wlen, ahbVars>>

Call(r) == state = "up" /\ Begin(r[1], r[2], r[3]) /\ UNCHANGED dm

-----------------------------------------------------------------------------
Aligned == phys - (phys % PgSize)
Offset == phys % PgSize

(* Mutated: the length of the window is not looked at.                      *)
Reusable_any == win /\ wphys = Aligned

\* The window of an earlier call serves this one.
Reusable == win /\ wphys = Aligned /\ wlen >= Offset + len

SetWindow(there, base, n) == win' = there /\ wphys' = base /\ wlen' = n

\* mmap() maps whole pages.
MapEnd(base, n) == base + ((n + PgSize - 1) \div PgSize) * PgSize

InIo == op \in {"readl", "writel"} /\ IoBase <= phys /\ phys < IoBase + IoLen

\* devmem_setup_win(), then the copy.  An access past the pages of the window
\* faults.
WindowAccess ==
  /\ state = "up" /\ busy /\ done = 0 /\ ~InIo
  /\ IF Reusable THEN UNCHANGED <<win, wphys, wlen>> ELSE SetWindow(TRUE, Aligned, Offset + len)
  /\ IF wphys' + Offset + len <= MapEnd(wphys', wlen')
       THEN Move(len, wphys' + Offset) /\ UNCHANGED state
       ELSE state' = "fault" /\ UNCHANGED ahbVars

(* Mutated: a failed window keeps its length.                               *)
WindowFails_stale ==
  /\ state = "up" /\ busy /\ done = 0 /\ ~InIo /\ ~Reusable
  /\ SetWindow(FALSE, 0, wlen) /\ Return("fail") /\ UNCHANGED state

\* munmap() or mmap() fails.
WindowFails ==
  /\ state = "up" /\ busy /\ done = 0 /\ ~InIo /\ ~Reusable
  /\ SetWindow(FALSE, 0, 0) /\ Return("fail") /\ UNCHANGED state

\* devmem_readl() and devmem_writel() of an I/O register.
IoAccess ==
  /\ state = "up" /\ busy /\ done = 0 /\ InIo
  /\ Move(1, phys) /\ UNCHANGED dm

Done ==
  /\ state = "up" /\ busy /\ done = len
  /\ Return("ok") /\ UNCHANGED dm

\* devmem_destroy() starts with assert(!ctx->win).
devmem_destroy ==
  /\ state = "up" /\ ~busy
  /\ state' = IF win THEN "abort" ELSE "gone"
  /\ UNCHANGED <<win, wphys, wlen, ahbVars>>

Next ==
  \/ devmem_init
  \/ \E r \in Requests : Call(r)
  \/ WindowAccess \/ WindowFails \/ IoAccess \/ Done
  \/ devmem_destroy

Spec == Init /\ [][Next]_vars

-----------------------------------------------------------------------------
TypeOK ==
  /\ AhbTypeOK
  /\ state \in {"down", "up", "gone", "abort", "fault"}
  /\ win \in BOOLEAN /\ wphys \in Addr /\ wphys % PgSize = 0 /\ wlen \in Nat
  /\ win = (wlen > 0)

=============================================================================
