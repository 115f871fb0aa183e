------------------------------ MODULE SocReset ------------------------------
(***************************************************************************)
(* What `culvert write firmware` and `culvert reset` do to a running BMC   *)
(* apart from its flash: the ARM clock gate (soc/clk.c), the VUART discard *)
(* bit (soc/uart/vuart.c) and the watchdogs (soc/wdt.c).  The module holds *)
(* the hardware, the BMC's own software, which runs whenever its clock     *)
(* does, and the operations of wdt.c the two commands share.               *)
(*                                                                         *)
(* Every access crosses an AHB bridge.  An access that reports failure may *)
(* or may not have reached its register.                                   *)
(***************************************************************************)
EXTENDS Integers

CONSTANTS
  Wdts,       \* AST_WDT_MAX: the watchdogs are 1 .. Wdts
  MaxResets   \* how many resets the BMC's own watchdogs cause in one behaviour

ASSUME WdtAssumption == Wdts \in Nat \ {0} /\ MaxResets \in Nat

Wdt == 1 .. Wdts
OK == 0
EIO == -5
ENODEV == -19

VARIABLES
  pc,        \* where the command is
  rc,        \* its result
  local,     \* ahb->drv->local: culvert runs on the BMC itself
  wi,        \* i in wdt_prevent_reset()
  wdt,       \* the watchdog wdt_perform_reset() works on
  armClk,    \* the ARM clock: "running" or "gated"
  wdtOn,     \* WDT_CTRL_ENABLE of each watchdog
  discard,   \* the VUART drops what the host transmits
  own,       \* the watchdog wdt_perform_reset() has started and that runs, or 0
  resets,    \* history: number of SoC resets
  rearmed,   \* history: the BMC restarted a watchdog culvert had stopped
  gateLost,  \* history: the access that gates the ARM clock failed
  ungateLost \* history: the access that ungates it failed

cmdVars == <<pc, rc, local, wi, wdt>>
hwVars == <<armClk, wdtOn, discard>>
histVars == <<own, resets, rearmed, gateLost, ungateLost>>
socVars == <<cmdVars, hwVars, histVars>>

SocInit ==
  /\ rc = OK /\ local \in BOOLEAN /\ wi = 1 /\ wdt \in Wdt
  /\ armClk = "running" /\ wdtOn \in [Wdt -> BOOLEAN] /\ discard = FALSE
  /\ own = 0 /\ resets = 0 /\ rearmed = FALSE
  /\ gateLost = FALSE /\ ungateLost = FALSE

Goto(l) == pc' = l /\ UNCHANGED rc
Fail(l, code) == pc' = l /\ rc' = code

-----------------------------------------------------------------------------
(***************************************************************************)
(* The BMC, external to the repository.                                    *)
(***************************************************************************)
\* The software on the BMC (re)starts a watchdog.
BmcArms(i) ==
  /\ armClk = "running" /\ ~wdtOn[i]
  /\ wdtOn' = [wdtOn EXCEPT ![i] = TRUE]
  /\ rearmed' = (rearmed \/ i < wi)
  /\ UNCHANGED <<cmdVars, armClk, discard, own, resets, gateLost, ungateLost>>

\* A watchdog expires and resets the SoC.  "The ARM clock gate is sticky on
\* reset?!" (wdt.c), everything else here is not.  A culvert that runs on the
\* BMC goes down with it.
WdtFires(i) ==
  /\ wdtOn[i] /\ (i = own \/ resets < MaxResets)
  /\ resets' = resets + 1 /\ own' = 0
  /\ wdtOn' = [j \in Wdt |-> FALSE] /\ discard' = FALSE
  /\ pc' = IF local THEN "dead" ELSE pc
  /\ UNCHANGED <<rc, local, wi, wdt, armClk, rearmed, gateLost, ungateLost>>

Bmc == \E i \in Wdt : BmcArms(i) \/ WdtFires(i)

-----------------------------------------------------------------------------
\* clk_disable(clk, clk_arm)
clk_disable(done, failed) ==
  /\ \/ Goto(done) /\ armClk' = "gated" /\ UNCHANGED gateLost
     \/ Fail(failed, EIO) /\ armClk' \in {armClk, "gated"} /\ gateLost' = TRUE
  /\ UNCHANGED <<local, wi, wdt, wdtOn, discard, own, resets, rearmed, ungateLost>>

\* clk_enable(clk, clk_arm) where a failure is only logged.
clk_enable_logged(done) ==
  /\ pc' = done
  /\ \/ armClk' = "running" /\ UNCHANGED ungateLost
     \/ armClk' \in {armClk, "running"} /\ ungateLost' = TRUE
  /\ UNCHANGED <<rc, local, wi, wdt, wdtOn, discard, own, resets, rearmed, gateLost>>

(* Mutated forms of wdt_prevent_reset(): the last watchdog is left out, and  *)
(* one watchdog too many is tried.                                          *)
wdt_prevent_reset_short(done, failed) ==
  LET stopped == [wdtOn EXCEPT ![wi] = FALSE]
  IN  /\ pc = "prevent"
      /\ \/ wi >= Wdts /\ Goto(done) /\ UNCHANGED <<wi, wdtOn>>
         \/ wi < Wdts /\ Goto("prevent") /\ wi' = wi + 1 /\ wdtOn' = stopped
         \/ wi < Wdts /\ Fail(failed, EIO) /\ UNCHANGED <<wi, wdtOn>>
      /\ UNCHANGED <<local, wdt, armClk, discard, histVars>>

\* wdt_prevent_reset(): one wdt_stop() for each watchdog in turn.
wdt_prevent_reset(done, failed) ==
  LET stopped == [wdtOn EXCEPT ![wi] = FALSE]
  IN  /\ pc = "prevent"
      /\ \/ wi > Wdts /\ Goto(done) /\ UNCHANGED <<wi, wdtOn>>
         \/ wi <= Wdts /\ Goto("prevent") /\ wi' = wi + 1 /\ wdtOn' = stopped
         \/ wi <= Wdts /\ Fail(failed, EIO) /\ wdtOn' \in {wdtOn, stopped} /\ UNCHANGED wi
         \/ wi <= Wdts /\ Fail(failed, ENODEV) /\ UNCHANGED <<wi, wdtOn>>
      /\ UNCHANGED <<local, wdt, armClk, discard, histVars>>

(***************************************************************************)
(* wdt_perform_reset(), up to each of its early returns.                   *)
(***************************************************************************)
\* wdt_stop()
ResetStop(failed) ==
  LET stopped == [wdtOn EXCEPT ![wdt] = FALSE]
  IN  /\ pc = "reset_stop"
      /\ \/ Goto("reset_setup") /\ wdtOn' = stopped
         \/ Fail(failed, EIO) /\ wdtOn' \in {wdtOn, stopped}
      /\ UNCHANGED <<local, wi, wdt, armClk, discard, histVars>>

\* Clock source, reset mask, reload value and restart: five accesses, any of
\* which fails, as does wdt_usecs_to_ticks() on a PCLK sourced watchdog.
ResetSetup(failed) ==
  /\ pc = "reset_setup"
  /\ Goto("reset_arm") \/ Fail(failed, EIO)
  /\ UNCHANGED <<local, wi, wdt, hwVars, histVars>>

(* Mutated: WDT_CTRL_ENABLE is left out.                                    *)
ResetArm_disabled(failed) ==
  /\ pc = "reset_arm" /\ own' = wdt
  /\ Goto("reset_release") \/ Fail(failed, EIO)
  /\ UNCHANGED <<local, wi, wdt, hwVars, resets, rearmed, gateLost, ungateLost>>

\* WDT_CTRL_RESET_SOC | WDT_CTRL_SYS_RESET | WDT_CTRL_ENABLE
ResetArm(failed) ==
  LET started == wdtOn' = [wdtOn EXCEPT ![wdt] = TRUE] /\ own' = wdt
  IN  /\ pc = "reset_arm"
      /\ \/ Goto("reset_release") /\ started
         \/ Fail(failed, EIO) /\ started
         \/ Fail(failed, EIO) /\ UNCHANGED <<wdtOn, own>>
      /\ UNCHANGED <<local, wi, wdt, armClk, discard, resets, rearmed,
                     gateLost, ungateLost>>

\* ahb_release_bridge()
ResetRelease(failed) ==
  /\ pc = "reset_release"
  /\ Goto("reset_sleep") \/ Fail(failed, EIO)
  /\ UNCHANGED <<local, wi, wdt, hwVars, histVars>>

(* Mutated: the sleep is too short.                                         *)
ResetSleep_short ==
  /\ pc = "reset_sleep"
  /\ Goto("reset_reinit")
  /\ UNCHANGED <<local, wi, wdt, hwVars, histVars>>

\* usleep() takes a second longer than the watchdog.
ResetSleep ==
  /\ pc = "reset_sleep" /\ own = 0
  /\ Goto("reset_reinit")
  /\ UNCHANGED <<local, wi, wdt, hwVars, histVars>>

\* ahb_reinit_bridge()
ResetReinit(failed) ==
  /\ pc = "reset_reinit"
  /\ Goto("reset_ungate") \/ Fail(failed, EIO)
  /\ UNCHANGED <<local, wi, wdt, hwVars, histVars>>

\* clk_enable(ctx->clk, clk_arm), then WDT_RELOAD is cleared.
ResetUngate(failed) ==
  /\ pc = "reset_ungate"
  /\ \/ Goto("reset_reload") /\ armClk' = "running" /\ UNCHANGED ungateLost
     \/ Fail(failed, EIO) /\ armClk' \in {armClk, "running"} /\ ungateLost' = TRUE
  /\ UNCHANGED <<local, wi, wdt, wdtOn, discard, own, resets, rearmed, gateLost>>

ResetReload(done, failed) ==
  /\ pc = "reset_reload"
  /\ Fail(done, OK) \/ Fail(failed, EIO)
  /\ UNCHANGED <<local, wi, wdt, hwVars, histVars>>

wdt_perform_reset(done, failed) ==
  \/ ResetStop(failed) \/ ResetSetup(failed) \/ ResetArm(failed)
  \/ ResetRelease(failed) \/ ResetSleep \/ ResetReinit(failed)
  \/ ResetUngate(failed) \/ ResetReload(done, failed)

-----------------------------------------------------------------------------
ResetLabels ==
  {"reset_stop", "reset_setup", "reset_arm", "reset_release", "reset_sleep",
   "reset_reinit", "reset_ungate", "reset_reload"}

SocTypeOK ==
  /\ rc \in {OK, EIO, ENODEV} /\ local \in BOOLEAN
  /\ wi \in 1 .. Wdts + 1 /\ wdt \in Wdt
  /\ armClk \in {"running", "gated"} /\ wdtOn \in [Wdt -> BOOLEAN]
  /\ discard \in BOOLEAN
  /\ own \in 0 .. Wdts /\ resets \in 0 .. MaxResets + 1
  /\ rearmed \in BOOLEAN /\ gateLost \in BOOLEAN /\ ungateLost \in BOOLEAN

=============================================================================
