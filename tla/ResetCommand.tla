---------------------------- MODULE ResetCommand ----------------------------
(***************************************************************************)
(* do_reset() of cmd/reset.c: gate the ARM clock, stop the watchdogs and   *)
(* reset the SoC with the watchdog named on the command line.              *)
(***************************************************************************)
EXTENDS SocReset

vars == socVars

Init == SocInit /\ pc = "probe"

Quiet == UNCHANGED <<local, wi, wdt, hwVars, histVars>>

\* host_init(), host_get_ahb() and soc_probe()
Probe ==
  /\ pc = "probe"
  /\ Goto("get_drivers") \/ Fail("done", EIO)
  /\ Quiet

(* Mutated: the ARM clock is not gated.                                     *)
GetDrivers_ungated ==
  /\ pc = "get_drivers"
  /\ Goto("prevent") \/ Goto("done")
  /\ Quiet

\* clk_get() and wdt_get_by_name(); a failure leaves rc alone.
GetDrivers ==
  /\ pc = "get_drivers"
  /\ Goto(IF local THEN "prevent" ELSE "gate") \/ Goto("done")
  /\ Quiet

Gate == pc = "gate" /\ clk_disable("prevent", "done")

Prevent == wdt_prevent_reset("reset_stop", "ungate")

(* Mutated: a failed reset returns at once, as it does in cmd/write.c.      *)
Reset_returns == wdt_perform_reset("done", "done")

Reset == wdt_perform_reset("done", "ungate")

\* clk_enable_arm:
Ungate == pc = "ungate" /\ clk_enable_logged("done")

Step == Probe \/ GetDrivers \/ Gate \/ Prevent \/ Reset \/ Ungate

Next == Step \/ Bmc

Spec == Init /\ [][Next]_vars

\* The process runs, and the watchdog it started expires.
FairSpec ==
  Spec /\ WF_vars(Step) /\ WF_vars(\E i \in Wdt : i = own /\ WdtFires(i))

-----------------------------------------------------------------------------
TypeOK ==
  /\ SocTypeOK
  /\ pc \in {"probe", "get_drivers", "gate", "prevent", "ungate", "done", "dead"}
              \union ResetLabels

\* Because the clock is gated first, no watchdog that wdt_prevent_reset() has
\* stopped runs again before the reset, except the one that performs it
\* (cmd/reset.c; the order cmd/write.c does not have).
StoppedStaysStopped ==
  pc \in {"prevent"} \union (ResetLabels \ {"reset_reload"}) /\ ~local =>
    /\ armClk = "gated"
    /\ \A i \in Wdt : i < wi /\ i # own => ~wdtOn[i]

\* The BMC has its CPU when a remote reset ends, even one that failed halfway
\* with the watchdog running, unless an access to the clock gate failed
\* (cmd/reset.c, clk_enable_arm).
ResetKeepsCpu ==
  pc = "done" /\ ~local /\ ~gateLost /\ ~ungateLost => armClk = "running"

\* A reset that was started is waited for: success is reported only after the
\* SoC has really reset (wdt.c, "Allow a little extra time").
ResetDone == pc = "done" /\ rc = OK /\ wi > Wdts => resets > 0 /\ own = 0

\* The command ends.
Ends == <>(pc \in {"done", "dead"})

-----------------------------------------------------------------------------
(***************************************************************************)
(* Said of the program, and not what it does: see "Known divergences" in   *)
(* README.md.                                                              *)
(***************************************************************************)

\* cmd/reset.c: "Failed to acquire clock controller, exiting".  A command that
\* exits with success has reset the SoC.
ExitStatus == pc = "done" /\ rc = OK => resets > 0

=============================================================================
