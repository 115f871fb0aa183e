--------------------------- MODULE WriteFirmware ----------------------------
(***************************************************************************)
(* cmd_write_firmware() of cmd/write.c: freeze the BMC, erase and write    *)
(* the flash one 64 KiB window at a time from stdin, then reset the SoC or *)
(* undo the freeze.  flash_erase() and flash_write() appear here by their  *)
(* results only; FlashErase models the former.                             *)
(***************************************************************************)
EXTENDS SocReset

CONSTANTS
  Windows,  \* the flash has this many windows of SFC_FLASH_WIN bytes
  Images    \* sizes of the images on stdin, in half windows

FirmwareAssumption == Windows \in Nat /\ Images \subseteq Nat

VARIABLES
  image,     \* the size of the image
  left,      \* what read() has not delivered yet
  ingress,   \* what the last read() returned
  phys,      \* the current window
  flash,     \* each window: "old", "erased", "part" or "new"
  released   \* soc_destroy() and host_destroy() were called

fwVars == <<image, left, ingress, phys, flash, released>>
vars == <<socVars, fwVars>>

Init ==
  /\ SocInit /\ pc = "probe" /\ wdt = 2
  /\ image \in Images /\ left = image /\ ingress = 0 /\ phys = 0
  /\ flash = [w \in 0 .. Windows - 1 |-> "old"]
  /\ released = FALSE

\* A step that changes nothing but pc and rc.
Quiet == UNCHANGED <<local, wi, wdt, hwVars, histVars, fwVars>>

-----------------------------------------------------------------------------
\* host_init(), whose failure returns at once, then host_get_ahb(),
\* soc_probe(), clk_get() and vuart_get_by_name().
Probe ==
  /\ pc = "probe"
  /\ \/ Fail("destroy", ENODEV) \/ Fail("done", EIO)
     \/ Goto(IF local THEN "flash_init" ELSE "prevent")
  /\ Quiet

Prevent == wdt_prevent_reset("gate", "cleanup") /\ UNCHANGED fwVars

Gate == pc = "gate" /\ clk_disable("discard", "cleanup") /\ UNCHANGED fwVars

\* vuart_set_host_tx_discard(vuart, discard_enable)
Discard ==
  /\ pc = "discard"
  /\ \/ Goto("flash_init") /\ discard' = TRUE
     \/ Fail("cleanup", EIO) /\ discard' \in {discard, TRUE}
  /\ UNCHANGED <<local, wi, wdt, armClk, wdtOn, histVars, fwVars>>

\* sfc_get_by_name(), flash_init() and malloc()
flash_init ==
  /\ pc = "flash_init"
  /\ Goto("read") \/ Fail("cleanup", ENODEV)
  /\ Quiet

(* Mutated: the end of the input is not noticed.                            *)
Read_past_end ==
  /\ pc = "read"
  /\ \/ Fail("cleanup", EIO) /\ UNCHANGED <<left, ingress>>
     \/ ingress' = 2 /\ left' = left - 2 /\ Goto("erase")
  /\ UNCHANGED <<local, wi, wdt, hwVars, histVars, image, phys, flash, released>>

\* while ((ingress = read(0, buf, SFC_FLASH_WIN))): a pipe may deliver less
\* than a window.  A short window is refused, with rc still that of the last
\* successful call.
Read ==
  /\ pc = "read"
  /\ \/ Fail("cleanup", EIO) /\ UNCHANGED <<left, ingress>>
     \/ /\ left = 0 /\ ingress' = 0
        /\ Goto("cleanup") /\ UNCHANGED left
     \/ \E n \in {1, 2} :
          /\ n <= left /\ ingress' = n /\ left' = left - n
          /\ Goto(IF n < 2 THEN "cleanup" ELSE "erase")
  /\ UNCHANGED <<local, wi, wdt, hwVars, histVars, image, phys, flash, released>>

(* Mutated: a failed erase is retried too.                                  *)
Erase_retried ==
  /\ pc = "erase"
  /\ \/ /\ phys < Windows
        /\ Goto("write") /\ flash' = [flash EXCEPT ![phys] = "erased"]
     \/ Goto("erase") /\ UNCHANGED flash
  /\ UNCHANGED <<local, wi, wdt, hwVars, histVars, image, left, ingress, phys, released>>

\* flash_erase(chip, phys, ingress)
Erase ==
  /\ pc = "erase"
  /\ \/ /\ phys < Windows
        /\ Goto("write") /\ flash' = [flash EXCEPT ![phys] = "erased"]
     \/ /\ phys < Windows /\ Fail("cleanup", EIO)
        /\ flash' \in {flash, [flash EXCEPT ![phys] = "erased"]}
     \/ /\ phys >= Windows /\ Fail("cleanup", EIO) /\ UNCHANGED flash
  /\ UNCHANGED <<local, wi, wdt, hwVars, histVars, image, left, ingress, phys, released>>

\* flash_write(chip, phys, buf, ingress, true), retried from the erase on a
\* miscompare.
WriteWindow ==
  /\ pc = "write" /\ Goto("read")
  /\ flash' = [flash EXCEPT ![phys] = "new"] /\ phys' = phys + 1
  /\ UNCHANGED <<local, wi, wdt, hwVars, histVars, image, left, ingress, released>>

WriteMiscompare ==
  /\ pc = "write"
  /\ pc' = "erase" /\ UNCHANGED rc
  /\ flash' = [flash EXCEPT ![phys] = "part"]
  /\ UNCHANGED <<local, wi, wdt, hwVars, histVars, image, left, ingress, phys, released>>

(* Mutated: the error of flash_write() is dropped.                          *)
WriteFails_dropped ==
  /\ pc = "write" /\ Goto("cleanup")
  /\ flash' \in {flash, [flash EXCEPT ![phys] = "part"]}
  /\ UNCHANGED <<local, wi, wdt, hwVars, histVars, image, left, ingress, phys, released>>

WriteFails ==
  /\ pc = "write" /\ Fail("cleanup", EIO)
  /\ flash' \in {flash, [flash EXCEPT ![phys] = "part"]}
  /\ UNCHANGED <<local, wi, wdt, hwVars, histVars, image, left, ingress, phys, released>>

\* cleanup_state: reset on success, undo the freeze otherwise.
Cleanup ==
  /\ pc = "cleanup"
  /\ Goto(IF rc # OK THEN "undiscard" ELSE IF local THEN "destroy" ELSE "get_wdt2")
  /\ Quiet

\* wdt_get_by_name(soc, "wdt2"); failures from here on return at once.
GetWdt2 ==
  /\ pc = "get_wdt2"
  /\ Goto("reset_stop") \/ Fail("done", ENODEV)
  /\ Quiet

Reset == wdt_perform_reset("destroy", "done") /\ UNCHANGED fwVars

(* Mutated: a failure to reconfigure the VUART skips the rest of the cleanup. *)
Undiscard_returns ==
  /\ pc = "undiscard"
  /\ \/ Goto("ungate") /\ discard' = FALSE
     \/ Goto("destroy") /\ UNCHANGED discard
  /\ UNCHANGED <<local, wi, wdt, armClk, wdtOn, histVars, fwVars>>

\* vuart_set_host_tx_discard(vuart, discard_disable); a failure is only logged.
Undiscard ==
  /\ pc = "undiscard" /\ Goto("ungate")
  /\ discard' \in {discard, FALSE}
  /\ UNCHANGED <<local, wi, wdt, armClk, wdtOn, histVars, fwVars>>

Ungate == pc = "ungate" /\ clk_enable_logged("destroy") /\ UNCHANGED fwVars

\* soc_destroy(), host_destroy()
Destroy ==
  /\ pc = "destroy" /\ Goto("done") /\ released' = TRUE
  /\ UNCHANGED <<local, wi, wdt, hwVars, histVars, image, left, ingress, phys,
                 flash>>

Step ==
  \/ Probe \/ Prevent \/ Gate \/ Discard \/ flash_init
  \/ Read \/ Erase \/ WriteWindow \/ WriteMiscompare \/ WriteFails
  \/ Cleanup \/ GetWdt2 \/ Reset \/ Undiscard \/ Ungate \/ Destroy

Next == Step \/ (Bmc /\ UNCHANGED fwVars)

Spec == Init /\ [][Next]_vars

\* The process runs, and the watchdog it started expires: nothing else stops
\* it once the SoC is told to reset.
FairSpec ==
  Spec /\ WF_vars(Step)
       /\ WF_vars(\E i \in Wdt : i = own /\ WdtFires(i) /\ UNCHANGED fwVars)

-----------------------------------------------------------------------------
FlashOps == {"flash_init", "read", "erase", "write"}

TypeOK ==
  /\ SocTypeOK
  /\ pc \in {"probe", "prevent", "gate", "discard", "cleanup", "get_wdt2",
             "undiscard", "ungate", "destroy", "done", "dead"} \union FlashOps \union ResetLabels
  /\ image \in Images /\ left \in 0 .. image /\ ingress \in 0 .. 2
  /\ phys \in 0 .. Windows
  /\ flash \in [0 .. Windows - 1 -> {"old", "erased", "part", "new"}]
  /\ released \in BOOLEAN

Partial == \E w \in 0 .. Windows - 1 : flash[w] \in {"erased", "part"}

\* While a remote culvert touches the flash the BMC is frozen: its CPU has no
\* clock, its console output goes nowhere and no watchdog can interrupt.  The
\* one exception is a BMC that restarts a watchdog between wdt_prevent_reset()
\* and clk_disable() (cmd/write.c).
FlashFrozen ==
  pc \in FlashOps /\ ~local /\ ~rearmed =>
    /\ armClk = "gated" /\ discard
    /\ \A i \in Wdt : ~wdtOn[i]

\* The SoC never resets by culvert's doing while a window is erased or half
\* written: wdt_perform_reset() only follows verified windows (cmd/write.c).
ResetOnWholeWindows == [][own # 0 /\ own' = 0 => ~Partial]_vars

\* A failed command gives the BMC its CPU back, whatever failed and in which
\* state, unless the access that ungates the clock fails itself or the command
\* had already got to the reset (cmd/write.c, cleanup_state).
FailureUngates ==
  pc = "done" /\ rc # OK /\ released /\ ~ungateLost => armClk = "running"

\* A remote command that reports success leaves a BMC that runs and that was
\* reset after its last window (wdt.c, "Ensure it's clear").
SuccessBoots ==
  pc = "done" /\ rc = OK /\ ~local => armClk = "running" /\ resets > 0 /\ own = 0

\* The command ends, the wait for the watchdog included, unless flash_write()
\* finds a miscompare again and again: nothing bounds `do ... while (rc ==
\* -EREMOTEIO)` (cmd/write.c).
EndsOrMiscompares ==
  <>(pc \in {"done", "dead"}) \/ []<><<WriteMiscompare>>_vars

-----------------------------------------------------------------------------
(***************************************************************************)
(* Said of the program, and not what it does: see "Known divergences" in   *)
(* README.md.                                                              *)
(***************************************************************************)

\* README.md: the SoC reset is "subsequent to completion of the flash
\* operations".
ResetAfterCompletion == [][own # 0 /\ own' = 0 => 2 * phys = image]_vars

\* cmd/reset.c: "wdt_perform_reset ungates the ARM if required".  The command
\* takes no other measure once it has got there.
BmcKeepsCpu == pc = "done" /\ ~local /\ ~ungateLost => armClk = "running"

\* README.md: the BMC CPU is "ungated immediately prior to a SoC reset".
UngatedPriorToReset == [][own # 0 /\ own' = 0 => armClk = "running"]_vars

=============================================================================
