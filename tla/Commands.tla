------------------------------ MODULE Commands ------------------------------
(***************************************************************************)
(* One command of culvert, from its start to its end: the firmware writer  *)
(* and the reset, which share the clock gate and the watchdogs of the SoC  *)
(* and meet the software of the BMC, or the OTP command, run again and     *)
(* again on the same chip.                                                 *)
(***************************************************************************)
EXTENDS SocReset

CONSTANTS
  Windows, Images,                                 \* of WriteFirmware
  Confs, Options, BitLen, Tries, Chips, MaxCommands  \* of Otp

VARIABLES
  cmd,  \* the command
  image, left, ingress, phys, flash, released,     \* of WriteFirmware
  todo, req, got, i, res, f, target, tries,        \* of Otp
  key, addr, data, soak, busy, words, otpCalls, lost, collided, yes

W == INSTANCE WriteFirmware
R == INSTANCE ResetCommand
O == INSTANCE Otp

ASSUME CommandsAssumption == W!FirmwareAssumption /\ O!OtpAssumption

fwVars == <<image, left, ingress, phys, flash, released>>
otpVars == <<todo, req, got, i, res, f, target, tries,
             key, addr, data, soak, busy, words, otpCalls, lost, collided, yes>>
vars == <<cmd, socVars, fwVars, otpVars>>

\* What the other commands leave alone.
SocRests ==
  /\ local = FALSE /\ wi = 1 /\ wdt = 1 /\ armClk = "running"
  /\ wdtOn = [w \in Wdt |-> FALSE] /\ discard = FALSE /\ own = 0 /\ resets = 0
  /\ rearmed = FALSE /\ gateLost = FALSE /\ ungateLost = FALSE

FirmwareRests ==
  /\ image = 0 /\ left = 0 /\ ingress = 0 /\ phys = 0
  /\ flash = [w \in 0 .. Windows - 1 |-> "old"] /\ released = FALSE

Init ==
  \/ cmd = "write" /\ W!Init /\ O!OtpInit
  \/ cmd = "reset" /\ R!Init /\ FirmwareRests /\ O!OtpInit
  \/ cmd = "otp" /\ O!Init /\ SocRests /\ FirmwareRests

Step ==
  \/ cmd = "write" /\ W!Step /\ UNCHANGED <<cmd, otpVars>>
  \/ cmd = "reset" /\ R!Step /\ UNCHANGED <<cmd, fwVars, otpVars>>

OtpAlone == cmd = "otp" /\ UNCHANGED <<cmd, local, wi, wdt, hwVars, histVars, fwVars>>
OtpStep == O!Next /\ OtpAlone

BmcStep == cmd # "otp" /\ Bmc /\ UNCHANGED <<cmd, fwVars, otpVars>>

Next == Step \/ OtpStep \/ BmcStep

Spec == Init /\ [][Next]_vars

\* The process runs, and the watchdog it started expires: nothing else stops
\* it once the SoC is told to reset.
OwnFires ==
  \E w \in Wdt : w = own /\ WdtFires(w) /\ UNCHANGED <<cmd, fwVars, otpVars>>

FairSpec == Spec /\ WF_vars(Step) /\ WF_vars(OwnFires)

-----------------------------------------------------------------------------
TypeOK ==
  CASE cmd = "write" -> W!TypeOK
    [] cmd = "reset" -> R!TypeOK
    [] cmd = "otp" -> O!TypeOK

\* The BMC stays frozen where a command needs it to be: while a remote culvert
\* touches the flash, unless its software has restarted a watchdog in the gap
\* between wdt_prevent_reset() and clk_disable() (cmd/write.c); and in a reset
\* command, whose first step is to gate the clock, a watchdog that was stopped
\* stays so (cmd/reset.c).
FlashFrozen ==
  /\ cmd = "write" => W!FlashFrozen
  /\ cmd = "reset" => R!StoppedStaysStopped

\* The BMC has its CPU when a command ends: a write that fails gives it back,
\* unless it had already got to the reset (cmd/write.c, cleanup_state), and so
\* does a remote reset, even one that failed (cmd/reset.c, clk_enable_arm);
\* unless an access to the clock gate failed.
KeepsCpu ==
  /\ cmd = "write" => W!FailureUngates
  /\ cmd = "reset" => R!ResetKeepsCpu

\* Success means that the SoC has been reset: behind a remote write command the
\* BMC runs again, and a reset command has waited for its watchdog (wdt.c,
\* "Ensure it's clear" and "Allow a little extra time").
SuccessBoots ==
  /\ cmd = "write" => W!SuccessBoots
  /\ cmd = "reset" => R!ResetDone

\* No reset by culvert's doing meets a window that is erased or half written
\* (cmd/write.c, cleanup_state).
ResetOnWholeWindows == W!ResetOnWholeWindows

\* A reset command ends, and so does a write command, unless flash_write()
\* finds a miscompare again and again (cmd/write.c, while (rc == -EREMOTEIO)).
Ends ==
  /\ cmd = "write" => W!EndsOrMiscompares
  /\ cmd = "reset" => R!Ends

\* Only the bit that was checked is ever burnt, and of a strap only the first
\* free option, while the strap is neither protected nor at the value asked
\* for (otp.c, otp_write).
BurnsTarget == O!BurnsTarget

\* The OTP controller is locked and at its default soak when a function
\* returns, whatever failed, except an access of the clean-up itself or of the
\* first otp_set_soak() (otp.c, undo_soak and done).
Relocked == O!Relocked

\* An OTP write that succeeds before the tries are used up has set its bit and
\* given the strap its value (otp.c, the readback).
WriteTakes == O!WriteTakes

-----------------------------------------------------------------------------
(***************************************************************************)
(* Said of the program, and not what it does: see "Known divergences" in   *)
(* README.md.                                                              *)
(***************************************************************************)

\* The OTP command, with the arguments of a command line.
CommandLineSpec == Init /\ cmd = "otp" /\ [][O!CommandNext /\ OtpAlone]_vars

\* cmd/otp.c, in the help: "OTP configuration (word and bit for write)" and
\* "OTP strap (bit and value for write)".  What is burnt is the bit that the
\* command line names.
BurnsArguments == O!BurnsArguments

=============================================================================
