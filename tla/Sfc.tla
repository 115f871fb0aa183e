-------------------------------- MODULE Sfc ---------------------------------
(***************************************************************************)
(* The SPI flash controller, soc/sfc.c, and the part of flash.c that gets  *)
(* a chip ready behind it.  A command is clocked out in user mode between  *)
(* two writes of the control register that move CE#; otherwise the         *)
(* controller is in read mode and shows the chip as memory.  Chip,         *)
(* controller and driver must agree on addresses of three or of four       *)
(* bytes.                                                                  *)
(*                                                                         *)
(* Every register access may fail, and a failed write may have landed.     *)
(***************************************************************************)
EXTENDS Integers

CONSTANTS
  Setups,     \* the controllers and chips to run on: see below
  WrenTries,  \* the bound of fl_wren(): 1000
  MaxOps      \* commands and reads a client issues

\* type: of the controller; big: the chip has more than 16 MiB; can4b: its
\* flags hold FL_CAN_4B; was4b: somebody left it, and the controller, in 4B
\* mode; needsWel: it wants CMD_WREN before CMD_EN4B; dull: it ignores
\* CMD_WREN; busy: it is in the middle of a write; known: flash_info lists it.
AllSetups ==
  [type : {"FMC", "SMC"}, big : BOOLEAN, can4b : BOOLEAN, was4b : BOOLEAN,
   needsWel : BOOLEAN, dull : BOOLEAN, busy : BOOLEAN, known : BOOLEAN]

SfcAssumption ==
  /\ Setups \subseteq AllSetups /\ WrenTries \in Nat \ {0} /\ MaxOps \in Nat
  /\ \A s \in Setups : (s.big => s.can4b) /\ (s.was4b => s.can4b)

\* sfc_set_4b() returns before it reaches FMC_CE_CTRL of an FMC with a small
\* chip: its width is right if nobody has left that controller in 4B mode.
SmallFmcUntouched == \A s \in Setups : s.type = "FMC" /\ ~s.big => ~s.was4b

VARIABLES
  setup,
  pc,       \* where the client of the driver is
  at,       \* where sfc_cmd_rd() or sfc_cmd_wr() is
  cmd,      \* the command
  rc,       \* its result
  stat,     \* the status register as CMD_RDSR returned it
  tries,    \* i in fl_wren()
  mode4b,   \* ct->mode_4b, and bit 13 of ct->ctl_val and ct->ctl_read_val
  finfo,    \* ct->ops.finfo is set
  ctl,      \* CE0_CTRL: mode, and the width of addresses for an SMC
  ce,       \* FMC_CE_CTRL: the width of addresses for an FMC
  we,       \* CE_TYPE: "Enable writes for user mode"
  chip,     \* the chip
  got,      \* what the last memory-mapped read returned
  ops,
  opened,   \* history: flash_init() succeeded
  torn,     \* history: a command byte met the middle of another command
  endLost,  \* history: the last sfc_end_cmd() failed
  wrenLost  \* history: fl_wren() failed

call == <<at, cmd, rc, stat>>
drv == <<tries, mode4b, finfo>>
hw == <<ctl, ce, we, chip>>
hist == <<opened, torn, endLost, wrenLost>>
vars == <<setup, pc, call, drv, hw, got, ops, hist>>

Command(n, a) == [name |-> n, addr |-> a]

Init ==
  /\ setup \in Setups
  /\ pc = "down" /\ at = "none" /\ cmd = Command("none", FALSE) /\ rc = "ok"
  /\ stat = [wip |-> FALSE, wel |-> FALSE] /\ tries = 0
  /\ mode4b = FALSE /\ finfo = FALSE
  /\ ctl = [mode |-> "read", b4 |-> setup.was4b] /\ ce = setup.was4b
  /\ we \in BOOLEAN
  /\ chip = [b4 |-> setup.was4b, wip |-> setup.busy, wel |-> FALSE, latch |-> "none"]
  /\ got = "none" /\ ops = 0
  /\ opened = FALSE /\ torn = FALSE /\ endLost = FALSE /\ wrenLost = FALSE

-----------------------------------------------------------------------------
(***************************************************************************)
(* The chip, external to the repository: it latches a command while it is  *)
(* selected and carries it out when CE# rises.                             *)
(***************************************************************************)
Executed ==
  LET on == ~setup.needsWel \/ chip.wel
  IN  CASE chip.latch = "WREN" -> [chip EXCEPT !.latch = "none", !.wel = ~setup.dull]
        [] chip.latch = "EN4B" /\ on -> [chip EXCEPT !.latch = "none", !.wel = FALSE, !.b4 = TRUE]
        [] chip.latch = "EX4B" /\ on -> [chip EXCEPT !.latch = "none", !.wel = FALSE, !.b4 = FALSE]
        [] OTHER -> [chip EXCEPT !.latch = "none"]

WriteEnds ==
  /\ chip.wip /\ chip' = [chip EXCEPT !.wip = FALSE]
  /\ UNCHANGED <<setup, pc, call, drv, ctl, ce, we, got, ops, hist>>

\* The control register is written.
CtlWrite(m, b) ==
  /\ ctl' = [mode |-> m, b4 |-> b]
  /\ chip' = IF m = "low" THEN chip ELSE Executed

CtlLost(m, b) == CtlWrite(m, b) \/ UNCHANGED <<ctl, chip>>

\* The width of the addresses that the controller sends by itself.
HwWidth == IF setup.type = "FMC" THEN ce ELSE ctl.b4

-----------------------------------------------------------------------------
(***************************************************************************)
(* sfc_cmd_rd() and sfc_cmd_wr().                                          *)
(***************************************************************************)
Call(n, a, l) ==
  /\ at = "none" /\ at' = "high" /\ cmd' = Command(n, a) /\ pc' = l
  /\ got' = "none"

Step(from, to) == at = from /\ at' = to /\ UNCHANGED <<cmd, rc, stat>>
Bail(from) == at = from /\ at' = "end_high" /\ rc' = "fail" /\ UNCHANGED <<cmd, stat>>
Keep == UNCHANGED <<setup, pc, drv, ce, we, got, ops, opened, wrenLost>>

(* Mutated: CE# is taken to be inactive already.                            *)
StartHigh_skipped == Step("high", "low") /\ Keep /\ UNCHANGED <<ctl, chip, torn, endLost>>

\* "Switch to user mode, CE# dropped"
StartHigh ==
  /\ \/ Step("high", "low") /\ CtlWrite("high", mode4b)
     \/ Bail("high") /\ CtlLost("high", mode4b)
  /\ Keep /\ UNCHANGED <<torn, endLost>>

\* "user mode, CE# active"
StartLow ==
  /\ \/ Step("low", "byte") /\ CtlWrite("low", mode4b)
     \/ Bail("low") /\ CtlLost("low", mode4b)
  /\ Keep /\ UNCHANGED <<torn, endLost>>

\* "write cmd"
StartByte ==
  LET sent == /\ chip' = [chip EXCEPT !.latch = cmd.name]
              /\ torn' = (torn \/ ctl.mode # "low" \/ chip.latch # "none")
  IN  /\ \/ Step("byte", "body") /\ sent
         \/ Bail("byte") /\ (sent \/ UNCHANGED <<chip, torn>>)
      /\ Keep /\ UNCHANGED <<ctl, endLost>>

\* sfc_send_addr() and the data.
Body ==
  /\ \/ /\ at = "body" /\ at' = "end_high" /\ rc' = "ok" /\ UNCHANGED cmd
        /\ stat' = IF cmd.name = "RDSR" THEN [wip |-> chip.wip, wel |-> chip.wel] ELSE stat
     \/ (cmd.addr \/ cmd.name \in {"RDSR", "RDID"}) /\ Bail("body")
  /\ Keep /\ UNCHANGED <<ctl, chip, torn, endLost>>

\* sfc_end_cmd(): "clear CE#", then "Switch back to read mode".  Failures are
\* printed and forgotten.
EndHigh ==
  /\ \/ Step("end_high", "end_read") /\ CtlWrite("high", mode4b) /\ UNCHANGED endLost
     \/ Step("end_high", "none") /\ CtlLost("high", mode4b) /\ endLost' = TRUE
  /\ Keep /\ UNCHANGED torn

(* Mutated: the controller is left in user mode.                            *)
EndRead_skipped ==
  /\ Step("end_read", "none") /\ endLost' = FALSE
  /\ Keep /\ UNCHANGED <<ctl, chip, torn>>

EndRead ==
  /\ Step("end_read", "none")
  /\ \/ CtlWrite("read", mode4b) /\ endLost' = FALSE
     \/ CtlLost("read", mode4b) /\ endLost' = TRUE
  /\ Keep /\ UNCHANGED torn

-----------------------------------------------------------------------------
\* The registers that are sanitised, with "Enable writes for user mode".
sfc_init_device ==
  \/ pc' = "id" /\ we' = TRUE /\ CtlWrite("read", FALSE)
  \/ pc' = "gone" /\ UNCHANGED <<we, ctl, chip>>
  \/ pc' = "gone" /\ we' = TRUE /\ CtlLost("read", FALSE)

sfc_driver_init ==
  /\ pc = "down" /\ sfc_init_device /\ mode4b' = FALSE
  /\ UNCHANGED <<setup, call, tries, finfo, ce, got, ops, hist>>

Goto(l) == pc' = l /\ UNCHANGED <<setup, call, hw, got, ops>>
Quiet == UNCHANGED <<setup, rc, stat, drv, hw, ops, hist>>

\* fl_chip_id(): the status, and fl_sync_wait_idle() if the chip is writing.
\* That looks at ct->finfo->flags.
ReadStatus == pc = "id" /\ Call("RDSR", FALSE, "id_stat") /\ Quiet

Status ==
  /\ pc = "id_stat" /\ at = "none"
  /\ \/ rc = "fail" /\ Goto("closed")
     \/ rc = "ok" /\ stat.wip /\ Goto("wait")
     \/ rc = "ok" /\ ~stat.wip /\ Goto("rdid")
  /\ UNCHANGED <<drv, hist>>

PollStatus == pc = "wait" /\ Call("RDSR", FALSE, "wait_stat") /\ Quiet

fl_sync_wait_idle ==
  /\ pc = "wait_stat" /\ at = "none"
  /\ \/ rc = "fail" /\ Goto("closed")
     \/ rc = "ok" /\ stat.wip /\ Goto("wait")
     \/ rc = "ok" /\ ~stat.wip /\ Goto(IF finfo THEN "rdid" ELSE "fault")
  /\ UNCHANGED <<drv, hist>>

ReadId == pc = "rdid" /\ Call("RDID", FALSE, "identify") /\ Quiet

\* flash_identify() looks the chip up, flash_init() allocates a buffer.
flash_identify ==
  /\ pc = "identify" /\ at = "none"
  /\ IF rc = "fail" \/ ~setup.known
       THEN Goto("closed") /\ UNCHANGED finfo
       ELSE (Goto("configure") \/ Goto("closed")) /\ finfo' = TRUE
  /\ UNCHANGED <<tries, mode4b, hist>>

-----------------------------------------------------------------------------
Enable == setup.big

\* flash_configure()
flash_configure ==
  /\ pc = "configure"
  /\ Goto(IF setup.big \/ setup.can4b THEN "wren" ELSE "set_4b")
  /\ UNCHANGED <<drv, hist>>

Wren ==
  /\ pc = "wren" /\ tries < WrenTries /\ tries' = tries + 1
  /\ Call("WREN", FALSE, "wren_sent")
  /\ UNCHANGED <<setup, rc, stat, mode4b, finfo, hw, ops, hist>>

\* fl_wren(), whose failure flash_set_4b() ignores.
WrenTimeout ==
  /\ pc = "wren" /\ tries = WrenTries
  /\ Goto("switch") /\ wrenLost' = TRUE
  /\ UNCHANGED <<drv, opened, torn, endLost>>

WrenSent ==
  /\ pc = "wren_sent" /\ at = "none"
  /\ \/ /\ rc = "fail" /\ Goto("switch") /\ wrenLost' = TRUE
        /\ UNCHANGED <<drv, opened, torn, endLost>>
     \/ rc = "ok" /\ Call("RDSR", FALSE, "wren_stat") /\ Quiet

WrenStat ==
  /\ pc = "wren_stat" /\ at = "none"
  /\ Goto(IF rc = "ok" /\ ~stat.wel THEN "wren" ELSE "switch")
  /\ wrenLost' = (rc = "fail")
  /\ UNCHANGED <<drv, opened, torn, endLost>>

\* flash_set_4b()
Switch ==
  /\ pc = "switch"
  /\ Call(IF Enable THEN "EN4B" ELSE "EX4B", FALSE, "switched")
  /\ Quiet

Switched ==
  /\ pc = "switched" /\ at = "none"
  /\ Goto(IF rc = "ok" THEN "set_4b" ELSE "closed")
  /\ UNCHANGED <<drv, hist>>

Opens == pc' = "open" /\ opened' = TRUE
Fails == pc' = "closed" /\ UNCHANGED opened

(* Mutated: the address width is changed in the driver only.                *)
sfc_set_4b_quiet ==
  /\ pc = "set_4b" /\ Opens /\ mode4b' = Enable
  /\ UNCHANGED <<setup, call, tries, finfo, hw, got, ops, torn, endLost, wrenLost>>

\* sfc_set_4b().  An FMC with a small chip has nothing to do.
sfc_set_4b ==
  /\ pc = "set_4b"
  /\ \/ /\ setup.type = "FMC" /\ ~setup.big /\ Opens
        /\ UNCHANGED <<mode4b, ctl, chip, ce>>
     \/ /\ setup.type = "FMC" /\ setup.big /\ Fails   \* FMC_CE_CTRL is not read
        /\ UNCHANGED <<mode4b, ctl, chip, ce>>
     \/ /\ setup.type = "SMC" \/ setup.big
        /\ mode4b' = Enable
        /\ \/ CtlWrite("read", Enable) /\ Opens
              /\ ce' = IF setup.type = "FMC" THEN Enable ELSE ce
           \/ CtlLost("read", Enable) /\ Fails /\ UNCHANGED ce
           \/ setup.type = "FMC" /\ CtlWrite("read", Enable) /\ Fails /\ ce' \in {ce, Enable}
  /\ UNCHANGED <<setup, call, tries, finfo, we, got, ops, torn, endLost, wrenLost>>

-----------------------------------------------------------------------------
Tick == ops < MaxOps /\ ops' = ops + 1

\* A command of flash.c: READ, PP, SE and the like, all with an address.
Addressed ==
  /\ pc \in {"open", "protected"} /\ Tick /\ Call("addressed", TRUE, pc)
  /\ UNCHANGED <<setup, rc, stat, drv, hw, hist>>

\* "We are in read mode by default."
sfc_direct_read ==
  /\ pc \in {"open", "protected"} /\ at = "none" /\ Tick
  /\ got' = IF ctl.mode = "read" /\ HwWidth = chip.b4 THEN "data" ELSE "garbage"
  /\ UNCHANGED <<setup, pc, call, drv, hw, hist>>

\* The write protection of cmd/read.c: type_wp_mask covers the bits that
\* sfc_init_device() sets.
sfc_write_protect_save ==
  /\ pc = "open" /\ at = "none"
  /\ \/ pc' = "protected" /\ we' = TRUE
     \/ pc' = "closed" /\ we' \in {we, TRUE}
  /\ UNCHANGED <<setup, call, drv, ctl, ce, chip, got, ops, hist>>

sfc_write_protect_restore ==
  /\ pc = "protected" /\ at = "none" /\ pc' = "closed"
  /\ UNCHANGED <<setup, call, drv, hw, got, ops, hist>>

flash_destroy ==
  /\ pc = "open" /\ at = "none" /\ Goto("closed")
  /\ UNCHANGED <<drv, hist>>

\* "Restore control reg to read"
sfc_driver_destroy ==
  /\ pc = "closed" /\ pc' = "gone"
  /\ CtlLost("read", mode4b)
  /\ UNCHANGED <<setup, call, drv, ce, we, got, ops, hist>>

Next ==
  \/ WriteEnds \/ sfc_driver_init
  \/ StartHigh \/ StartLow \/ StartByte \/ Body \/ EndHigh \/ EndRead
  \/ ReadStatus \/ Status \/ PollStatus \/ fl_sync_wait_idle
  \/ ReadId \/ flash_identify \/ flash_configure
  \/ Wren \/ WrenTimeout \/ WrenSent \/ WrenStat \/ Switch \/ Switched
  \/ sfc_set_4b
  \/ Addressed \/ sfc_direct_read
  \/ sfc_write_protect_save \/ sfc_write_protect_restore
  \/ flash_destroy \/ sfc_driver_destroy

Spec == Init /\ [][Next]_vars

-----------------------------------------------------------------------------
TypeOK ==
  /\ setup \in Setups
  /\ at \in {"none", "high", "low", "byte", "body", "end_high", "end_read"}
  /\ cmd \in [name : {"none", "RDSR", "RDID", "WREN", "EN4B", "EX4B", "addressed"},
              addr : BOOLEAN]
  /\ rc \in {"ok", "fail"} /\ tries \in 0 .. WrenTries
  /\ ctl \in [mode : {"read", "high", "low"}, b4 : BOOLEAN]
  /\ got \in {"none", "data", "garbage"} /\ ops \in 0 .. MaxOps
  /\ opened => finfo

\* Every command byte reaches a chip that has just been selected, so that it
\* is taken for a command, whatever the failures of the command before left
\* behind: sfc_end_cmd() may leave CE# active (sfc.c, sfc_start_cmd).
Framed == ~torn

\* Once flash_init() has succeeded, driver, controller and chip agree on the
\* width of addresses, and still do when culvert is gone, through any failures
\* but that of a write enable the chip insists on (sfc.c, "we need to leave
\* the controller in a compatible setup").
WidthsAgree ==
  opened /\ ~wrenLost => mode4b = Executed.b4 /\ HwWidth = Executed.b4

\* A memory-mapped read returns the contents of the chip: the controller is
\* in read mode with the right width whenever flash_read() may be called, but
\* for a sfc_end_cmd() whose own accesses failed (sfc.c, "We are in read mode
\* by default").
ReadsData == got = "garbage" => endLost \/ wrenLost

-----------------------------------------------------------------------------
(***************************************************************************)
(* Said of the program, and not what it does: see "Known divergences" in   *)
(* README.md.                                                              *)
(***************************************************************************)

\* flash.c: "If stuck writing, wait for idle".  A busy chip is waited for.
WaitsForIdle == pc # "fault"

\* cmd/read.c: "Write-protecting all chip-selects".
WriteProtected == pc = "protected" => ~we

=============================================================================
