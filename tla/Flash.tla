-------------------------------- MODULE Flash --------------------------------
(***************************************************************************)
(* The flash library, one part of it at a time: an erase (FlashErase), a   *)
(* plain, smart or streamed write (FlashWrite), or the life of the SPI     *)
(* controller and its chip under a command (Sfc).  Each keeps its own view *)
(* of the chip: what an erase, a program or a change of the address width  *)
(* does to it.                                                             *)
(***************************************************************************)
EXTENDS FlashErase

CONSTANTS
  Page, Sector, PSize, PWord, Window, Writes, Contents, MaxWrites,  \* of FlashWrite
  Setups, MaxOps                                                    \* of Sfc

VARIABLES
  part,  \* which part of the library this is about
  wrPc, wrRc, wrCalls, wrDst, wrSize, wrChip, wrWip,
  op, d, todo, src, verify, sdst, ssize, send, buf, addr, left, want, pend,
  before, req, blind,                                     \* of FlashWrite
  sfcPc, sfcRc, sfcTries, sfcChip,
  setup, at, cmd, stat, mode4b, finfo, ctl, ce, we, got, ops, opened, torn,
  endLost, wrenLost                                       \* of Sfc

W == INSTANCE FlashWrite WITH
       TSize <- PSize, Word <- PWord, Requests <- Writes, MaxCalls <- MaxWrites,
       pc <- wrPc, rc <- wrRc, calls <- wrCalls, dst <- wrDst, size <- wrSize,
       chip <- wrChip, wip <- wrWip

S == INSTANCE Sfc WITH pc <- sfcPc, rc <- sfcRc, tries <- sfcTries, chip <- sfcChip

ASSUME FlashAssumption == W!WriteAssumption /\ S!SfcAssumption

writeVars ==
  <<wrPc, wrRc, wrCalls, wrDst, wrSize, wrChip, wrWip, op, d, todo, src, verify,
    sdst, ssize, send, buf, addr, left, want, pend, before, req, blind>>
sfcVars ==
  <<sfcPc, sfcRc, sfcTries, sfcChip, setup, at, cmd, stat, mode4b, finfo, ctl, ce,
    we, got, ops, opened, torn, endLost, wrenLost>>
flashVars == <<part, vars, writeVars, sfcVars>>

\* Each part starts as its module says, while the others rest in one of their
\* initial states.
EraseRests == flags = (CHOOSE f \in {r[1] : r \in Requests} : TRUE) /\ wel = FALSE
WriteRests == wrChip = CHOOSE c \in Contents : TRUE
SfcRests == setup = (CHOOSE s \in Setups : TRUE) /\ we = FALSE

FlashInit ==
  /\ part \in {"erase", "write", "sfc"}
  /\ Init /\ W!Init /\ S!Init
  /\ part # "erase" => EraseRests
  /\ part # "write" => WriteRests
  /\ part # "sfc" => SfcRests

EraseCall == \E r \in Requests : flags = r[1] /\ flash_erase(r[2], r[3])
EraseStep == part = "erase" /\ Step /\ UNCHANGED <<part, writeVars, sfcVars>>
EraseDone == part = "erase" /\ ChipDone /\ UNCHANGED <<part, writeVars, sfcVars>>

FlashNext ==
  \/ part = "erase" /\ EraseCall /\ UNCHANGED <<part, writeVars, sfcVars>>
  \/ EraseStep \/ EraseDone
  \/ part = "write" /\ W!Next /\ UNCHANGED <<part, vars, sfcVars>>
  \/ part = "sfc" /\ S!Next /\ UNCHANGED <<part, vars, writeVars>>

\* As FairSpec of FlashErase.
FlashSpec ==
  FlashInit /\ [][FlashNext]_flashVars /\ WF_flashVars(EraseStep) /\ WF_flashVars(EraseDone)

-----------------------------------------------------------------------------
\* A byte the caller did not name keeps its value, or is at most in a sector
\* of a smart write (flash.c, "Handle misaligned start").
WriteConfined == W!WriteConfined

\* A verified write that returned 0, and a `sfc write`, left exactly the
\* caller's data in the chip (flash.c, "Verify").
WriteVerified == W!WriteVerified

\* A smart write that returned 0 left the caller's data and the neighbours as
\* they were (flash.c, flash_smart_write).
SmartPreserves == W!SmartPreserves

\* Every command byte reaches a chip that has just been selected (sfc.c,
\* sfc_start_cmd).
Framed == S!Framed

\* Driver, controller and chip agree on the width of addresses (sfc.c, "we
\* need to leave the controller in a compatible setup").
WidthsAgree == S!WidthsAgree

\* A memory-mapped read returns the contents of the chip (sfc.c, "We are in
\* read mode by default").
ReadsData == S!ReadsData

=============================================================================
