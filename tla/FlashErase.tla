----------------------------- MODULE FlashErase -----------------------------
(***************************************************************************)
(* flash_erase() of src/src/flash.c and everything it calls: the choice of *)
(* the erase command, the write-enable handshake, the erase command itself *)
(* and the wait for the chip to become idle.  The program is one thread;   *)
(* the SPI NOR chip is a second actor that finishes an erase in its own    *)
(* time, and every command travels over an AHB bridge that may fail.       *)
(*                                                                         *)
(* Addresses and sizes are counted in units of 2 KiB, half the smallest    *)
(* erase sector, so that requests that are not sector aligned exist.       *)
(***************************************************************************)
EXTENDS Integers

CONSTANTS
  TSize,      \* c->tsize, the size of the chip
  Word,       \* modulus of the uint64_t arithmetic on size
  WrenTries,  \* how often fl_wren() sends CMD_WREN, 1000 in the code
  MaxCalls,   \* how many calls of flash_erase() one behaviour makes
  Requests    \* the <<flags, dst, size>> that callers ask of which chip

ASSUME GeometryAssumption ==
  /\ TSize \in Nat
  /\ Word \in Nat /\ Word > TSize
  /\ WrenTries \in Nat \ {0}
  /\ MaxCalls \in Nat
  /\ Requests \subseteq
       (SUBSET {"ERASE_4K", "ERASE_32K", "ERASE_64K", "MICRON_BUGS"})
         \X (0 .. Word - 1) \X (0 .. Word - 1)

SE == 2        \* CMD_SE     erases 4 KiB
BE32K == 16    \* CMD_BE32K  erases 32 KiB
BE == 32       \* CMD_BE     erases 64 KiB

OK == 0
EINVAL == -22
ETIMEDOUT == -110
EIO == -5      \* whatever the bridge returned for a failed access

Unit == 0 .. TSize - 1
Range(d, s) == {u \in Unit : d <= u /\ u < d + s}

VARIABLES
  flags,    \* c->info.flags: the FL_* flags of the chip that matter here
  pc,       \* where flash_erase() is
  dst,      \* its loop variables
  size,
  chunk,    \* what fl_get_best_erase() chose; the command follows from it
  tries,    \* i in fl_wren()
  rc,       \* the result of the last call
  calls,    \* number of calls made so far
  asked,    \* history: the units some accepted call was asked to erase
  last,     \* history: the units the current call was asked to erase
  chip,     \* the contents of the chip
  wip,      \* STAT_WIP: an erase is in progress ...
  pending,  \* ... of these units
  wel,      \* STAT_WEN: the write enable latch
  flagDue   \* a Micron chip ignores writes until its flag status is read

prog == <<flags, pc, dst, size, chunk, tries, rc, calls, asked, last>>
flash == <<chip, wip, pending, wel, flagDue>>
vars == <<prog, flash>>

Init ==
  /\ flags \in {r[1] : r \in Requests}
  /\ pc = "idle" /\ dst = 0 /\ size = 0 /\ chunk = 0 /\ tries = 0 /\ rc = OK
  /\ calls = 0 /\ asked = {} /\ last = {}
  /\ chip = [u \in Unit |-> "data"]
  /\ wip = FALSE /\ pending = {} /\ wel \in BOOLEAN /\ flagDue = FALSE

Return(code) == pc' = "idle" /\ rc' = code

-----------------------------------------------------------------------------
(***************************************************************************)
(* The chip, external to the repository.                                   *)
(***************************************************************************)
Ready == ~wip /\ ~flagDue

\* The effect of an erase command of n units at address a: the chip ignores
\* it without the latch, and otherwise erases the whole block a lies in.
ChipErase(a, n) ==
  IF Ready /\ wel
    THEN /\ wip' = TRUE
         /\ pending' = Range(a - (a % n), n)
         /\ UNCHANGED <<chip, wel, flagDue>>
    ELSE UNCHANGED flash

\* The effect of CMD_WREN: "Some flashes need it to be hammered".
ChipWren ==
  /\ wel' \in (IF Ready THEN {wel, TRUE} ELSE {wel})
  /\ UNCHANGED <<chip, wip, pending, flagDue>>

ChipDone ==
  /\ wip
  /\ chip' = [u \in Unit |-> IF u \in pending THEN "erased" ELSE chip[u]]
  /\ wip' = FALSE /\ pending' = {} /\ wel' = FALSE
  /\ flagDue' = ("MICRON_BUGS" \in flags)
  /\ UNCHANGED prog

-----------------------------------------------------------------------------
MinErase ==
  IF "ERASE_4K" \in flags THEN SE
  ELSE IF "ERASE_32K" \in flags THEN BE32K ELSE BE

fl_get_best_erase(d, s) ==
  IF d % BE32K # 0 \/ s < BE32K THEN SE
  ELSE IF "ERASE_32K" \in flags /\ (d % BE # 0 \/ s < BE) THEN BE32K
  ELSE IF "ERASE_64K" \notin flags
    THEN IF "ERASE_32K" \in flags THEN BE32K ELSE SE
  ELSE BE

(* Mutated: the start of the request need not be aligned.                   *)
BadRequest_unaligned(d, s) ==
  \/ (d + s) % Word <= d
  \/ s = 0
  \/ (d + s) % Word > TSize
  \/ s % MinErase # 0

\* The sanity checks at the head of flash_erase().
BadRequest(d, s) ==
  \/ (d + s) % Word <= d
  \/ s = 0
  \/ (d + s) % Word > TSize
  \/ d % MinErase # 0
  \/ s % MinErase # 0

flash_erase(d, s) ==
  /\ pc = "idle" /\ calls < MaxCalls
  /\ calls' = calls + 1
  /\ dst' = d /\ size' = s
  /\ IF BadRequest(d, s)
       THEN Return(EINVAL) /\ UNCHANGED <<asked, last>>
       ELSE /\ pc' = "loop" /\ rc' = OK
            /\ last' = Range(d, s) /\ asked' = asked \union Range(d, s)
  /\ UNCHANGED <<flags, chunk, tries, flash>>

\* while (size) { fl_get_best_erase(); fl_wren(); ...
EraseLoop ==
  /\ pc = "loop"
  /\ IF size = 0
       THEN Return(OK) /\ UNCHANGED <<chunk, tries>>
       ELSE /\ chunk' = fl_get_best_erase(dst, size)
            /\ tries' = 0 /\ pc' = "wren" /\ UNCHANGED rc
  /\ UNCHANGED <<flags, dst, size, calls, asked, last, flash>>

(* Mutated: no bound on the rounds.                                         *)
WrenSend_forever ==
  /\ pc = "wren" /\ ChipWren
  /\ pc' = "wren_stat"
  /\ UNCHANGED <<flags, dst, size, chunk, tries, rc, calls, asked, last>>

\* One round of the loop in fl_wren(): CMD_WREN, then the status register.
WrenSend ==
  /\ pc = "wren"
  /\ \/ /\ tries = WrenTries /\ Return(ETIMEDOUT) /\ UNCHANGED <<tries, flash>>
     \/ /\ tries < WrenTries /\ Return(EIO) /\ UNCHANGED <<tries, flash>>
     \/ /\ tries < WrenTries /\ ChipWren
        /\ tries' = tries + 1 /\ pc' = "wren_stat" /\ UNCHANGED rc
  /\ UNCHANGED <<flags, dst, size, chunk, calls, asked, last>>

(* Mutated: the status register is not looked at.                           *)
WrenStat_blind ==
  /\ pc = "wren_stat" /\ pc' = "cmd"
  /\ UNCHANGED <<flags, dst, size, chunk, tries, rc, calls, asked, last, flash>>

WrenStat ==
  /\ pc = "wren_stat"
  /\ \/ Return(EIO)
     \/ /\ pc' = IF wip THEN "wren_idle" ELSE IF wel THEN "cmd" ELSE "wren"
        /\ UNCHANGED rc
  /\ UNCHANGED <<flags, dst, size, chunk, tries, calls, asked, last, flash>>

\* ct->cmd_wr(ct, cmd, true, dst, NULL, 0): a failed transfer may or may not
\* have reached the chip.
EraseCmd ==
  /\ pc = "cmd"
  /\ \/ Return(EIO) /\ UNCHANGED flash
     \/ Return(EIO) /\ ChipErase(dst, chunk)
     \/ /\ pc' = "cmd_idle" /\ UNCHANGED rc /\ ChipErase(dst, chunk)
  /\ UNCHANGED <<flags, dst, size, chunk, tries, calls, asked, last>>

\* fl_sync_wait_idle(), called from fl_wren() and after the erase command.
\* On a Micron chip fl_micron_status() follows; its own failure is ignored.
WaitIdle ==
  /\ pc \in {"wren_idle", "cmd_idle"}
  /\ \/ Return(EIO) /\ UNCHANGED <<dst, size, flagDue>>
     \/ /\ ~wip /\ UNCHANGED rc
        /\ flagDue' \in (IF "MICRON_BUGS" \in flags THEN {flagDue, FALSE} ELSE {flagDue})
        /\ IF pc = "wren_idle"
             THEN pc' = "wren" /\ UNCHANGED <<dst, size>>
             ELSE /\ pc' = "loop"
                  /\ dst' = dst + chunk
                  /\ size' = (size - chunk) % Word
  /\ UNCHANGED <<flags, chunk, tries, calls, asked, last, chip, wip, pending, wel>>

Step == EraseLoop \/ WrenSend \/ WrenStat \/ EraseCmd \/ WaitIdle

Next ==
  \/ \E r \in Requests : flags = r[1] /\ flash_erase(r[2], r[3])
  \/ Step
  \/ ChipDone

Spec == Init /\ [][Next]_vars

\* The caller waits in flash_erase(), so its thread keeps running, and a chip
\* finishes the erase it accepted.
FairSpec == Spec /\ WF_vars(Step) /\ WF_vars(ChipDone)

-----------------------------------------------------------------------------
\* A chip whose 64 KiB erase fl_get_best_erase() may choose although only
\* 32 KiB are left or aligned: in flash_info, one with FL_MICRON_BUGS.
NoMiddle(f) == "ERASE_64K" \in f /\ "ERASE_32K" \notin f

\* A range of such a chip that the loop erases without leaving it: whole
\* 64 KiB blocks, or less than the 32 KiB at which it turns to them.
LoopFits(a, s) == s < BE32K \/ (a % BE = 0 /\ s % BE = 0)

\* What the erase loop needs of its callers: of such a chip they erase whole
\* 64 KiB blocks, as cmd_write_firmware() does, or less than 32 KiB, as the
\* single sectors of flash_smart_write() are.
ChunkFits ==
  \A r \in Requests : NoMiddle(r[1]) => LoopFits(r[2], r[3])

StatusOK == wip \in BOOLEAN /\ wel \in BOOLEAN /\ flagDue \in BOOLEAN

TypeOK ==
  /\ StatusOK /\ flags \in {r[1] : r \in Requests}
  /\ pc \in {"idle", "loop", "wren", "wren_stat", "wren_idle", "cmd", "cmd_idle"}
  /\ dst \in Nat /\ size \in 0 .. Word
  /\ chunk \in {0, SE, BE32K, BE}
  /\ tries \in 0 .. WrenTries /\ calls \in 0 .. MaxCalls
  /\ rc \in {OK, EINVAL, ETIMEDOUT, EIO}
  /\ asked \subseteq Unit /\ last \subseteq Unit /\ pending \subseteq Unit
  /\ chip \in [Unit -> {"data", "erased"}]

\* flash_erase() never destroys data it was not asked to erase: whatever the
\* chip has erased or is erasing lies inside an accepted request, after failed
\* commands and retried calls too (flash.c, the loop around fl_get_best_erase).
EraseConfined ==
  pending \union {u \in Unit : chip[u] = "erased"} \subseteq asked

\* A call that returned 0 has erased the whole request, although the chip may
\* have ignored any single command (flash.c, "Wait for write complete").
EraseComplete ==
  pc = "idle" /\ calls > 0 /\ rc = OK => \A u \in last : chip[u] = "erased"

\* flash_erase() returns: no retry loop of fl_wren() or fl_sync_wait_idle()
\* spins for ever when the chip finishes what it started.
EraseReturns == (pc # "idle") ~> (pc = "idle")

=============================================================================
