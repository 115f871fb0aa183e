----------------------------- MODULE FlashWrite -----------------------------
(***************************************************************************)
(* flash_write() and flash_smart_write() of src/src/flash.c: a NOR chip    *)
(* programs a page at a time and can only clear bits, so a write is split  *)
(* at page boundaries and read back, and the smart write erases the sector *)
(* first when some bit has to be set.  do_sfc() of cmd/sfc.c writes what   *)
(* it reads from the standard input, a short read() at a time.  fl_wren()  *)
(* and flash_erase() appear by their results; FlashErase models them.      *)
(*                                                                         *)
(* The unit of the model is a byte of a single bit.  Every transfer may    *)
(* fail, and a failed program command may have carried part of its data.   *)
(***************************************************************************)
EXTENDS Integers

CONSTANTS
  Page,      \* the size of a page, 0x100 in the code
  Sector,    \* er_size, the smallest erase size
  TSize,     \* c->tsize
  Word,      \* modulus of uint32_t
  Window,    \* SFC_FLASH_WIN, what do_sfc() reads at most
  Requests,  \* the <<dst, size>> pairs of the callers
  Contents,  \* what the chip holds at first and what the callers write
  MaxCalls   \* how many calls one behaviour makes

Unit == 0 .. TSize - 1
Bit == {0, 1}

WriteAssumption ==
  /\ {Page, Sector, TSize, Word, Window} \subseteq Nat \ {0}
  /\ Sector % Page = 0 /\ TSize % Sector = 0 /\ TSize < Word
  /\ Requests \subseteq (0 .. Word - 1) \X (0 .. Word - 1)
  /\ Contents \subseteq [Unit -> Bit]
  /\ MaxCalls \in Nat

OK == 0
EIO == -5
EINVAL == -22
EREMOTEIO == -121

Span(d, s) == {u \in Unit : d <= u /\ u < d + s}
Least(a, b) == IF a < b THEN a ELSE b

VARIABLES
  pc,      \* where the call is
  op,      \* which function the caller called: "write", "smart" or "sfc"
  rc,      \* its result
  calls,   \* number of calls so far
  d, todo, \* flash_write(): the next page ...
  dst, size,  \* ... the rest to verify ...
  src,     \* ... the data, by address ...
  verify,  \* ... and the flag
  sdst, ssize, send,  \* flash_smart_write(): dst, size and end ...
  buf,     \* ... and c->smart_buf, by address
  addr, left, \* do_sfc(): its address and what is left of the input
  want,    \* what the caller wants at each address
  chip,    \* the chip
  wip,     \* STAT_WIP ...
  pend,    \* ... and the contents when it ends
  before,  \* history: the chip before this call
  req,     \* history: the addresses of this call
  blind    \* history: a read met a busy chip

wvars == <<d, todo, dst, size, src, verify>>
svars == <<sdst, ssize, send, buf>>
sfcVars == <<addr, left>>
flash == <<chip, wip, pend>>
hist == <<op, calls, want, before, req>>
vars == <<pc, rc, wvars, svars, sfcVars, flash, hist, blind>>

Blank == [u \in Unit |-> 1]

Init ==
  /\ pc = "idle" /\ op = "write" /\ rc = OK /\ calls = 0
  /\ d = 0 /\ todo = 0 /\ dst = 0 /\ size = 0 /\ src = Blank /\ verify = FALSE
  /\ sdst = 0 /\ ssize = 0 /\ send = 0 /\ buf = Blank /\ want = Blank
  /\ addr = 0 /\ left = 0
  /\ chip \in Contents /\ wip = FALSE /\ pend = chip
  /\ before = chip /\ req = {} /\ blind = FALSE

Return(code) == pc' = "idle" /\ rc' = code

-----------------------------------------------------------------------------
(***************************************************************************)
(* The chip, external to the repository.                                   *)
(***************************************************************************)
Settled == IF wip THEN pend ELSE chip

\* Programming n bytes at a: the address wraps inside the page, and bits are
\* only cleared.
Programmed(a, n) ==
  LET p == a - (a % Page)
      At(u) == {i \in 0 .. n - 1 : p + ((a + i) % Page) = u}
  IN  [u \in Unit |->
         IF \E i \in At(u) : a + i \in Unit /\ src[a + i] = 0 THEN 0 ELSE chip[u]]

Erased(p) == [u \in Unit |-> IF u \in Span(p, Sector) THEN 1 ELSE chip[u]]

Starts(c) == wip' = TRUE /\ pend' = c /\ UNCHANGED chip

ChipDone ==
  /\ wip /\ wip' = FALSE /\ chip' = pend
  /\ UNCHANGED <<pc, rc, wvars, svars, sfcVars, pend, hist, blind>>

-----------------------------------------------------------------------------
\* A call of a function of the interface.
Call(o, a, s, w) ==
  /\ pc = "idle" /\ calls < MaxCalls /\ calls' = calls + 1
  /\ op' = o /\ want' = w /\ before' = Settled /\ req' = Span(a, s)

\* The head of flash_write(): "Some sanity checking".  The function returns
\* to the caller with an error, or goes on with the first page.
EnterWrite(a, s, data, v) ==
  IF (a + s) % Word <= a \/ s = 0 \/ (a + s) % Word > TSize
    THEN Return(EINVAL) /\ UNCHANGED wvars
    ELSE /\ pc' = "page" /\ UNCHANGED rc
         /\ d' = a /\ todo' = s /\ dst' = a /\ size' = s
         /\ src' = data /\ verify' = v

flash_write(a, s, w, v) ==
  /\ Call("write", a, s, w)
  /\ EnterWrite(a, s, w, v)
  /\ UNCHANGED <<svars, sfcVars, flash, blind>>

\* flash_write() returns 0, to the caller, into flash_smart_write() or into
\* do_sfc().
WriteReturns ==
  CASE op = "write" -> Return(OK)
    [] op = "smart" -> pc' = "sm_next" /\ UNCHANGED rc
    [] op = "sfc" -> pc' = "ingress" /\ UNCHANGED rc

(* Mutated: the first page is not cut at its end.                           *)
PageChunk_whole == Least(Page, todo)

\* "Handle misaligned start"
PageChunk == Least(Page - (d % Page), todo)

\* while (todo): fl_wpage() starts with fl_wren(), which returns 0 only when
\* the chip is idle.
PageLoop ==
  /\ pc = "page"
  /\ \/ /\ todo = 0
        /\ IF verify THEN pc' = "verify" /\ UNCHANGED rc ELSE WriteReturns
     \/ todo > 0 /\ ~wip /\ pc' = "program" /\ UNCHANGED rc
     \/ todo > 0 /\ Return(EIO)
  /\ UNCHANGED <<wvars, svars, sfcVars, flash, hist, blind>>

\* CMD_PP.  A chip may ignore it, as a locked one does.
PageProgram ==
  /\ pc = "program"
  /\ \/ /\ pc' = "wait" /\ UNCHANGED rc
        /\ Starts(Programmed(d, PageChunk)) \/ UNCHANGED flash
     \/ /\ Return(EIO)
        /\ UNCHANGED flash \/ \E n \in 1 .. PageChunk : Starts(Programmed(d, n))
  /\ UNCHANGED <<wvars, svars, sfcVars, hist, blind>>

\* fl_sync_wait_idle()
PageWait ==
  /\ pc = "wait"
  /\ \/ Return(EIO) /\ UNCHANGED <<d, todo>>
     \/ /\ ~wip /\ pc' = "page" /\ UNCHANGED rc
        /\ d' = d + PageChunk /\ todo' = todo - PageChunk
  /\ UNCHANGED <<dst, size, src, verify, svars, sfcVars, flash, hist, blind>>

(* Mutated: the loop ends with the last whole page.                         *)
Verify_short ==
  /\ pc = "verify"
  /\ \/ size < Page /\ WriteReturns /\ UNCHANGED <<dst, size>>
     \/ /\ size >= Page /\ pc' = "verify" /\ UNCHANGED rc
        /\ \A u \in Span(dst, Page) : chip[u] = src[u]
        /\ dst' = dst + Page /\ size' = size - Page
     \/ size > 0 /\ Return(EIO) /\ UNCHANGED <<dst, size>>
  /\ UNCHANGED <<d, todo, src, verify, svars, sfcVars, flash, hist, blind>>

\* while (size): read back and compare.  A busy chip does not answer with its
\* contents.
Verify ==
  LET chunk == Least(Page, size)
      same == \A u \in Span(dst, chunk) : chip[u] = src[u]
  IN  /\ pc = "verify"
      /\ \/ size = 0 /\ WriteReturns /\ UNCHANGED <<dst, size, blind>>
         \/ size > 0 /\ Return(EIO) /\ UNCHANGED <<dst, size, blind>>
         \/ /\ size > 0 /\ (same \/ wip) /\ pc' = "verify" /\ UNCHANGED rc
            /\ dst' = dst + chunk /\ size' = size - chunk /\ blind' = (blind \/ wip)
         \/ /\ size > 0 /\ (~same \/ wip) /\ Return(EREMOTEIO)
            /\ UNCHANGED <<dst, size>> /\ blind' = (blind \/ wip)
      /\ UNCHANGED <<d, todo, src, verify, svars, sfcVars, flash, hist>>

-----------------------------------------------------------------------------
\* flash_smart_write(), up to its loop.
flash_smart_write(a, s, w) ==
  LET end == (a + s) % Word
  IN  /\ Call("smart", a, s, w)
      /\ IF end <= a \/ s = 0 \/ end > TSize
           THEN Return(EINVAL) /\ UNCHANGED <<sdst, ssize, send>>
           ELSE /\ pc' = "sm_loop" /\ UNCHANGED rc
                /\ sdst' = a /\ ssize' = s /\ send' = end
      /\ UNCHANGED <<wvars, buf, sfcVars, flash, blind>>

SmartPage == sdst - (sdst % Sector)
SmartChunk == Least(Sector - (sdst % Sector), ssize)

flash_smart_comp(b) ==
  LET us == Span(sdst, SmartChunk)
  IN  IF \E u \in us : want[u] > b[u] THEN "need_erase"
      ELSE IF \A u \in us : want[u] = b[u] THEN "no_change" ELSE "need_write"

\* while (dst < end): read the sector and compare.
SmartLoop ==
  /\ pc = "sm_loop"
  /\ \/ sdst >= send /\ Return(OK) /\ UNCHANGED <<wvars, buf, blind>>
     \/ sdst < send /\ Return(EIO) /\ UNCHANGED <<wvars, buf, blind>>
     \/ /\ sdst < send /\ blind' = (blind \/ wip)
        /\ buf' \in (IF wip THEN Contents ELSE {chip})
        /\ CASE flash_smart_comp(buf') = "no_change" ->
                  pc' = "sm_next" /\ UNCHANGED <<rc, wvars>>
             [] flash_smart_comp(buf') = "need_write" ->
                  EnterWrite(sdst, SmartChunk, want, TRUE)
             [] flash_smart_comp(buf') = "need_erase" ->
                  pc' = "sm_erase" /\ UNCHANGED <<rc, wvars>>
  /\ UNCHANGED <<sdst, ssize, send, sfcVars, flash, hist>>

(* Mutated: only the chunk is written back after the erase.                 *)
SmartErase_chunk ==
  /\ pc = "sm_erase" /\ ~wip
  /\ chip' = Erased(SmartPage) /\ UNCHANGED <<wip, pend>>
  /\ EnterWrite(sdst, SmartChunk, want, TRUE)
  /\ UNCHANGED <<svars, sfcVars, hist, blind>>

\* flash_erase(c, page, er_size), then the sector is written back with the
\* caller's part of it replaced.
SmartErase ==
  LET block == [u \in Unit |-> IF u \in Span(sdst, SmartChunk) THEN want[u] ELSE buf[u]]
  IN  /\ pc = "sm_erase"
      /\ \/ /\ ~wip /\ chip' = Erased(SmartPage) /\ UNCHANGED <<wip, pend>>
            /\ EnterWrite(SmartPage, Sector, block, TRUE) /\ buf' = block
         \/ /\ Return(EIO) /\ UNCHANGED <<wvars, buf>>
            /\ UNCHANGED flash \/ (~wip /\ Starts(Erased(SmartPage)))
      /\ UNCHANGED <<sdst, ssize, send, sfcVars, hist, blind>>

SmartNext ==
  /\ pc = "sm_next" /\ pc' = "sm_loop"
  /\ sdst' = sdst + SmartChunk /\ ssize' = ssize - SmartChunk
  /\ UNCHANGED <<rc, send, buf, sfcVars, wvars, flash, hist, blind>>

-----------------------------------------------------------------------------
\* do_sfc() with `write ADDRESS`, on an input of s bytes.
do_sfc(a, s, w) ==
  /\ Call("sfc", a, s, w)
  /\ pc' = "ingress" /\ rc' = OK /\ addr' = a /\ left' = s
  /\ UNCHANGED <<wvars, svars, flash, blind>>

(* Mutated: the address moves on by a window after a short read().          *)
Ingress_window ==
  /\ pc = "ingress"
  /\ \/ left = 0 /\ Return(rc) /\ UNCHANGED <<wvars, sfcVars>>
     \/ \E n \in 1 .. Least(left, Window) :
          /\ EnterWrite(addr, n, want, TRUE)
          /\ addr' = (addr + Window) % Word /\ left' = left - n
  /\ UNCHANGED <<svars, flash, hist, blind>>

\* while ((ingress = read(0, buf, arguments.len))): its end, some of it, or
\* an error.
Ingress ==
  /\ pc = "ingress"
  /\ \/ left = 0 /\ Return(rc) /\ UNCHANGED <<wvars, sfcVars>>
     \/ \E n \in 1 .. Least(left, Window) :
          /\ EnterWrite(addr, n, want, TRUE)
          /\ addr' = (addr + n) % Word /\ left' = left - n
     \/ Return(EIO) /\ UNCHANGED <<wvars, sfcVars>>
  /\ UNCHANGED <<svars, flash, hist, blind>>

-----------------------------------------------------------------------------
Next ==
  \/ \E r \in Requests, w \in Contents :
       \/ \E v \in BOOLEAN : flash_write(r[1], r[2], w, v)
       \/ flash_smart_write(r[1], r[2], w)
       \/ do_sfc(r[1], r[2], w)
  \/ PageLoop \/ PageProgram \/ PageWait \/ Verify
  \/ SmartLoop \/ SmartErase \/ SmartNext
  \/ Ingress
  \/ ChipDone

Spec == Init /\ [][Next]_vars

-----------------------------------------------------------------------------
TypeOK ==
  /\ pc \in {"idle", "page", "program", "wait", "verify",
             "sm_loop", "sm_next", "sm_erase", "ingress"}
  /\ op \in {"write", "smart", "sfc"} /\ rc \in {OK, EIO, EINVAL, EREMOTEIO}
  /\ calls \in 0 .. MaxCalls /\ verify \in BOOLEAN
  /\ {d, todo, dst, size, sdst, ssize, send} \subseteq 0 .. TSize
  /\ {addr, left} \subseteq 0 .. Word - 1
  /\ {src, buf, want, chip, pend, before} \subseteq [Unit -> Bit]
  /\ wip \in BOOLEAN /\ blind \in BOOLEAN /\ req \subseteq Unit

\* A byte the caller did not name keeps its value, although a page program
\* wraps inside its page and a smart write erases the neighbours: a plain
\* write never touches it, and a smart write at most in its own sectors
\* (flash.c, "Handle misaligned start").
WriteConfined ==
  \A u \in Unit \ req :
    \/ Settled[u] = before[u]
    \/ op = "smart" /\ \E v \in req : v \div Sector = u \div Sector

\* A verified write that returned 0 left exactly the caller's data in the
\* chip, whatever the chip ignored and whatever an earlier, failed call left
\* in progress (flash.c, "Verify"); and a `sfc write` that did, its whole
\* input, however read() cut it (cmd/sfc.c, arguments.address += ingress).
WriteVerified ==
  pc = "idle" /\ calls > 0 /\ rc = OK /\ op # "smart" /\ verify =>
    \A u \in req : Settled[u] = want[u]

\* A smart write that returned 0 left the caller's data where the caller asked
\* and every neighbour as it was, unless it read a chip still busy with an
\* earlier call: flash_read() does not check (flash.c, flash_smart_write).
SmartPreserves ==
  pc = "idle" /\ calls > 0 /\ rc = OK /\ op = "smart" /\ ~blind =>
    \A u \in Unit : Settled[u] = IF u \in req THEN want[u] ELSE before[u]

=============================================================================
