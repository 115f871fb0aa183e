----------------------------- MODULE FlashProofs -----------------------------
(***************************************************************************)
(* Proofs about the erases and the writes of the flash library and about   *)
(* the life of the SPI controller, for every size of page, sector and      *)
(* chip, every request and contents, any number of calls and retries, and  *)
(* for every transfer that fails on the way.                               *)
(***************************************************************************)
EXTENDS Flash, TLAPS

-----------------------------------------------------------------------------
(***************************************************************************)
(* The erase.                                                              *)
(***************************************************************************)
\* The loop variables always describe what is left of the request.
LoopOK ==
  pc # "idle" =>
    /\ dst \in Nat /\ size \in Nat /\ dst + size <= TSize
    /\ dst % SE = 0 /\ size % SE = 0
    /\ NoMiddle(flags) => LoopFits(dst, size)
    /\ last \subseteq asked
    /\ \A u \in Unit : dst <= u /\ u < dst + size => u \in last

\* The chunk chosen for this round is an aligned block of what is left.
ChunkOK ==
  pc \notin {"idle", "loop"} =>
    /\ chunk \in {SE, BE32K, BE} /\ chunk <= size /\ dst % chunk = 0
    /\ NoMiddle(flags) => IF size < BE32K THEN chunk = SE ELSE chunk = BE

\* Between the write enable handshake and the end of the wait nothing but the
\* erase of this chunk happens.
HandshakeOK ==
  /\ ~wip => pending = {}
  /\ wel => ~flagDue
  /\ pc = "cmd" => ~wip /\ wel
  /\ pc = "cmd_idle" =>
       \A u \in Unit : dst <= u /\ u < dst + chunk =>
          IF wip THEN u \in pending ELSE chip[u] = "erased"

\* What the loop has passed is erased, and so is everything once it is done.
DoneOK ==
  /\ pc # "idle" => \A u \in last : u < dst \/ u >= dst + size => chip[u] = "erased"
  /\ EraseComplete

EraseInv == TypeOK /\ LoopOK /\ ChunkOK /\ HandshakeOK /\ EraseConfined /\ DoneOK

-----------------------------------------------------------------------------
\* uint64_t arithmetic: a value below the modulus is its own remainder.
LEMMA ModSmall ==
  ASSUME NEW w \in Nat, NEW x \in Nat, x < w
  PROVE  x % w = x
  BY SMT

\* The sum of two values wraps at most once.
LEMMA ModWrap ==
  ASSUME NEW w \in Nat, NEW x \in 0 .. w - 1, NEW y \in 0 .. w - 1, x + y >= w
  PROVE  (x + y) % w = x + y - w
  BY SMT

\* The sanity checks of flash_erase() leave only requests inside the chip that
\* are multiples of the smallest erase sector, wrap-around included.
LEMMA AcceptedRequest ==
  ASSUME NEW r \in Requests, ~BadRequest(r[2], r[3])
  PROVE  /\ r[2] \in Nat /\ r[3] \in Nat
         /\ r[2] + r[3] <= TSize /\ r[3] < Word
         /\ r[2] % SE = 0 /\ r[3] % SE = 0
<1> DEFINE a == r[2]
           s == r[3]
<1>1. a \in 0 .. Word - 1 /\ s \in 0 .. Word - 1
  BY GeometryAssumption
<1>2. ~((a + s) % Word <= a) /\ (a + s) % Word <= TSize
  BY <1>1, GeometryAssumption DEF BadRequest
<1>3. a + s < Word
  <2>1. CASE a + s >= Word
    <3>1. (a + s) % Word = a + s - Word
      BY <1>1, <2>1, ModWrap, GeometryAssumption
    <3>2. QED BY <1>1, <1>2, <3>1, GeometryAssumption
  <2>2. QED BY <1>1, <2>1, GeometryAssumption
<1>4. (a + s) % Word = a + s
  BY <1>1, <1>3, ModSmall, GeometryAssumption
<1>5. a % SE = 0 /\ s % SE = 0
  <2>1. a % MinErase = 0 /\ s % MinErase = 0
    BY DEF BadRequest
  <2>2. QED BY <1>1, <2>1, GeometryAssumption DEF MinErase, SE, BE32K, BE
<1>6. QED BY <1>1, <1>2, <1>4, <1>5, GeometryAssumption

\* fl_get_best_erase() returns an aligned block that fits, which is where the
\* assumption on the flags is needed.
LEMMA BestErase ==
  ASSUME NEW a \in Nat, NEW s \in Nat, s > 0, a % SE = 0, s % SE = 0,
         NoMiddle(flags) => LoopFits(a, s)
  PROVE  LET n == fl_get_best_erase(a, s)
         IN  /\ n \in {SE, BE32K, BE} /\ n <= s /\ a % n = 0
             /\ NoMiddle(flags) => IF s < BE32K THEN n = SE ELSE n = BE
  BY DEF fl_get_best_erase, NoMiddle, LoopFits, SE, BE32K, BE
-----------------------------------------------------------------------------
\* An erase has not begun.
LEMMA InitEraseInv == Init => EraseInv
<1> SUFFICES ASSUME Init PROVE EraseInv
  OBVIOUS
<1>1. chip \in [Unit -> {"data", "erased"}]
  BY DEF Init
<1>5. StatusOK
  BY DEF Init, StatusOK
<1>2. TypeOK
  BY <1>1, <1>5, GeometryAssumption DEF Init, TypeOK, OK, EINVAL, ETIMEDOUT, EIO
<1>3. EraseConfined
  BY DEF Init, EraseConfined
<1>4. QED
  BY <1>2, <1>3 DEF Init, EraseInv, LoopOK, ChunkOK, HandshakeOK, DoneOK, EraseComplete

\* The status bits stay Boolean.
LEMMA NextStatusOK ==
  ASSUME StatusOK, [Next]_vars
  PROVE  StatusOK'
<1>1. ASSUME UNCHANGED flash PROVE StatusOK'
  BY <1>1 DEF flash, StatusOK
<1>2. ASSUME NEW r \in Requests, flags = r[1], flash_erase(r[2], r[3]) PROVE StatusOK'
  BY <1>1, <1>2 DEF flash_erase
<1>3. ASSUME WrenSend PROVE StatusOK'
  <2>1. ASSUME ChipWren PROVE StatusOK'
    BY <2>1 DEF ChipWren, StatusOK
  <2>2. QED BY <1>1, <1>3, <2>1 DEF WrenSend
<1>4. ASSUME EraseCmd PROVE StatusOK'
  <2>1. ASSUME ChipErase(dst, chunk) PROVE StatusOK'
    <3>1. CASE Ready /\ wel
      BY <2>1, <3>1 DEF ChipErase, StatusOK
    <3>2. CASE ~(Ready /\ wel)
      BY <1>1, <2>1, <3>2 DEF ChipErase
    <3>3. QED BY <3>1, <3>2
  <2>2. QED BY <1>1, <1>4, <2>1 DEF EraseCmd
<1>5. ASSUME WaitIdle PROVE StatusOK'
  <2>1. flagDue' \in {flagDue, FALSE}
    BY <1>5 DEF WaitIdle
  <2>2. QED BY <1>5, <2>1 DEF WaitIdle, StatusOK
<1>6. ASSUME ChipDone PROVE StatusOK'
  <2>1. wip' = FALSE /\ wel' = FALSE
    BY <1>6 DEF ChipDone
  <2>2. flagDue' = TRUE \/ flagDue' = FALSE
    <3>1. flagDue' = ("MICRON_BUGS" \in flags)
      BY <1>6 DEF ChipDone
    <3>2. QED BY <3>1
  <2>3. QED BY <2>1, <2>2 DEF StatusOK
<1>7. QED
  BY <1>1, <1>2, <1>3, <1>4, <1>5, <1>6
  DEF Next, Step, EraseLoop, WrenStat, vars

\* The chip stays the one it is.
LEMMA NextFlags ==
  ASSUME [Next]_vars
  PROVE  flags' = flags
BY DEF Next, Step, flash_erase, EraseLoop, WrenSend, WrenStat, EraseCmd, WaitIdle,
       ChipDone, vars, prog

\* One step per action of the program or the chip.
LEMMA NextEraseInv ==
  ASSUME ChunkFits, EraseInv, [Next]_vars
  PROVE  EraseInv'
<1>0. StatusOK'
  BY NextStatusOK DEF EraseInv, TypeOK
<1>f. flags' = flags
  BY NextFlags
<1> USE GeometryAssumption, <1>0, <1>f
<1>1. ASSUME NEW r \in Requests, flags = r[1], flash_erase(r[2], r[3]) PROVE EraseInv'
  <2>1. CASE BadRequest(r[2], r[3])
    BY <1>1, <2>1
    DEF flash_erase, Return, flash, EraseInv, TypeOK, LoopOK, ChunkOK, HandshakeOK,
        DoneOK, EraseConfined, EraseComplete, OK, EINVAL
  <2>2. CASE ~BadRequest(r[2], r[3])
    <3>1. /\ r[2] \in Nat /\ r[3] \in Nat
          /\ r[2] + r[3] <= TSize /\ r[3] < Word
          /\ r[2] % SE = 0 /\ r[3] % SE = 0
      BY <2>2, AcceptedRequest
    <3>2. /\ pc' = "loop" /\ rc' = OK /\ dst' = r[2] /\ size' = r[3]
          /\ calls' = calls + 1 /\ calls < MaxCalls /\ pc = "idle"
          /\ last' = Range(r[2], r[3]) /\ asked' = asked \union Range(r[2], r[3])
          /\ UNCHANGED <<chunk, tries, chip, wip, pending, wel, flagDue>>
      BY <1>1, <2>2 DEF flash_erase, flash
    <3>3. TypeOK'
      BY <3>1, <3>2 DEF EraseInv, TypeOK, Range
    <3>4. LoopOK'
      <4>1. NoMiddle(flags) => LoopFits(r[2], r[3])
        BY <1>1 DEF ChunkFits
      <4>2. QED BY <3>1, <3>2, <4>1 DEF LoopOK, Range
    <3>5. HandshakeOK'
      BY <3>2 DEF EraseInv, HandshakeOK
    <3>6. EraseConfined'
      BY <3>2 DEF EraseInv, EraseConfined
    <3>7. DoneOK'
      BY <3>1, <3>2 DEF DoneOK, EraseComplete, Range, Unit
    <3>8. QED
      BY <3>2, <3>3, <3>4, <3>5, <3>6, <3>7 DEF EraseInv, ChunkOK
  <2>3. QED BY <2>1, <2>2
<1>2. ASSUME EraseLoop PROVE EraseInv'
  <2>1. CASE size = 0
    <3>1. pc = "loop" /\ pc' = "idle" /\ rc' = OK
          /\ UNCHANGED <<dst, size, chunk, tries, calls, asked, last, chip, wip,
                         pending, wel, flagDue>>
      BY <1>2, <2>1 DEF EraseLoop, Return, flash
    <3>2. \A u \in last : chip[u] = "erased"
      BY <2>1, <3>1 DEF EraseInv, DoneOK, LoopOK, TypeOK, Unit
    <3>3. QED
      BY <3>1, <3>2
      DEF EraseInv, TypeOK, LoopOK, ChunkOK, HandshakeOK, DoneOK, EraseConfined,
          EraseComplete
  <2>2. CASE size # 0
    <3>1. pc = "loop" /\ pc' = "wren" /\ tries' = 0
          /\ chunk' = fl_get_best_erase(dst, size)
          /\ UNCHANGED <<rc, dst, size, calls, asked, last, chip, wip, pending,
                         wel, flagDue>>
      BY <1>2, <2>2 DEF EraseLoop, flash
    <3>2. /\ chunk' \in {SE, BE32K, BE} /\ chunk' <= size /\ dst % chunk' = 0
          /\ NoMiddle(flags) => IF size < BE32K THEN chunk' = SE ELSE chunk' = BE
      <4>1. /\ dst \in Nat /\ size \in Nat /\ size > 0
            /\ dst % SE = 0 /\ size % SE = 0
            /\ NoMiddle(flags) => LoopFits(dst, size)
        BY <2>2, <3>1 DEF EraseInv, LoopOK
      <4>2. QED BY ONLY <3>1, <4>1, BestErase
    <3>3. QED
      BY <3>1, <3>2
      DEF EraseInv, TypeOK, LoopOK, ChunkOK, HandshakeOK, DoneOK, EraseConfined,
          EraseComplete
  <2>3. QED BY <2>1, <2>2
<1>3. ASSUME WrenSend PROVE EraseInv'
  <2>1. /\ pc = "wren" /\ UNCHANGED <<dst, size, chunk, calls, asked, last>>
        /\ UNCHANGED <<chip, wip, pending, flagDue>>
    BY <1>3 DEF WrenSend, ChipWren, flash
  <2>2. \/ pc' = "idle" /\ rc' \in {ETIMEDOUT, EIO} /\ tries' = tries
        \/ pc' = "wren_stat" /\ rc' = rc /\ tries' = tries + 1 /\ tries < WrenTries
    BY <1>3 DEF WrenSend, Return
  <2>3. TypeOK'
    BY <2>1, <2>2 DEF EraseInv, TypeOK
  <2>4. wel' => ~flagDue'
    <3>1. CASE wel' = wel
      BY <2>1, <3>1 DEF EraseInv, HandshakeOK
    <3>2. CASE Ready
      BY <2>1, <3>2 DEF Ready
    <3>3. wel' = wel \/ Ready
      BY <1>3 DEF WrenSend, ChipWren, flash
    <3>4. QED BY <3>1, <3>2, <3>3
  <2>5. HandshakeOK'
    <3>1. pc' # "cmd" /\ pc' # "cmd_idle"
      BY <2>2
    <3>2. ~wip' => pending' = {}
      BY <2>1 DEF EraseInv, HandshakeOK
    <3>3. QED BY <2>4, <3>1, <3>2 DEF HandshakeOK
  <2>6. EraseConfined'
    BY <2>1 DEF EraseInv, EraseConfined
  <2>7. QED
    BY <2>1, <2>2, <2>3, <2>5, <2>6
    DEF EraseInv, LoopOK, ChunkOK, DoneOK, EraseComplete, OK, EIO, ETIMEDOUT
<1>4. ASSUME WrenStat PROVE EraseInv'
  BY <1>4
  DEF WrenStat, Return, flash, EraseInv, TypeOK, LoopOK, ChunkOK, HandshakeOK,
      DoneOK, EraseConfined, EraseComplete, OK, EIO
<1>5. ASSUME EraseCmd PROVE EraseInv'
  <2>1. /\ pc = "cmd" /\ ~wip /\ wel /\ ~flagDue
        /\ dst \in Nat /\ size \in Nat /\ chunk \in {SE, BE32K, BE}
        /\ chunk <= size /\ dst % chunk = 0 /\ dst + size <= TSize
    BY <1>5 DEF EraseCmd, EraseInv, HandshakeOK, LoopOK, ChunkOK
  <2>2. Range(dst - (dst % chunk), chunk) = Range(dst, chunk)
    BY <2>1 DEF SE, BE32K, BE
  <2>3. Range(dst, chunk) \subseteq asked
    BY <2>1 DEF EraseInv, LoopOK, Range, Unit, SE, BE32K, BE
  <2>4. CASE Return(EIO) /\ UNCHANGED flash
    BY <1>5, <2>1, <2>4
    DEF EraseCmd, Return, flash, EraseInv, TypeOK, LoopOK, ChunkOK, HandshakeOK,
        DoneOK, EraseConfined, EraseComplete, OK, EIO
  <2>5. CASE ChipErase(dst, chunk)
    <3>1. wip' = TRUE /\ pending' = Range(dst, chunk)
          /\ UNCHANGED <<chip, wel, flagDue>>
      BY <2>1, <2>2, <2>5 DEF ChipErase, Ready
    <3>2. (pc' = "idle" /\ rc' = EIO) \/ (pc' = "cmd_idle" /\ rc' = rc)
      BY <1>5 DEF EraseCmd, Return
    <3>3. UNCHANGED <<dst, size, chunk, tries, calls, asked, last>>
      BY <1>5 DEF EraseCmd
    <3>4. TypeOK'
      BY <3>1, <3>2, <3>3 DEF EraseInv, TypeOK, Range, EIO
    <3>5. HandshakeOK'
      BY <2>1, <3>1, <3>2, <3>3 DEF EraseInv, HandshakeOK, Range
    <3>6. EraseConfined'
      BY <2>3, <3>1, <3>3 DEF EraseInv, EraseConfined
    <3>7. QED
      BY <2>1, <3>1, <3>2, <3>3, <3>4, <3>5, <3>6
      DEF EraseInv, LoopOK, ChunkOK, DoneOK, EraseComplete, OK, EIO
  <2>6. QED BY <1>5, <2>4, <2>5 DEF EraseCmd
<1>6. ASSUME WaitIdle PROVE EraseInv'
  <2>1. CASE Return(EIO) /\ UNCHANGED <<dst, size, flagDue>>
    BY <1>6, <2>1
    DEF WaitIdle, Return, EraseInv, TypeOK, LoopOK, ChunkOK, HandshakeOK, DoneOK,
        EraseConfined, EraseComplete, OK, EIO
  <2>2. CASE ~wip /\ pc = "wren_idle" /\ pc' = "wren" /\ UNCHANGED <<rc, dst, size>>
             /\ flagDue' \in {flagDue, FALSE}
    <3>1. UNCHANGED <<chunk, tries, calls, asked, last, chip, wip, pending, wel>>
      BY <1>6 DEF WaitIdle
    <3>2. HandshakeOK'
      <4>1. wel' => ~flagDue'
        BY <2>2, <3>1 DEF EraseInv, HandshakeOK
      <4>2. ~wip' => pending' = {}
        BY <3>1 DEF EraseInv, HandshakeOK
      <4>3. QED BY <2>2, <4>1, <4>2 DEF HandshakeOK
    <3>3. TypeOK'
      BY <2>2, <3>1 DEF EraseInv, TypeOK
    <3>4. EraseConfined'
      BY <3>1 DEF EraseInv, EraseConfined
    <3>5. QED
      BY <2>2, <3>1, <3>2, <3>3, <3>4
      DEF EraseInv, LoopOK, ChunkOK, DoneOK, EraseComplete
  <2>3. CASE ~wip /\ pc = "cmd_idle" /\ pc' = "loop" /\ UNCHANGED rc
             /\ dst' = dst + chunk /\ size' = (size - chunk) % Word
             /\ flagDue' \in {flagDue, FALSE}
    <3>1. /\ dst \in Nat /\ size \in 0 .. Word /\ chunk \in {SE, BE32K, BE}
          /\ chunk <= size /\ dst % chunk = 0 /\ dst + size <= TSize
          /\ dst % SE = 0 /\ size % SE = 0
      BY <2>3 DEF EraseInv, TypeOK, LoopOK, ChunkOK
    <3>2. size' = size - chunk
      <4>1. size - chunk \in Nat /\ size - chunk < Word
        BY <3>1 DEF SE, BE32K, BE
      <4>2. QED BY <2>3, <4>1, ModSmall
    <3>3. UNCHANGED <<chunk, tries, calls, asked, last, chip, wip, pending, wel>>
      BY <1>6 DEF WaitIdle
    <3>4. TypeOK'
      BY <2>3, <3>1, <3>2, <3>3 DEF EraseInv, TypeOK, SE, BE32K, BE
    <3>5. LoopOK'
      <4>1. dst' % SE = 0 /\ size' % SE = 0
        BY <2>3, <3>1, <3>2 DEF SE, BE32K, BE
      <4>2. NoMiddle(flags) => LoopFits(dst', size')
        BY <2>3, <3>1, <3>2 DEF EraseInv, LoopOK, ChunkOK, LoopFits, SE, BE32K, BE
      <4>3. \A u \in Unit : dst' <= u /\ u < dst' + size' => u \in last
        BY <2>3, <3>1, <3>2 DEF EraseInv, LoopOK, Unit, SE, BE32K, BE
      <4>4. QED BY <2>3, <3>1, <3>2, <3>3, <4>1, <4>2, <4>3
                DEF EraseInv, LoopOK, SE, BE32K, BE
    <3>6. DoneOK'
      <4>1. \A u \in Unit : dst <= u /\ u < dst + chunk => chip[u] = "erased"
        BY <2>3 DEF EraseInv, HandshakeOK
      <4>2. ASSUME NEW u \in last, u < dst' \/ u >= dst' + size'
            PROVE  chip[u] = "erased"
        BY <2>3, <3>1, <3>2, <4>1, <4>2 DEF EraseInv, DoneOK, TypeOK, Unit, SE, BE32K, BE
      <4>3. QED BY <2>3, <3>3, <4>2 DEF EraseInv, DoneOK, EraseComplete
    <3>7. HandshakeOK'
      <4>1. wel' => ~flagDue'
        BY <2>3, <3>3 DEF EraseInv, HandshakeOK
      <4>2. ~wip' => pending' = {}
        BY <3>3 DEF EraseInv, HandshakeOK
      <4>3. QED BY <2>3, <4>1, <4>2 DEF HandshakeOK
    <3>8. EraseConfined'
      BY <3>3 DEF EraseInv, EraseConfined
    <3>9. QED
      BY <2>3, <3>4, <3>5, <3>6, <3>7, <3>8 DEF EraseInv, ChunkOK
  <2>4. QED BY <1>6, <2>1, <2>2, <2>3 DEF WaitIdle
<1>7. ASSUME ChipDone PROVE EraseInv'
  <2>1. /\ chip' = [u \in Unit |-> IF u \in pending THEN "erased" ELSE chip[u]]
        /\ wip /\ wip' = FALSE /\ pending' = {} /\ wel' = FALSE
        /\ flagDue' = ("MICRON_BUGS" \in flags)
        /\ UNCHANGED <<pc, dst, size, chunk, tries, rc, calls, asked, last>>
    BY <1>7 DEF ChipDone, prog
  <2>2. \A u \in Unit : chip'[u] = "erased" <=> (chip[u] = "erased" \/ u \in pending)
    BY <2>1
  <2>3. TypeOK'
    <3>1. chip' \in [Unit -> {"data", "erased"}]
      BY <2>1 DEF EraseInv, TypeOK
    <3>2. QED BY <2>1, <3>1 DEF EraseInv, TypeOK
  <2>4. HandshakeOK'
    BY <2>1, <2>2 DEF EraseInv, HandshakeOK
  <2>5. EraseConfined'
    BY <2>1, <2>2 DEF EraseInv, EraseConfined
  <2>6. DoneOK'
    BY <2>1, <2>2 DEF EraseInv, TypeOK, DoneOK, EraseComplete
  <2>7. QED
    BY <2>1, <2>3, <2>4, <2>5, <2>6 DEF EraseInv, LoopOK, ChunkOK
<1>8. CASE UNCHANGED vars
  BY <1>8
  DEF vars, prog, flash, EraseInv, TypeOK, LoopOK, ChunkOK, HandshakeOK, DoneOK,
      EraseConfined, EraseComplete
<1>9. QED BY <1>1, <1>2, <1>3, <1>4, <1>5, <1>6, <1>7, <1>8 DEF Next, Step

\* On every chip and for every sequence of requests that satisfies ChunkFits,
\* flash_erase() destroys nothing outside the requests it accepted and returns
\* 0 only when the whole request is erased, whatever commands the bridge loses
\* and whichever write-enables the chip ignores.
THEOREM EraseCorrect ==
  ASSUME ChunkFits
  PROVE  FlashSpec => [](EraseConfined /\ EraseComplete)
<1>1. FlashInit => EraseInv
  BY InitEraseInv DEF FlashInit
<1>2. [FlashNext]_flashVars => [Next]_vars
  BY DEF FlashNext, EraseCall, EraseStep, EraseDone, Next, flashVars
<1>3. EraseInv /\ [FlashNext]_flashVars => EraseInv'
  BY <1>2, NextEraseInv
<1>4. EraseInv => EraseConfined /\ EraseComplete
  BY DEF EraseInv, DoneOK
<1>5. QED BY <1>1, <1>3, <1>4, PTL DEF FlashSpec

\* c->min_erase_mask + 1, as flash_identify() sets it for a chip with flags f.
SectorOf(f) ==
  IF "ERASE_4K" \in f THEN SE ELSE IF "ERASE_32K" \in f THEN BE32K ELSE BE

\* The erases of flash_smart_write(): one aligned sector, on a chip that has
\* an erase command of its own, as every chip of flash_info has.
SectorRequests ==
  \A r \in Requests :
    /\ r[1] \intersect {"ERASE_4K", "ERASE_32K", "ERASE_64K"} # {}
    /\ r[3] = SectorOf(r[1]) /\ r[2] % SectorOf(r[1]) = 0

\* The contents of the chip when what it is doing now has ended, and those
\* contents with the range of the current call erased.
EraseSettled == [u \in Unit |-> IF wip /\ u \in pending THEN "erased" ELSE chip[u]]
WholeErased == [u \in Unit |-> IF u \in last THEN "erased" ELSE EraseSettled[u]]

\* Until the loop has passed it, the sector of the call is what is left of the
\* request, and one command erases it; after that the chip is idle.
SectorInv ==
  /\ pc # "idle" /\ size # 0 =>
       size = MinErase /\ dst % MinErase = 0 /\ last = Range(dst, size)
  /\ pc \notin {"idle", "loop"} => size # 0 /\ chunk = size
  /\ pc = "loop" /\ size = 0 => ~wip
  /\ pc = "idle" /\ calls > 0 /\ rc = OK => ~wip

\* What an erase of a sector does to the chip in one step of any actor: it
\* leaves the contents as they are or erases the whole sector, and that only
\* in a call, on an idle chip.
WholeOrNothing ==
  \/ EraseSettled' = EraseSettled
  \/ pc # "idle" /\ ~wip /\ EraseSettled' = WholeErased

-----------------------------------------------------------------------------
\* The sectors of a chip are a fit for fl_get_best_erase() ...
LEMMA SectorsFit ==
  ASSUME SectorRequests
  PROVE  ChunkFits
<1> SUFFICES ASSUME NEW r \in Requests, NoMiddle(r[1]) PROVE LoopFits(r[2], r[3])
  BY DEF ChunkFits
<1>1. r[3] = SectorOf(r[1]) /\ r[2] % SectorOf(r[1]) = 0
  BY DEF SectorRequests
<1>2. SectorOf(r[1]) = SE \/ SectorOf(r[1]) = BE
  BY DEF SectorOf, NoMiddle
<1>3. QED BY <1>1, <1>2 DEF LoopFits, SE, BE32K, BE

\* ... which chooses the command for exactly that sector.
LEMMA BestSector ==
  ASSUME NEW a \in Nat, a % MinErase = 0,
         flags \intersect {"ERASE_4K", "ERASE_32K", "ERASE_64K"} # {}
  PROVE  fl_get_best_erase(a, MinErase) = MinErase
<1>1. CASE "ERASE_4K" \in flags
  BY <1>1 DEF fl_get_best_erase, MinErase, SE, BE32K, BE
<1>2. CASE "ERASE_4K" \notin flags /\ "ERASE_32K" \in flags
  BY <1>2 DEF fl_get_best_erase, MinErase, SE, BE32K, BE
<1>3. CASE "ERASE_4K" \notin flags /\ "ERASE_32K" \notin flags
  <2>1. "ERASE_64K" \in flags
    BY <1>3
  <2>2. MinErase = BE /\ a % BE = 0 /\ a % BE32K = 0
    BY <1>3 DEF MinErase, SE, BE32K, BE
  <2>3. QED BY <1>3, <2>1, <2>2 DEF fl_get_best_erase, BE32K, BE
<1>4. QED BY <1>1, <1>2, <1>3

\* The sector stays the one of the chip, and is never empty.
LEMMA SectorOfChip ==
  MinErase = SectorOf(flags) /\ MinErase \in {SE, BE32K, BE} /\ MinErase # 0
BY DEF MinErase, SectorOf, SE, BE32K, BE

\* One step per action of the program or the chip.
LEMMA NextSectorInv ==
  ASSUME SectorRequests, EraseInv, SectorInv, [Next]_vars
  PROVE  SectorInv'
<1>f. flags' = flags /\ MinErase' = MinErase
  BY NextFlags DEF MinErase
<1>m. MinErase \in {SE, BE32K, BE} /\ MinErase # 0
  BY SectorOfChip
<1>r. OK # EINVAL /\ OK # EIO /\ OK # ETIMEDOUT
  BY DEF OK, EINVAL, EIO, ETIMEDOUT
<1>1. ASSUME NEW r \in Requests, flags = r[1], flash_erase(r[2], r[3]) PROVE SectorInv'
  <2>1. r[3] = MinErase /\ r[2] % MinErase = 0
    BY <1>1, SectorOfChip DEF SectorRequests
  <2>2. CASE BadRequest(r[2], r[3])
    BY <1>1, <1>r, <2>2 DEF flash_erase, Return, SectorInv
  <2>3. CASE ~BadRequest(r[2], r[3])
    <3>1. pc' = "loop" /\ dst' = r[2] /\ size' = r[3] /\ last' = Range(r[2], r[3])
      BY <1>1, <2>3 DEF flash_erase
    <3>2. last' = Range(dst', size') /\ size' # 0
      BY <1>m, <2>1, <3>1
    <3>3. QED BY <1>f, <2>1, <3>1, <3>2 DEF SectorInv, Range
  <2>4. QED BY <2>2, <2>3
<1>2. ASSUME EraseLoop PROVE SectorInv'
  <2>1. CASE size = 0
    BY <1>2, <2>1 DEF EraseLoop, Return, flash, SectorInv
  <2>2. CASE size # 0
    <3>1. size = MinErase /\ dst % MinErase = 0 /\ dst \in Nat
      BY <1>2, <2>2 DEF EraseLoop, SectorInv, EraseInv, TypeOK
    <3>2. flags \intersect {"ERASE_4K", "ERASE_32K", "ERASE_64K"} # {}
      BY DEF SectorRequests, EraseInv, TypeOK
    <3>3. fl_get_best_erase(dst, size) = size
      BY <3>1, <3>2, BestSector
    <3>4. QED BY <1>2, <1>f, <2>2, <3>3 DEF EraseLoop, SectorInv, Range, flash
  <2>3. QED BY <2>1, <2>2
<1>3. ASSUME WrenSend PROVE SectorInv'
  BY <1>3, <1>f, <1>r DEF WrenSend, ChipWren, Return, SectorInv, Range, flash
<1>4. ASSUME WrenStat PROVE SectorInv'
  BY <1>4, <1>f, <1>r DEF WrenStat, Return, SectorInv, Range, flash
<1>5. ASSUME EraseCmd PROVE SectorInv'
  BY <1>5, <1>f, <1>r DEF EraseCmd, Return, SectorInv, Range
<1>6. ASSUME WaitIdle PROVE SectorInv'
  <2>1. CASE Return(EIO) /\ UNCHANGED <<dst, size, flagDue>>
    BY <1>6, <1>f, <1>r, <2>1 DEF WaitIdle, Return, SectorInv, Range
  <2>2. CASE ~wip /\ pc = "wren_idle" /\ pc' = "wren" /\ UNCHANGED <<rc, dst, size>>
    BY <1>6, <1>f, <2>2 DEF WaitIdle, SectorInv, Range
  <2>3. CASE ~wip /\ pc = "cmd_idle" /\ pc' = "loop" /\ size' = (size - chunk) % Word
    <3>1. size = chunk /\ size = MinErase
      BY <2>3 DEF SectorInv
    <3>2. size' = 0
      BY <1>m, <2>3, <3>1, GeometryAssumption DEF SE, BE32K, BE
    <3>3. QED BY <1>6, <2>3, <3>2 DEF WaitIdle, SectorInv
  <2>4. QED BY <1>6, <2>1, <2>2, <2>3 DEF WaitIdle
<1>7. ASSUME ChipDone PROVE SectorInv'
  BY <1>7, <1>f DEF ChipDone, prog, SectorInv, Range
<1>8. CASE UNCHANGED vars
  BY <1>8, <1>f DEF vars, prog, flash, SectorInv, Range
<1>9. QED BY <1>1, <1>2, <1>3, <1>4, <1>5, <1>6, <1>7, <1>8 DEF Next, Step

\* Only the erase command changes what the chip will hold, and it erases the
\* whole sector.
LEMMA NextWholeOrNothing ==
  ASSUME EraseInv, SectorInv, [Next]_vars
  PROVE  WholeOrNothing
<1>1. ASSUME UNCHANGED <<chip, wip, pending>> PROVE WholeOrNothing
  BY <1>1 DEF WholeOrNothing, EraseSettled
<1>2. ASSUME EraseCmd PROVE WholeOrNothing
  <2>1. CASE UNCHANGED flash
    BY <1>1, <2>1 DEF flash
  <2>2. CASE ChipErase(dst, chunk)
    <3>1. /\ pc = "cmd" /\ ~wip /\ wel /\ ~flagDue
          /\ last = Range(dst, size) /\ chunk = size
          /\ dst \in Nat /\ chunk \in {SE, BE32K, BE} /\ dst % chunk = 0
      BY <1>2 DEF EraseCmd, EraseInv, TypeOK, HandshakeOK, ChunkOK, SectorInv
    <3>2. dst - (dst % chunk) = dst
      BY <3>1 DEF SE, BE32K, BE
    <3>3. wip' = TRUE /\ pending' = last /\ chip' = chip
      BY <2>2, <3>1, <3>2 DEF ChipErase, Ready
    <3>4. EraseSettled' = [u \in Unit |-> IF u \in last THEN "erased" ELSE chip[u]]
      BY <3>3 DEF EraseSettled
    <3>5. WholeErased = [u \in Unit |-> IF u \in last THEN "erased" ELSE chip[u]]
      BY <3>1 DEF WholeErased, EraseSettled
    <3>6. QED BY <3>1, <3>4, <3>5 DEF WholeOrNothing
  <2>3. QED BY <1>2, <2>1, <2>2 DEF EraseCmd
<1>3. ASSUME ChipDone PROVE WholeOrNothing
  <2>1. /\ wip /\ wip' = FALSE
        /\ chip' = [u \in Unit |-> IF u \in pending THEN "erased" ELSE chip[u]]
    BY <1>3 DEF ChipDone
  <2>2. EraseSettled' = [u \in Unit |-> chip'[u]]
    BY <2>1 DEF EraseSettled
  <2>3. QED BY <2>1, <2>2 DEF WholeOrNothing, EraseSettled
<1>4. QED
  BY <1>1, <1>2, <1>3
  DEF Next, Step, flash_erase, EraseLoop, WrenSend, WrenStat, WaitIdle, ChipWren,
      vars, flash

\* flash_smart_write() may take flash_erase() of a sector for one step, as
\* FlashWrite does: at every moment, and so also when the call fails half-way
\* and when the chip is busy still, the chip holds or will hold either what it
\* held or that with the whole sector erased; and a call that returned 0 left
\* it idle with the sector erased.
THEOREM EraseIsAtomic ==
  ASSUME SectorRequests
  PROVE  FlashSpec =>
           /\ [][WholeOrNothing]_flashVars
           /\ [](pc = "idle" /\ calls > 0 /\ rc = OK =>
                   ~wip /\ EraseSettled = WholeErased)
<1> DEFINE Inv == EraseInv /\ SectorInv
           Finished == pc = "idle" /\ calls > 0 /\ rc = OK =>
                         ~wip /\ EraseSettled = WholeErased
<1>1. FlashInit => Inv
  <2>1. Init => SectorInv
    BY DEF Init, SectorInv
  <2>2. QED BY <2>1, InitEraseInv DEF FlashInit
<1>2. [FlashNext]_flashVars => [Next]_vars
  BY DEF FlashNext, EraseCall, EraseStep, EraseDone, Next, flashVars
<1>3. Inv /\ [FlashNext]_flashVars => Inv'
  BY <1>2, SectorsFit, NextEraseInv, NextSectorInv
<1>4. Inv /\ [FlashNext]_flashVars => WholeOrNothing
  BY <1>2, NextWholeOrNothing
<1>5. Inv => Finished
  <2> SUFFICES ASSUME Inv, pc = "idle", calls > 0, rc = OK
               PROVE  ~wip /\ EraseSettled = WholeErased
    OBVIOUS
  <2>1. ~wip /\ \A u \in last : chip[u] = "erased"
    BY DEF SectorInv, EraseInv, DoneOK, EraseComplete
  <2>2. EraseSettled = [u \in Unit |-> chip[u]]
    BY <2>1 DEF EraseSettled
  <2>3. WholeErased = [u \in Unit |-> chip[u]]
    BY <2>1, <2>2 DEF WholeErased
  <2>4. QED BY <2>1, <2>2, <2>3
<1>6. QED BY <1>1, <1>3, <1>4, <1>5, PTL DEF FlashSpec

\* How many steps of the program this round of the erase loop has still to
\* take at most: two and three of each round of fl_wren().
Rank ==
  LET rounds == 3 * (WrenTries - tries)
  IN  CASE pc = "idle" -> 0
        [] pc = "cmd_idle" -> 1
        [] pc = "cmd" -> 2
        [] pc = "wren" -> rounds + 3
        [] pc = "wren_idle" -> rounds + 4
        [] pc = "wren_stat" -> rounds + 5
        [] pc = "loop" -> 3 * WrenTries + 4

\* A step that leaves less of the request, or less of this round.
Advances == size' < size \/ (size' = size /\ Rank' < Rank)

\* The rank is a number of steps.
LEMMA RankType ==
  ASSUME TypeOK
  PROVE  size \in Nat /\ Rank \in Nat
BY GeometryAssumption DEF TypeOK, Rank

\* One step per action of the program.
LEMMA StepAdvances ==
  ASSUME EraseInv, Step
  PROVE  Advances
<1> USE GeometryAssumption
<1>1. tries \in 0 .. WrenTries /\ size \in 0 .. Word
  BY DEF EraseInv, TypeOK
<1>2. CASE EraseLoop
  BY <1>1, <1>2 DEF EraseLoop, Return, Advances, Rank
<1>3. CASE WrenSend
  <2>1. pc = "wren" /\ size' = size
    BY <1>3 DEF WrenSend
  <2>2. \/ pc' = "idle"
        \/ pc' = "wren_stat" /\ tries' = tries + 1
    BY <1>3 DEF WrenSend, Return
  <2>3. QED BY <1>1, <2>1, <2>2 DEF Advances, Rank
<1>4. CASE WrenStat
  <2>1. pc = "wren_stat" /\ size' = size /\ tries' = tries
    BY <1>4 DEF WrenStat
  <2>2. pc' \in {"idle", "wren_idle", "cmd", "wren"}
    BY <1>4 DEF WrenStat, Return
  <2>3. QED BY <1>1, <2>1, <2>2 DEF Advances, Rank
<1>5. CASE EraseCmd
  BY <1>1, <1>5 DEF EraseCmd, Return, Advances, Rank
<1>6. CASE WaitIdle
  <2>1. CASE pc' = "idle" /\ size' = size
    BY <1>1, <1>6, <2>1 DEF WaitIdle, Advances, Rank
  <2>2. CASE pc = "wren_idle" /\ pc' = "wren" /\ size' = size
    BY <1>1, <1>6, <2>2 DEF WaitIdle, Advances, Rank
  <2>3. CASE pc = "cmd_idle" /\ size' = (size - chunk) % Word
    <3>1. chunk \in {SE, BE32K, BE} /\ chunk <= size
      BY <2>3 DEF EraseInv, ChunkOK
    <3>2. size - chunk \in Nat /\ size - chunk < Word /\ size - chunk < size
      BY <1>1, <3>1 DEF SE, BE32K, BE
    <3>3. size' = size - chunk
      BY <2>3, <3>2, ModSmall
    <3>4. QED BY <3>2, <3>3 DEF Advances
  <2>4. QED BY <1>6, <2>1, <2>2, <2>3 DEF WaitIdle, Return
<1>7. QED BY <1>2, <1>3, <1>4, <1>5, <1>6 DEF Step

\* flash_erase() makes no step in vain: each leaves less of the request to
\* erase, or as much of it and fewer steps of the round, whatever the chip
\* ignores and however often the handshake is repeated; and the chip, when it
\* ends an erase, gives none back. Both are natural numbers, so no loop of
\* fl_wren() or flash_erase() turns for ever.
THEOREM EraseAdvances ==
  ASSUME ChunkFits
  PROVE  FlashSpec =>
           /\ [](size \in Nat /\ Rank \in Nat)
           /\ [][/\ EraseStep => Advances
                 /\ EraseDone => UNCHANGED <<size, Rank>>]_flashVars
<1>1. FlashInit => EraseInv
  BY InitEraseInv DEF FlashInit
<1>2. [FlashNext]_flashVars => [Next]_vars
  BY DEF FlashNext, EraseCall, EraseStep, EraseDone, Next, flashVars
<1>3. EraseInv /\ [FlashNext]_flashVars => EraseInv'
  BY <1>2, NextEraseInv
<1>4. EraseInv => size \in Nat /\ Rank \in Nat
  BY RankType DEF EraseInv
<1>5. EraseInv => (EraseStep => Advances)
  BY StepAdvances DEF EraseStep
<1>6. EraseDone => UNCHANGED <<size, Rank>>
  BY DEF EraseDone, ChipDone, prog, Rank
<1>7. QED BY <1>1, <1>3, <1>4, <1>5, <1>6, PTL DEF FlashSpec

-----------------------------------------------------------------------------
(***************************************************************************)
(* The writes.                                                             *)
(***************************************************************************)
Writing == {"page", "program", "wait", "verify"}
SmartLabels == {"sm_loop", "sm_erase", "sm_next"}

WriteTypeOK ==
  /\ wrPc \in Writing \union SmartLabels \union {"idle", "ingress"}
  /\ op \in {"write", "smart", "sfc"}
  /\ wrPc \in SmartLabels => op = "smart"
  /\ wrPc = "ingress" => op = "sfc"
  /\ wrWip \in BOOLEAN /\ verify \in BOOLEAN /\ blind \in BOOLEAN
  /\ wrChip \in [W!Unit -> W!Bit] /\ pend \in [W!Unit -> W!Bit]
  /\ src \in [W!Unit -> W!Bit] /\ buf \in [W!Unit -> W!Bit]
  /\ want \in [W!Unit -> W!Bit] /\ before \in [W!Unit -> W!Bit]
  /\ req \subseteq W!Unit

\* What a call may change.
Region(u) ==
  u \in req \/ (op = "smart" /\ \E v \in req : v \div Sector = u \div Sector)

\* The range that is being written or verified, and the rest of it to program.
\* A page is only programmed, and the range only verified, on an idle chip.
InRange(u) == wrDst <= u /\ u < wrDst + wrSize

RangeOK ==
  wrPc \in Writing =>
    /\ wrDst \in Nat /\ wrSize \in Nat /\ wrDst + wrSize <= PSize
    /\ \A u \in W!Unit : InRange(u) => Region(u)
    /\ op # "write" => verify
    /\ wrPc # "verify" =>
         d \in Nat /\ todo \in Nat /\ wrDst <= d /\ d + todo = wrDst + wrSize
    /\ wrPc \in {"program", "wait"} => todo > 0
    /\ wrPc \in {"program", "verify"} \/ (wrPc = "page" /\ todo = 0) => ~wrWip

\* A smart write has its request, from its sector on, before it.
SmartOK ==
  op = "smart" /\ wrPc # "idle" =>
    /\ sdst \in Nat /\ ssize \in Nat /\ sdst + ssize = send /\ send <= PSize
    /\ \A u \in W!Unit : sdst <= u /\ u < send => u \in req
    /\ \A u \in req : u < send
    /\ wrPc # "sm_loop" => sdst < send

\* `sfc write` has the rest of its input before it, behind the piece in hand.
SfcOK ==
  op = "sfc" /\ wrPc # "idle" =>
    /\ addr \in 0 .. PWord - 1 /\ left \in 0 .. PWord - 1
    /\ \A u \in W!Unit : addr <= u /\ u < addr + left => u \in req
    /\ \A u \in req : u < addr + left
    /\ wrPc \in Writing => addr = wrDst + wrSize

\* What a call that has got this far has made, or is about to make, of the
\* chip.
Reached ==
  CASE op = "write" -> PSize
    [] op = "smart" -> IF wrPc \in {"sm_loop", "sm_erase"} THEN sdst ELSE sdst + W!SmartChunk
    [] op = "sfc" -> addr
Aim(u) == IF u \in req /\ u < Reached THEN want[u] ELSE before[u]

AimOK ==
  (op = "smart" => ~blind) =>
    /\ wrPc \in Writing =>
         \A u \in W!Unit : IF InRange(u) THEN src[u] = Aim(u) ELSE W!Settled[u] = Aim(u)
    /\ wrPc \in SmartLabels \union {"ingress"} => \A u \in W!Unit : W!Settled[u] = Aim(u)
    /\ wrPc = "sm_erase" => ~wrWip /\ buf = wrChip
    /\ wrPc = "idle" /\ wrCalls > 0 /\ wrRc = W!OK /\ (op = "write" => verify) =>
         \A u \in W!Unit : W!Settled[u] = IF u \in req THEN want[u] ELSE before[u]

Confined == \A u \in W!Unit : Region(u) \/ W!Settled[u] = before[u]

WriteInv == WriteTypeOK /\ RangeOK /\ SmartOK /\ SfcOK /\ AimOK /\ Confined

-----------------------------------------------------------------------------
(***************************************************************************)
(* Sizes, requests, pages and sectors.                                     *)
(***************************************************************************)
\* The chip is made of whole sectors and pages, and is smaller than a word.
LEMMA Sizes ==
  /\ Page \in Nat \ {0} /\ Sector \in Nat \ {0} /\ PSize \in Nat \ {0}
  /\ PWord \in Nat \ {0} /\ Window \in Nat \ {0} /\ PSize < PWord /\ MaxWrites \in Nat
  /\ Writes \subseteq (0 .. PWord - 1) \X (0 .. PWord - 1)
  /\ Contents \subseteq [W!Unit -> W!Bit]
BY FlashAssumption DEF W!WriteAssumption

\* What a division leaves is unique.
LEMMA Quotient ==
  ASSUME NEW w \in Nat \ {0}, NEW q \in Int, NEW r \in Int, 0 <= r, r < w
  PROVE  (w * q + r) % w = r /\ (w * q + r) \div w = q
<1> DEFINE x == w * q + r  p == x \div w  s == x % w  k == q - p
<1>1. x \in Int /\ p \in Int /\ s \in 0 .. w - 1 /\ x = w * p + s
  BY SMT
<1>2. k \in Int /\ w * k = s - r /\ k = q - p
  BY <1>1, SMT
<1> HIDE DEF p, s, k
<1>3. k >= 1 => w * k >= w
  BY <1>2, SMT
<1>4. k <= -1 => w * k <= -w
  BY <1>2, SMT
<1>5. k = 0
  BY <1>1, <1>2, <1>3, <1>4, SMT
<1>6. s = r /\ p = q
  BY <1>1, <1>2, <1>5, SMT
<1>7. QED
  BY <1>6 DEF p, s

\* A sector is no larger than the chip.
LEMMA SectorFits == Sector \in 1 .. PSize
<1>1. PSize % Sector = 0
  BY FlashAssumption DEF W!WriteAssumption
<1>2. PSize < Sector => (Sector * 0 + PSize) % Sector = PSize
  BY Quotient, Sizes
<1>3. QED
  BY <1>1, <1>2, Sizes

\* An address that is in the same page as one before it is as much further on
\* in it.
LEMMA SamePart ==
  ASSUME NEW w \in Nat \ {0}, NEW x \in Nat, NEW u \in Nat,
         x - (x % w) <= u, u < x - (x % w) + w
  PROVE  u % w = u - (x - (x % w)) /\ u \div w = x \div w
<1> DEFINE q == x \div w  m == x % w
<1>1. q \in Int /\ m \in 0 .. w - 1 /\ x = w * q + m
  BY SMT
<1> HIDE DEF q, m
<1>2. PICK r \in Int : r = u - (x - m)
  BY <1>1
<1>3. 0 <= r /\ r < w /\ u = w * q + r
  <2>1. x - m <= u /\ u < x - m + w
    BY DEF m
  <2>2. PICK y \in Int : y = w * q
    BY <1>1
  <2>3. x = y + m /\ r = u - y
    BY <1>1, <1>2, <2>2
  <2>4. QED
    BY <1>1, <2>1, <2>2, <2>3
<1>4. u % w = r /\ u \div w = q
  BY <1>1, <1>3, Quotient
<1>5. QED
  BY <1>2, <1>4 DEF q, m

\* A request that is not rejected does not wrap and fits the chip.
LEMMA Fits ==
  ASSUME NEW a \in 0 .. PWord - 1, NEW s \in 0 .. PWord - 1,
         ~((a + s) % PWord <= a \/ s = 0 \/ (a + s) % PWord > PSize)
  PROVE  (a + s) % PWord = a + s /\ s > 0 /\ a + s <= PSize
<1>1. CASE a + s < PWord
  <2>1. (a + s) % PWord = a + s
    BY <1>1, Sizes
  <2>2. QED
    BY <2>1, Sizes
<1>2. CASE a + s >= PWord
  <2>1. PICK r \in Int : r = a + s - PWord
    BY Sizes
  <2>2. 0 <= r /\ r < PWord /\ a + s = PWord * 1 + r /\ r <= a
    BY <1>2, <2>1, Sizes
  <2>3. (PWord * 1 + r) % PWord = r
    BY <2>2, Quotient, Sizes
  <2>4. QED
    BY <2>2, <2>3, Sizes
<1>3. QED
  BY <1>1, <1>2, Sizes

\* Programming a chunk, or the first part of it, changes nothing outside what
\* is left of the range: the address does not wrap, since the chunk ends with
\* its page (flash.c, "Handle misaligned start").
LEMMA ProgramsRange ==
  ASSUME WriteTypeOK, d \in Nat, todo \in Nat, NEW n \in 1 .. W!PageChunk
  PROVE  /\ W!Programmed(d, n) \in [W!Unit -> W!Bit]
         /\ \A u \in W!Unit : ~(d <= u /\ u < d + todo) => W!Programmed(d, n)[u] = wrChip[u]
<1> DEFINE p == d - (d % Page)
<1>1. d % Page \in 0 .. Page - 1 /\ p \in Int
  BY Sizes
<1>2. n \in Nat /\ n <= todo /\ n <= Page - (d % Page)
  BY <1>1, Sizes DEF W!PageChunk, W!Least
<1>3. \A i \in 0 .. n - 1 : p + ((d + i) % Page) = d + i
  <2>1. TAKE i \in 0 .. n - 1
  <2>2. PICK u \in Nat : u = d + i
    BY <1>2, <2>1
  <2>3. p <= u /\ u < p + Page
    BY <1>1, <1>2, <2>1, <2>2, Sizes
  <2>4. u % Page = u - p
    BY <2>3, SamePart, Sizes
  <2>5. QED
    BY <1>1, <2>2, <2>4
<1>4. W!Programmed(d, n) \in [W!Unit -> W!Bit]
  BY DEF W!Programmed, WriteTypeOK, W!Bit
<1>5. ASSUME NEW u \in W!Unit, ~(d <= u /\ u < d + todo)
      PROVE  {i \in 0 .. n - 1 : p + ((d + i) % Page) = u} = {}
  <2>1. \A i \in 0 .. n - 1 : d + i # u
    BY <1>2, <1>5 DEF W!Unit
  <2>2. QED
    BY <1>3, <2>1
<1>6. \A u \in W!Unit : ~(d <= u /\ u < d + todo) => W!Programmed(d, n)[u] = wrChip[u]
  BY <1>5 DEF W!Programmed
<1>7. QED
  BY <1>4, <1>6

\* A page program takes at least a byte and at most what is left.
LEMMA PageChunkFits ==
  ASSUME d \in Nat, todo \in Nat, todo > 0
  PROVE  W!PageChunk \in 1 .. todo
<1>1. d % Page \in 0 .. Page - 1
  BY Sizes
<1>2. QED
  BY <1>1, Sizes DEF W!PageChunk, W!Least

\* The piece of a smart write in hand lies in one sector.
LEMMA SmartFits ==
  ASSUME sdst \in Nat, ssize \in Nat, ssize > 0
  PROVE  /\ W!SmartChunk \in 1 .. ssize /\ W!SmartPage \in Nat /\ W!SmartPage <= sdst
         /\ sdst + W!SmartChunk <= W!SmartPage + Sector
         /\ \A u \in Nat : W!SmartPage <= u /\ u < W!SmartPage + Sector =>
              u \div Sector = sdst \div Sector
<1>1. sdst % Sector \in 0 .. Sector - 1 /\ sdst % Sector <= sdst
  BY Sizes
<1>2. W!SmartChunk \in 1 .. ssize /\ W!SmartChunk <= Sector - (sdst % Sector)
  BY <1>1, Sizes DEF W!SmartChunk, W!Least
<1>3. \A u \in Nat : W!SmartPage <= u /\ u < W!SmartPage + Sector =>
              u \div Sector = sdst \div Sector
  BY SamePart, Sizes DEF W!SmartPage
<1>4. QED
  BY <1>1, <1>2, <1>3, Sizes DEF W!SmartPage

\* flash_write() rejects its request, or starts on the first page of it.
LEMMA Enters ==
  ASSUME NEW a \in 0 .. PWord - 1, NEW s \in 0 .. PWord - 1, NEW data, NEW v,
         W!EnterWrite(a, s, data, v)
  PROVE  \/ /\ wrPc' = "idle" /\ wrRc' = W!EINVAL
            /\ UNCHANGED <<d, todo, wrDst, wrSize, src, verify>>
         \/ /\ wrPc' = "page" /\ wrRc' = wrRc /\ s > 0 /\ a + s <= PSize
            /\ (a + s) % PWord = a + s
            /\ d' = a /\ todo' = s /\ wrDst' = a /\ wrSize' = s /\ src' = data /\ verify' = v
<1>1. CASE (a + s) % PWord <= a \/ s = 0 \/ (a + s) % PWord > PSize
  BY <1>1 DEF W!EnterWrite, W!Return, W!wvars
<1>2. CASE ~((a + s) % PWord <= a \/ s = 0 \/ (a + s) % PWord > PSize)
  BY <1>2, Fits DEF W!EnterWrite
<1>3. QED
  BY <1>1, <1>2

-----------------------------------------------------------------------------
(***************************************************************************)
(* One lemma for each step of a write.                                     *)
(***************************************************************************)
\* What the chip holds, or will hold when it is idle, is a byte everywhere.
LEMMA SettledType ==
  ASSUME WriteTypeOK
  PROVE  W!Settled \in [W!Unit -> W!Bit]
BY DEF WriteTypeOK, W!Settled

\* A step that leaves the chip and the call alone.
LEMMA Rests ==
  ASSUME WriteInv, UNCHANGED <<wrChip, wrWip, pend, before, req, op>>
  PROVE  W!Settled' = W!Settled /\ Confined'
BY DEF WriteInv, Confined, Region, W!Settled

\* A call that fails has not touched what it may not touch, and promises
\* nothing else.
LEMMA Fails ==
  ASSUME WriteTypeOK', Confined', wrPc' = "idle", wrRc' # W!OK
  PROVE  WriteInv'
BY DEF WriteInv, RangeOK, SmartOK, SfcOK, AimOK, Writing, SmartLabels

\* A call of the interface takes its request and what the chip holds.
LEMMA Calls ==
  ASSUME WriteInv, NEW o \in {"write", "smart", "sfc"}, NEW r \in Writes, NEW w \in Contents,
         W!Call(o, r[1], r[2], w), UNCHANGED <<wrChip, wrWip, pend>>
  PROVE  /\ r[1] \in 0 .. PWord - 1 /\ r[2] \in 0 .. PWord - 1 /\ wrPc = "idle"
         /\ op' = o /\ want' = w /\ before' = W!Settled /\ W!Settled' = W!Settled
         /\ req' = {u \in W!Unit : r[1] <= u /\ u < r[1] + r[2]}
         /\ want' \in [W!Unit -> W!Bit] /\ before' \in [W!Unit -> W!Bit]
         /\ Confined'
<1>1. r[1] \in 0 .. PWord - 1 /\ r[2] \in 0 .. PWord - 1
  BY Sizes
<1>2. op' = o /\ want' = w /\ before' = W!Settled /\ W!Settled' = W!Settled /\ wrPc = "idle"
      /\ req' = {u \in W!Unit : r[1] <= u /\ u < r[1] + r[2]}
  BY DEF W!Call, W!Settled, W!Span
<1>3. want' \in [W!Unit -> W!Bit] /\ before' \in [W!Unit -> W!Bit]
  BY <1>2, Sizes, SettledType DEF WriteInv
<1>4. QED
  BY <1>1, <1>2, <1>3 DEF Confined

\* flash_write() is called: it rejects the request, or starts to write it.
LEMMA WriteCall ==
  ASSUME WriteInv, NEW r \in Writes, NEW w \in Contents, NEW v \in BOOLEAN,
         W!flash_write(r[1], r[2], w, v)
  PROVE  WriteInv'
<1> DEFINE a == r[1]  s == r[2]
<1>1. W!Call("write", a, s, w) /\ W!EnterWrite(a, s, w, v)
      /\ UNCHANGED <<sdst, ssize, send, buf, addr, left, wrChip, wrWip, pend, blind>>
  BY DEF W!flash_write, W!svars, W!sfcVars, W!flash
<1>2. /\ a \in 0 .. PWord - 1 /\ s \in 0 .. PWord - 1 /\ wrPc = "idle"
      /\ op' = "write" /\ want' = w /\ before' = W!Settled /\ W!Settled' = W!Settled
      /\ req' = {u \in W!Unit : a <= u /\ u < a + s}
      /\ want' \in [W!Unit -> W!Bit] /\ before' \in [W!Unit -> W!Bit] /\ Confined'
  BY <1>1, Calls
<1> HIDE DEF a, s
<1>3. CASE wrPc' = "idle"
  <2>1. wrRc' # W!OK /\ UNCHANGED <<src, verify>>
    BY <1>1, <1>2, <1>3, Enters DEF W!OK, W!EINVAL
  <2>2. WriteTypeOK'
    BY <1>1, <1>2, <1>3, <2>1 DEF WriteInv, WriteTypeOK, SmartLabels
  <2>3. QED
    BY <1>2, <1>3, <2>1, <2>2, Fails
<1>4. CASE wrPc' # "idle"
  <2>1. /\ wrPc' = "page" /\ s > 0 /\ a + s <= PSize
        /\ d' = a /\ todo' = s /\ wrDst' = a /\ wrSize' = s /\ src' = w /\ verify' = v
    BY <1>1, <1>2, <1>4, Enters
  <2>2. WriteTypeOK'
    BY <1>1, <1>2, <2>1 DEF WriteInv, WriteTypeOK, Writing, SmartLabels
  <2>3. RangeOK'
    BY <1>2, <2>1 DEF RangeOK, Region, InRange, Writing
  <2>4. AimOK'
    <3>1. Reached' = PSize
      BY <1>2 DEF Reached
    <3>2. \A u \in W!Unit : Aim(u)' = IF u \in req' THEN want'[u] ELSE before'[u]
      BY <3>1, Sizes DEF Aim, W!Unit
    <3>3. QED
      BY <1>2, <2>1, <3>2 DEF AimOK, InRange, SmartLabels
  <2>5. QED
    BY <1>2, <2>1, <2>2, <2>3, <2>4 DEF WriteInv, SmartOK, SfcOK
<1>5. QED
  BY <1>3, <1>4

\* flash_smart_write() is called: it rejects the request, or looks at the first
\* sector of it.
LEMMA SmartCall ==
  ASSUME WriteInv, NEW r \in Writes, NEW w \in Contents,
         W!flash_smart_write(r[1], r[2], w)
  PROVE  WriteInv'
<1> DEFINE a == r[1]  s == r[2]
<1>1. /\ W!Call("smart", a, s, w)
      /\ UNCHANGED <<d, todo, wrDst, wrSize, src, verify, buf, addr, left, wrChip, wrWip,
                     pend, blind>>
      /\ IF (a + s) % PWord <= a \/ s = 0 \/ (a + s) % PWord > PSize
           THEN wrPc' = "idle" /\ wrRc' = W!EINVAL
           ELSE wrPc' = "sm_loop" /\ sdst' = a /\ ssize' = s /\ send' = (a + s) % PWord
  BY DEF W!flash_smart_write, W!wvars, W!sfcVars, W!flash, W!Return
<1>2. /\ a \in 0 .. PWord - 1 /\ s \in 0 .. PWord - 1 /\ wrPc = "idle"
      /\ op' = "smart" /\ want' = w /\ before' = W!Settled /\ W!Settled' = W!Settled
      /\ req' = {u \in W!Unit : a <= u /\ u < a + s}
      /\ want' \in [W!Unit -> W!Bit] /\ before' \in [W!Unit -> W!Bit] /\ Confined'
  BY <1>1, Calls
<1> HIDE DEF a, s
<1>3. WriteTypeOK'
  BY <1>1, <1>2 DEF WriteInv, WriteTypeOK, SmartLabels
<1>4. CASE (a + s) % PWord <= a \/ s = 0 \/ (a + s) % PWord > PSize
  BY <1>1, <1>2, <1>3, <1>4, Fails DEF W!OK, W!EINVAL
<1>5. CASE ~((a + s) % PWord <= a \/ s = 0 \/ (a + s) % PWord > PSize)
  <2>1. s > 0 /\ a + s <= PSize /\ wrPc' = "sm_loop"
        /\ sdst' = a /\ ssize' = s /\ send' = a + s
    BY <1>1, <1>2, <1>5, Fits
  <2>2. SmartOK' /\ RangeOK' /\ SfcOK'
    BY <1>2, <2>1, Sizes DEF SmartOK, RangeOK, SfcOK, Writing, W!Unit
  <2>3. \A u \in W!Unit : Aim(u)' = before'[u]
    BY <1>2, <2>1 DEF Aim, Reached, W!Unit
  <2>4. AimOK'
    BY <1>2, <2>1, <2>3 DEF AimOK, Writing
  <2>5. QED
    BY <1>2, <1>3, <2>2, <2>4 DEF WriteInv
<1>6. QED
  BY <1>4, <1>5

\* `sfc write` starts, with all of its input before it.
LEMMA SfcCall ==
  ASSUME WriteInv, NEW r \in Writes, NEW w \in Contents, W!do_sfc(r[1], r[2], w)
  PROVE  WriteInv'
<1> DEFINE a == r[1]  s == r[2]
<1>1. /\ W!Call("sfc", a, s, w) /\ wrPc' = "ingress" /\ addr' = a /\ left' = s
      /\ UNCHANGED <<d, todo, wrDst, wrSize, src, verify, sdst, ssize, send, buf, wrChip,
                     wrWip, pend, blind>>
  BY DEF W!do_sfc, W!wvars, W!svars, W!flash
<1>2. /\ a \in 0 .. PWord - 1 /\ s \in 0 .. PWord - 1 /\ wrPc = "idle"
      /\ op' = "sfc" /\ want' = w /\ before' = W!Settled /\ W!Settled' = W!Settled
      /\ req' = {u \in W!Unit : a <= u /\ u < a + s}
      /\ want' \in [W!Unit -> W!Bit] /\ before' \in [W!Unit -> W!Bit] /\ Confined'
  BY <1>1, Calls
<1> HIDE DEF a, s
<1>3. WriteTypeOK'
  BY <1>1, <1>2 DEF WriteInv, WriteTypeOK, SmartLabels
<1>4. SmartOK' /\ RangeOK' /\ SfcOK'
  BY <1>1, <1>2 DEF SmartOK, RangeOK, SfcOK, Writing, SmartLabels
<1>5. \A u \in W!Unit : Aim(u)' = before'[u]
  BY <1>1, <1>2 DEF Aim, Reached, W!Unit
<1>6. AimOK'
  BY <1>1, <1>2, <1>5 DEF AimOK, Writing
<1>7. QED
  BY <1>2, <1>3, <1>4, <1>6 DEF WriteInv

\* The write of a range has ended: a plain write returns, a smart one moves on
\* and a streamed one reads on.
LEMMA Returns ==
  ASSUME WriteInv, wrPc \in {"page", "verify"}, W!WriteReturns, WriteTypeOK',
         \A u \in W!Unit : (op = "smart" => ~blind) /\ verify => W!Settled[u] = Aim(u),
         UNCHANGED <<wrChip, wrWip, pend, before, req, op, want, sdst, ssize, send, addr,
                     left, verify, blind>>
  PROVE  WriteInv'
<1>1. W!Settled' = W!Settled /\ Confined'
  BY Rests
<1>2. wrPc \in Writing
  BY DEF Writing
<1>3. CASE op = "write"
  <2>1. wrPc' = "idle"
    BY <1>3 DEF W!WriteReturns, W!Return
  <2>2. \A u \in W!Unit : Aim(u) = IF u \in req THEN want[u] ELSE before[u]
    BY <1>3, Sizes DEF Aim, Reached, W!Unit
  <2>3. AimOK'
    BY <1>1, <1>3, <2>1, <2>2 DEF AimOK, Writing, SmartLabels
  <2>4. QED
    BY <1>1, <2>1, <2>3 DEF WriteInv, RangeOK, SmartOK, SfcOK, Writing
<1>4. CASE op = "smart"
  <2>1. wrPc' = "sm_next" /\ verify
    BY <1>2, <1>4 DEF W!WriteReturns, WriteInv, RangeOK
  <2>2. SmartOK' /\ RangeOK' /\ SfcOK'
    BY <1>2, <1>4, <2>1 DEF WriteInv, SmartOK, RangeOK, SfcOK, Writing
  <2>3. \A u \in W!Unit : Aim(u)' = Aim(u)
    BY <1>2, <1>4, <2>1 DEF Aim, Reached, W!SmartChunk, W!Least, Writing
  <2>4. AimOK'
    BY <1>1, <1>4, <2>1, <2>3 DEF AimOK, Writing
  <2>5. QED
    BY <1>1, <2>2, <2>4 DEF WriteInv
<1>5. CASE op = "sfc"
  <2>1. wrPc' = "ingress" /\ verify
    BY <1>2, <1>5 DEF W!WriteReturns, WriteInv, RangeOK
  <2>2. SmartOK' /\ RangeOK' /\ SfcOK'
    BY <1>2, <1>5, <2>1 DEF WriteInv, SmartOK, RangeOK, SfcOK, Writing, SmartLabels
  <2>3. \A u \in W!Unit : Aim(u)' = Aim(u)
    BY <1>5 DEF Aim, Reached
  <2>4. AimOK'
    BY <1>1, <1>5, <2>1, <2>3 DEF AimOK, Writing
  <2>5. QED
    BY <1>1, <2>2, <2>4 DEF WriteInv
<1>6. QED
  BY <1>3, <1>4, <1>5 DEF WriteInv, WriteTypeOK

\* While a range is written or verified, what the call has to make of the chip
\* stays the same.
LEMMA SameAim ==
  ASSUME wrPc \in Writing, wrPc' \in Writing,
         UNCHANGED <<op, req, want, before, sdst, ssize, addr>>
  PROVE  \A u \in W!Unit : Aim(u)' = Aim(u)
BY DEF Aim, Reached, Writing, W!SmartChunk, W!Least

\* The loop over the pages goes on to the next page, or on to the verification.
LEMMA LoopStep ==
  ASSUME WriteInv, W!PageLoop
  PROVE  WriteInv'
<1>1. /\ wrPc = "page" /\ wrPc \in Writing
      /\ UNCHANGED <<d, todo, wrDst, wrSize, src, verify, sdst, ssize, send, buf, addr, left,
                     wrChip, wrWip, pend, op, wrCalls, want, before, req, blind>>
  BY DEF W!PageLoop, W!wvars, W!svars, W!sfcVars, W!flash, W!hist, Writing
<1>2. W!Settled' = W!Settled /\ Confined'
  BY <1>1, Rests
<1>3. /\ wrPc' \in {"idle", "verify", "program", "sm_next", "ingress"}
      /\ (wrPc' = "sm_next" => op = "smart") /\ (wrPc' = "ingress" => op = "sfc")
  BY DEF W!PageLoop, W!WriteReturns, W!Return, WriteInv, WriteTypeOK
<1>4. WriteTypeOK'
  BY <1>1, <1>3 DEF WriteInv, WriteTypeOK, Writing, SmartLabels
<1>5. CASE todo = 0 /\ verify /\ wrPc' = "verify"
  <2>1. RangeOK' /\ SmartOK' /\ SfcOK'
    BY <1>1, <1>5 DEF WriteInv, RangeOK, SmartOK, SfcOK, InRange, Region, Writing, SmartLabels
  <2>2. AimOK'
    BY <1>1, <1>2, <1>5, SameAim DEF WriteInv, AimOK, InRange, Writing, SmartLabels
  <2>3. QED
    BY <1>2, <1>4, <2>1, <2>2 DEF WriteInv
<1>6. CASE todo = 0 /\ ~verify /\ W!WriteReturns
  BY <1>1, <1>4, <1>6, Returns
<1>7. CASE todo > 0 /\ ~wrWip /\ wrPc' = "program"
  <2>1. RangeOK' /\ SmartOK' /\ SfcOK'
    BY <1>1, <1>7 DEF WriteInv, RangeOK, SmartOK, SfcOK, InRange, Region, Writing, SmartLabels
  <2>2. AimOK'
    BY <1>1, <1>2, <1>7, SameAim DEF WriteInv, AimOK, InRange, Writing, SmartLabels
  <2>3. QED
    BY <1>2, <1>4, <2>1, <2>2 DEF WriteInv
<1>8. CASE W!Return(W!EIO)
  BY <1>2, <1>4, <1>8, Fails DEF W!Return, W!EIO, W!OK
<1>9. QED
  BY <1>5, <1>6, <1>7, <1>8 DEF W!PageLoop

\* A page has been programmed, or the wait for it failed.
LEMMA WaitStep ==
  ASSUME WriteInv, W!PageWait
  PROVE  WriteInv'
<1>1. /\ wrPc = "wait" /\ wrPc \in Writing
      /\ UNCHANGED <<wrDst, wrSize, src, verify, sdst, ssize, send, buf, addr, left,
                     wrChip, wrWip, pend, op, wrCalls, want, before, req, blind>>
  BY DEF W!PageWait, W!svars, W!sfcVars, W!flash, W!hist, Writing
<1>2. W!Settled' = W!Settled /\ Confined'
  BY <1>1, Rests
<1>3. wrPc' \in {"idle", "page"}
  BY DEF W!PageWait, W!Return
<1>4. WriteTypeOK'
  BY <1>1, <1>3 DEF WriteInv, WriteTypeOK, Writing, SmartLabels
<1>5. CASE W!Return(W!EIO)
  BY <1>2, <1>4, <1>5, Fails DEF W!Return, W!EIO, W!OK
<1>6. CASE ~wrWip /\ wrPc' = "page" /\ d' = d + W!PageChunk /\ todo' = todo - W!PageChunk
  <2>1. d \in Nat /\ todo \in Nat /\ todo > 0
    BY <1>1 DEF WriteInv, RangeOK, Writing
  <2>2. PICK c \in 1 .. todo : d' = d + c /\ todo' = todo - c
    BY <1>6, <2>1, PageChunkFits
  <2>3. d' \in Nat /\ todo' \in Nat /\ d' + todo' = d + todo /\ d <= d'
    BY <2>1, <2>2
  <2>4. RangeOK'
    BY <1>1, <1>6, <2>1, <2>3 DEF WriteInv, RangeOK, InRange, Region, Writing
  <2>5. SmartOK' /\ SfcOK'
    BY <1>1, <1>6 DEF WriteInv, SmartOK, SfcOK, Writing, SmartLabels
  <2>6. AimOK'
    BY <1>1, <1>2, <1>6, SameAim DEF WriteInv, AimOK, InRange, Writing, SmartLabels
  <2>7. QED
    BY <1>2, <1>4, <2>4, <2>5, <2>6 DEF WriteInv
<1>7. QED
  BY <1>5, <1>6 DEF W!PageWait

\* A page program changes at most what is left of the range, whether the chip
\* takes it, ignores it, or only gets a part of it.
LEMMA ProgramStep ==
  ASSUME WriteInv, W!PageProgram
  PROVE  WriteInv'
<1>1. /\ wrPc = "program" /\ wrPc \in Writing
      /\ UNCHANGED <<d, todo, wrDst, wrSize, src, verify, sdst, ssize, send, buf, addr, left,
                     op, wrCalls, want, before, req, blind>>
  BY DEF W!PageProgram, W!wvars, W!svars, W!sfcVars, W!hist, Writing
<1>2. /\ d \in Nat /\ todo \in Nat /\ todo > 0 /\ ~wrWip /\ wrDst \in Nat /\ wrSize \in Nat
      /\ wrDst <= d /\ d + todo = wrDst + wrSize
  BY <1>1 DEF WriteInv, RangeOK, Writing
<1>3. /\ W!Settled' \in [W!Unit -> W!Bit] /\ wrWip' \in BOOLEAN
      /\ wrChip' \in [W!Unit -> W!Bit] /\ pend' \in [W!Unit -> W!Bit]
      /\ \A u \in W!Unit : ~InRange(u) => W!Settled'[u] = W!Settled[u]
  <2>1. CASE UNCHANGED W!flash
    BY <2>1, SettledType DEF W!flash, W!Settled, WriteInv, WriteTypeOK
  <2>2. ASSUME NEW n \in 1 .. W!PageChunk, W!Starts(W!Programmed(d, n))
        PROVE  /\ W!Settled' \in [W!Unit -> W!Bit] /\ wrWip' \in BOOLEAN
               /\ wrChip' \in [W!Unit -> W!Bit] /\ pend' \in [W!Unit -> W!Bit]
               /\ \A u \in W!Unit : ~InRange(u) => W!Settled'[u] = W!Settled[u]
    <3>1. /\ W!Programmed(d, n) \in [W!Unit -> W!Bit]
          /\ \A u \in W!Unit : ~(d <= u /\ u < d + todo) => W!Programmed(d, n)[u] = wrChip[u]
      BY <1>2, <2>2, ProgramsRange DEF WriteInv
    <3>2. W!Settled' = W!Programmed(d, n) /\ W!Settled = wrChip /\ wrChip' = wrChip
          /\ pend' = W!Programmed(d, n) /\ wrWip' = TRUE
      BY <1>2, <2>2 DEF W!Starts, W!Settled
    <3>3. \A u \in W!Unit : ~InRange(u) => ~(d <= u /\ u < d + todo)
      BY <1>2 DEF InRange, W!Unit
    <3>4. QED
      BY <3>1, <3>2, <3>3 DEF WriteInv, WriteTypeOK
  <2>3. W!PageChunk \in 1 .. W!PageChunk
    BY <1>2, PageChunkFits
  <2>4. QED
    BY <2>1, <2>2, <2>3 DEF W!PageProgram
<1>4. Confined'
  BY <1>1, <1>3 DEF WriteInv, Confined, RangeOK, Region
<1>5. CASE wrPc' = "wait"
  <2>1. WriteTypeOK'
    BY <1>1, <1>3, <1>5, SettledType DEF WriteInv, WriteTypeOK, Writing, SmartLabels
  <2>2. RangeOK' /\ SmartOK' /\ SfcOK'
    BY <1>1, <1>2, <1>5 DEF WriteInv, RangeOK, SmartOK, SfcOK, InRange, Region, Writing,
       SmartLabels
  <2>3. AimOK'
    BY <1>1, <1>3, <1>5, SameAim DEF WriteInv, AimOK, InRange, Writing, SmartLabels
  <2>4. QED
    BY <1>4, <2>1, <2>2, <2>3 DEF WriteInv
<1>6. CASE W!Return(W!EIO)
  <2>1. WriteTypeOK'
    BY <1>1, <1>3, <1>6 DEF WriteInv, WriteTypeOK, W!Return, SmartLabels
  <2>2. QED
    BY <1>4, <1>6, <2>1, Fails DEF W!Return, W!EIO, W!OK
<1>7. QED
  BY <1>5, <1>6 DEF W!PageProgram

\* What has been read back and compared is as the call makes it.
LEMMA VerifyStep ==
  ASSUME WriteInv, W!Verify
  PROVE  WriteInv'
<1>1. /\ wrPc = "verify" /\ wrPc \in Writing
      /\ UNCHANGED <<d, todo, src, verify, sdst, ssize, send, buf, addr, left,
                     wrChip, wrWip, pend, op, wrCalls, want, before, req>>
  BY DEF W!Verify, W!svars, W!sfcVars, W!flash, W!hist, Writing
<1>2. W!Settled' = W!Settled /\ Confined'
  BY <1>1, Rests
<1>3. ~wrWip /\ wrDst \in Nat /\ wrSize \in Nat /\ wrDst + wrSize <= PSize
  BY <1>1 DEF WriteInv, RangeOK, Writing
<1>4. blind' = blind /\ blind \in BOOLEAN
  BY <1>3 DEF W!Verify, WriteInv, WriteTypeOK
<1>5. /\ wrPc' \in {"idle", "verify", "sm_next", "ingress"}
      /\ (wrPc' = "sm_next" => op = "smart") /\ (wrPc' = "ingress" => op = "sfc")
  BY DEF W!Verify, W!WriteReturns, W!Return, WriteInv, WriteTypeOK
<1>6. WriteTypeOK'
  BY <1>1, <1>4, <1>5 DEF WriteInv, WriteTypeOK, Writing, SmartLabels
<1>7. CASE wrSize = 0 /\ W!WriteReturns
  <2>1. \A u \in W!Unit : ~InRange(u)
    BY <1>3, <1>7 DEF InRange, W!Unit
  <2>2. \A u \in W!Unit : (op = "smart" => ~blind) => W!Settled[u] = Aim(u)
    BY <1>1, <2>1 DEF WriteInv, AimOK
  <2>3. QED
    BY <1>1, <1>4, <1>6, <1>7, <2>2, Returns
<1>8. CASE W!Return(W!EIO) \/ W!Return(W!EREMOTEIO)
  BY <1>2, <1>6, <1>8, Fails DEF W!Return, W!EIO, W!EREMOTEIO, W!OK
<1>9. CASE /\ wrSize > 0 /\ wrPc' = "verify"
           /\ \A u \in W!Span(wrDst, W!Least(Page, wrSize)) : wrChip[u] = src[u]
           /\ wrDst' = wrDst + W!Least(Page, wrSize) /\ wrSize' = wrSize - W!Least(Page, wrSize)
  <2>1. PICK c \in 1 .. wrSize : c = W!Least(Page, wrSize)
    BY <1>3, <1>9, Sizes DEF W!Least
  <2>2. wrDst' \in Nat /\ wrSize' \in Nat /\ wrDst' + wrSize' = wrDst + wrSize
    BY <1>3, <1>9, <2>1
  <2>3. \A u \in W!Unit : InRange(u)' => InRange(u)
    BY <1>3, <1>9, <2>1 DEF InRange, W!Unit
  <2>4. \A u \in W!Unit : InRange(u) /\ ~InRange(u)' => W!Settled[u] = src[u]
    BY <1>3, <1>9, <2>1 DEF InRange, W!Unit, W!Span, W!Settled
  <2>5. RangeOK'
    BY <1>1, <1>3, <1>9, <2>2, <2>3 DEF WriteInv, RangeOK, Region, Writing
  <2>6. SmartOK' /\ SfcOK'
    BY <1>1, <1>9, <2>2 DEF WriteInv, SmartOK, SfcOK, Writing, SmartLabels
  <2>7. AimOK'
    BY <1>1, <1>2, <1>4, <1>9, <2>3, <2>4, SameAim DEF WriteInv, AimOK, Writing, SmartLabels
  <2>8. QED
    BY <1>2, <1>6, <2>5, <2>6, <2>7 DEF WriteInv
<1>10. QED
  BY <1>3, <1>7, <1>8, <1>9 DEF W!Verify

\* The chip ends what it was busy with: what it will hold, it now holds.
LEMMA ChipStep ==
  ASSUME WriteInv, W!ChipDone
  PROVE  WriteInv'
<1>1. /\ wrWip /\ wrWip' = FALSE /\ wrChip' = pend
      /\ UNCHANGED <<wrPc, wrRc, d, todo, wrDst, wrSize, src, verify, sdst, ssize, send, buf,
                     addr, left, pend, op, wrCalls, want, before, req, blind>>
  BY DEF W!ChipDone, W!wvars, W!svars, W!sfcVars, W!hist
<1>2. W!Settled' = W!Settled
  BY <1>1 DEF W!Settled
<1>3. WriteTypeOK' /\ Confined'
  BY <1>1, <1>2 DEF WriteInv, WriteTypeOK, Confined, Region
<1>4. RangeOK' /\ SmartOK' /\ SfcOK'
  BY <1>1 DEF WriteInv, RangeOK, SmartOK, SfcOK, InRange, Region
<1>5. \A u \in W!Unit : Aim(u)' = Aim(u)
  BY <1>1 DEF Aim, Reached, W!SmartChunk, W!Least
<1>6. AimOK'
  BY <1>1, <1>2, <1>5 DEF WriteInv, AimOK, InRange
<1>7. QED
  BY <1>3, <1>4, <1>6 DEF WriteInv

\* The write of a range starts on its first page: the call may change all of
\* it, and what lies outside it is already as the call makes it.
LEMMA Starting ==
  ASSUME WriteTypeOK', Confined', SmartOK', SfcOK', wrPc' = "page",
         NEW a \in Nat, NEW s \in Nat, s > 0, a + s <= PSize,
         wrDst' = a, wrSize' = s, d' = a, todo' = s, verify',
         \A u \in W!Unit : a <= u /\ u < a + s => Region(u)',
         (op' = "smart" => ~blind') =>
           \A u \in W!Unit : IF a <= u /\ u < a + s THEN src'[u] = Aim(u)'
                                                    ELSE W!Settled'[u] = Aim(u)'
  PROVE  WriteInv'
<1>1. RangeOK'
  BY DEF RangeOK, InRange, Writing
<1>2. AimOK'
  BY DEF AimOK, InRange, SmartLabels
<1>3. QED
  BY <1>1, <1>2 DEF WriteInv

\* The piece of a smart write in hand is asked for, and once it is written the
\* rest is what is asked for behind it.
LEMMA SmartPiece ==
  ASSUME WriteInv, op = "smart", wrPc \in {"sm_loop", "sm_erase"}, sdst < send
  PROVE  /\ sdst \in Nat /\ ssize \in Nat /\ sdst + ssize = send /\ send <= PSize
         /\ W!SmartChunk \in 1 .. ssize
         /\ \A u \in W!Unit : sdst <= u /\ u < sdst + W!SmartChunk => u \in req
         /\ \A u \in W!Unit : Aim(u) = IF u \in req /\ u < sdst THEN want[u] ELSE before[u]
         /\ sdst \in req
<1>1. sdst \in Nat /\ ssize \in Nat /\ sdst + ssize = send /\ send <= PSize /\ ssize > 0
  BY DEF WriteInv, SmartOK
<1>2. W!SmartChunk \in 1 .. ssize
  BY <1>1, SmartFits
<1>3. \A u \in W!Unit : sdst <= u /\ u < send => u \in req
  BY DEF WriteInv, SmartOK
<1>4. \A u \in W!Unit : sdst <= u /\ u < sdst + W!SmartChunk => u \in req
  BY <1>1, <1>2, <1>3 DEF W!Unit
<1>5. sdst \in W!Unit
  BY <1>1, Sizes DEF W!Unit
<1>6. QED
  BY <1>1, <1>2, <1>3, <1>4, <1>5 DEF Aim, Reached

\* A smart write compares the piece in hand with the chip, and only goes on
\* without writing when it is as the caller wants it.
LEMMA SmartLoopStep ==
  ASSUME WriteInv, W!SmartLoop
  PROVE  WriteInv'
<1> DEFINE c == W!SmartChunk
<1>1. /\ wrPc = "sm_loop" /\ op = "smart"
      /\ UNCHANGED <<sdst, ssize, send, addr, left, wrChip, wrWip, pend, op, wrCalls, want,
                     before, req>>
  BY DEF W!SmartLoop, W!sfcVars, W!flash, W!hist, WriteInv, WriteTypeOK, SmartLabels
<1>2. W!Settled' = W!Settled /\ Confined' /\ W!SmartChunk' = W!SmartChunk
  BY <1>1, Rests DEF W!SmartChunk, W!Least
<1>3. ~blind => \A u \in W!Unit : W!Settled[u] = Aim(u)
  BY <1>1 DEF WriteInv, AimOK, SmartLabels
<1>4. CASE sdst >= send /\ W!Return(W!OK) /\ UNCHANGED <<W!wvars, buf, blind>>
  <2>1. wrPc' = "idle" /\ wrRc' = W!OK /\ UNCHANGED <<src, verify, buf, blind>>
    BY <1>4 DEF W!Return, W!wvars
  <2>2. WriteTypeOK'
    BY <1>1, <2>1 DEF WriteInv, WriteTypeOK, SmartLabels
  <2>3. \A u \in W!Unit : Aim(u) = IF u \in req THEN want[u] ELSE before[u]
    BY <1>1, <1>4 DEF WriteInv, SmartOK, Aim, Reached, W!Unit
  <2>4. AimOK'
    BY <1>1, <1>2, <1>3, <2>1, <2>3 DEF AimOK, Writing, SmartLabels
  <2>5. QED
    BY <1>1, <1>2, <2>1, <2>2, <2>4 DEF WriteInv, RangeOK, SmartOK, SfcOK, Writing
<1>5. CASE W!Return(W!EIO) /\ UNCHANGED <<W!wvars, buf, blind>>
  <2>1. WriteTypeOK'
    BY <1>1, <1>5 DEF WriteInv, WriteTypeOK, SmartLabels, W!Return, W!wvars
  <2>2. QED
    BY <1>2, <1>5, <2>1, Fails DEF W!Return, W!EIO, W!OK
<1>6. ASSUME sdst < send, blind' = (blind \/ wrWip),
             buf' \in (IF wrWip THEN Contents ELSE {wrChip}),
             CASE W!flash_smart_comp(buf') = "no_change" ->
                    wrPc' = "sm_next" /\ UNCHANGED <<wrRc, W!wvars>>
               [] W!flash_smart_comp(buf') = "need_write" ->
                    W!EnterWrite(sdst, c, want, TRUE)
               [] W!flash_smart_comp(buf') = "need_erase" ->
                    wrPc' = "sm_erase" /\ UNCHANGED <<wrRc, W!wvars>>
      PROVE  WriteInv'
  <2>1. /\ sdst \in Nat /\ ssize \in Nat /\ sdst + ssize = send /\ send <= PSize
        /\ c \in 1 .. ssize
        /\ \A u \in W!Unit : sdst <= u /\ u < sdst + c => u \in req
        /\ \A u \in W!Unit : Aim(u) = IF u \in req /\ u < sdst THEN want[u] ELSE before[u]
    BY <1>1, <1>6, SmartPiece
  <2>2. /\ buf' \in [W!Unit -> W!Bit] /\ blind' \in BOOLEAN
        /\ ~blind' => ~blind /\ ~wrWip /\ buf' = wrChip /\ W!Settled = wrChip
    BY <1>6, Sizes DEF WriteInv, WriteTypeOK, W!Settled
  <2>3. SmartOK' /\ SfcOK'
    BY <1>1, <1>6, <2>1 DEF WriteInv, SmartOK, SfcOK
  <2>4. CASE W!flash_smart_comp(buf') = "no_change"
    <3>1. wrPc' = "sm_next" /\ UNCHANGED <<src, verify>>
      BY <1>6, <2>4 DEF W!wvars
    <3>2. WriteTypeOK' /\ RangeOK'
      BY <1>1, <2>2, <3>1 DEF WriteInv, WriteTypeOK, RangeOK, Writing, SmartLabels
    <3>3. \A u \in W!Unit : sdst <= u /\ u < sdst + c => want[u] = buf'[u]
      BY <2>4 DEF W!flash_smart_comp, W!Span
    <3>4. \A u \in W!Unit : Aim(u)' = IF u \in req /\ u < sdst + c THEN want[u] ELSE before[u]
      BY <1>1, <1>2, <3>1 DEF Aim, Reached
    <3>5. ~blind' => \A u \in W!Unit : W!Settled'[u] = Aim(u)'
      BY <1>2, <1>3, <2>1, <2>2, <3>3, <3>4 DEF W!Unit
    <3>6. AimOK'
      BY <1>1, <3>1, <3>5 DEF AimOK, Writing, SmartLabels
    <3>7. QED
      BY <1>2, <2>3, <3>2, <3>6 DEF WriteInv
  <2>5. CASE W!flash_smart_comp(buf') = "need_erase"
    <3>1. wrPc' = "sm_erase" /\ UNCHANGED <<src, verify>>
      BY <1>6, <2>5 DEF W!wvars
    <3>2. WriteTypeOK' /\ RangeOK'
      BY <1>1, <2>2, <3>1 DEF WriteInv, WriteTypeOK, RangeOK, Writing, SmartLabels
    <3>3. \A u \in W!Unit : Aim(u)' = Aim(u)
      BY <1>1, <3>1 DEF Aim, Reached
    <3>4. AimOK'
      BY <1>1, <1>2, <1>3, <2>2, <3>1, <3>3 DEF AimOK, Writing, SmartLabels
    <3>5. QED
      BY <1>2, <2>3, <3>2, <3>4 DEF WriteInv
  <2>6. CASE W!EnterWrite(sdst, c, want, TRUE)
    <3>1. PICK a \in 0 .. PWord - 1 : a = sdst
      BY <2>1, Sizes
    <3>2. PICK s \in 0 .. PWord - 1 : s = c
      BY <2>1, Sizes
    <3>3. PICK data : data = want
      OBVIOUS
    <3>4. PICK v \in BOOLEAN : v = TRUE
      OBVIOUS
    <3>5. W!EnterWrite(a, s, data, v)
      BY <2>6, <3>1, <3>2, <3>3, <3>4
    <3> HIDE DEF c
    <3>6. CASE wrPc' = "idle"
      <4>1. wrRc' # W!OK /\ UNCHANGED <<src, verify>>
        BY <3>5, <3>6, Enters DEF W!OK, W!EINVAL
      <4>2. WriteTypeOK'
        BY <1>1, <2>2, <3>6, <4>1 DEF WriteInv, WriteTypeOK, SmartLabels
      <4>3. QED
        BY <1>2, <3>6, <4>1, <4>2, Fails
    <3>7. CASE wrPc' # "idle"
      <4>1. /\ wrPc' = "page" /\ d' = a /\ todo' = s /\ wrDst' = a /\ wrSize' = s
            /\ src' = want /\ verify' = TRUE /\ a + s <= PSize /\ s > 0
        BY <3>3, <3>4, <3>5, <3>7, Enters
      <4>2. WriteTypeOK'
        BY <1>1, <2>2, <4>1 DEF WriteInv, WriteTypeOK, Writing, SmartLabels
      <4>3. \A u \in W!Unit : a <= u /\ u < a + s => u \in req
        BY <2>1, <3>1, <3>2
      <4>4. \A u \in W!Unit : Aim(u)' = IF u \in req /\ u < a + s THEN want[u] ELSE before[u]
        BY <1>1, <1>2, <3>1, <3>2, <4>1 DEF Aim, Reached, c
      <4>5. ~blind' =>
              \A u \in W!Unit : IF a <= u /\ u < a + s THEN src'[u] = Aim(u)'
                                                       ELSE W!Settled'[u] = Aim(u)'
        BY <1>2, <1>3, <2>1, <2>2, <3>1, <3>2, <4>1, <4>3, <4>4 DEF W!Unit
      <4>6. \A u \in W!Unit : a <= u /\ u < a + s => Region(u)'
        BY <1>1, <4>3 DEF Region
      <4>7. QED
        BY <1>1, <1>2, <2>3, <4>1, <4>2, <4>5, <4>6, Starting
    <3>8. QED
      BY <3>6, <3>7
  <2>7. QED
    BY <1>6, <2>4, <2>5, <2>6 DEF W!flash_smart_comp
<1>7. QED
  BY <1>4, <1>5, <1>6 DEF W!SmartLoop

\* The sector is erased, and is written back with the caller's piece of it.
LEMMA SmartEraseStep ==
  ASSUME WriteInv, W!SmartErase
  PROVE  WriteInv'
<1> DEFINE c == W!SmartChunk
           block == [u \in W!Unit |-> IF u \in W!Span(sdst, c) THEN want[u] ELSE buf[u]]
<1>1. /\ wrPc = "sm_erase" /\ op = "smart" /\ sdst < send
      /\ UNCHANGED <<sdst, ssize, send, addr, left, op, wrCalls, want, before, req, blind>>
  BY DEF W!SmartErase, W!sfcVars, W!hist, WriteInv, WriteTypeOK, SmartOK, SmartLabels
<1>2. /\ sdst \in Nat /\ ssize \in Nat /\ sdst + ssize = send /\ send <= PSize
      /\ c \in 1 .. ssize /\ sdst \in req
      /\ \A u \in W!Unit : sdst <= u /\ u < sdst + c => u \in req
      /\ \A u \in W!Unit : Aim(u) = IF u \in req /\ u < sdst THEN want[u] ELSE before[u]
  BY <1>1, SmartPiece
<1>3. /\ W!SmartPage \in Nat /\ W!SmartPage <= sdst /\ sdst + c <= W!SmartPage + Sector
      /\ \A u \in Nat : W!SmartPage <= u /\ u < W!SmartPage + Sector =>
           u \div Sector = sdst \div Sector
  BY <1>2, SmartFits
<1>4. \A u \in W!Unit : W!SmartPage <= u /\ u < W!SmartPage + Sector => Region(u)
  BY <1>1, <1>2, <1>3 DEF Region, W!Unit
<1>5. /\ \A u \in W!Unit : Region(u)' <=> Region(u)
      /\ W!SmartChunk' = W!SmartChunk
  BY <1>1 DEF Region, W!SmartChunk, W!Least
<1>6. /\ W!Erased(W!SmartPage) \in [W!Unit -> W!Bit]
      /\ \A u \in W!Unit : ~(W!SmartPage <= u /\ u < W!SmartPage + Sector) =>
           W!Erased(W!SmartPage)[u] = wrChip[u]
  BY DEF W!Erased, W!Span, W!Bit, WriteInv, WriteTypeOK
<1>7. /\ block \in [W!Unit -> W!Bit]
      /\ \A u \in W!Unit : block[u] = IF sdst <= u /\ u < sdst + c THEN want[u] ELSE buf[u]
  BY DEF W!Span, WriteInv, WriteTypeOK
<1>8. SmartOK' /\ SfcOK'
  BY <1>1 DEF WriteInv, SmartOK, SfcOK
<1>9. CASE /\ ~wrWip /\ wrChip' = W!Erased(W!SmartPage) /\ UNCHANGED <<wrWip, pend>>
           /\ W!EnterWrite(W!SmartPage, Sector, block, TRUE) /\ buf' = block
  <2>1. W!Settled' = W!Erased(W!SmartPage) /\ W!Settled = wrChip
    BY <1>9 DEF W!Settled
  <2>2. Confined'
    BY <1>1, <1>4, <1>5, <1>6, <2>1 DEF WriteInv, Confined
  <2>3. W!SmartPage <= sdst /\ sdst < PSize
    BY <1>2, <1>3, Sizes
  <2>4. PICK a \in 0 .. PWord - 1 : a = W!SmartPage
    BY <1>2, <1>3, <2>3, Sizes
  <2>5. Sector \in 0 .. PWord - 1
    BY Sizes, SectorFits
  <2>6. WriteInv'
    <3>1. PICK data \in [W!Unit -> W!Bit] : data = block
      BY <1>7
    <3>2. PICK v \in BOOLEAN : v = TRUE
      OBVIOUS
    <3>3. W!EnterWrite(a, Sector, data, v) /\ buf' = data
      BY <1>9, <2>4, <3>1, <3>2
    <3>4. \A u \in W!Unit : data[u] = IF sdst <= u /\ u < sdst + c THEN want[u] ELSE buf[u]
      BY <1>7, <3>1
    <3> HIDE DEF block, c
    <3>5. CASE wrPc' = "idle"
      <4>1. wrRc' # W!OK /\ UNCHANGED <<src, verify>>
        BY <2>5, <3>3, <3>5, Enters DEF W!OK, W!EINVAL
      <4>2. WriteTypeOK'
        BY <1>1, <1>6, <1>9, <3>3, <3>5, <4>1 DEF WriteInv, WriteTypeOK, SmartLabels
      <4>3. QED
        BY <2>2, <3>5, <4>1, <4>2, Fails
    <3>6. CASE wrPc' # "idle"
      <4>1. /\ wrPc' = "page" /\ d' = a /\ todo' = Sector /\ wrDst' = a /\ wrSize' = Sector
            /\ src' = data /\ verify' = TRUE /\ a + Sector <= PSize /\ Sector > 0
        BY <2>5, <3>2, <3>3, <3>6, Enters
      <4>2. WriteTypeOK'
        BY <1>1, <1>6, <1>9, <3>3, <4>1 DEF WriteInv, WriteTypeOK, Writing, SmartLabels
      <4>3. \A u \in W!Unit : Aim(u)' = IF u \in req /\ u < sdst + c THEN want[u] ELSE before[u]
        BY <1>1, <1>5, <4>1 DEF Aim, Reached, c
      <4>4. ~blind => buf = wrChip /\ \A u \in W!Unit : wrChip[u] = Aim(u)
        BY <1>1, <2>1 DEF WriteInv, AimOK, SmartLabels
      <4>5. ~blind' =>
              \A u \in W!Unit : IF a <= u /\ u < a + Sector THEN src'[u] = Aim(u)'
                                                            ELSE W!Settled'[u] = Aim(u)'
        <5>1. ASSUME ~blind, NEW u \in W!Unit, a <= u, u < a + Sector
              PROVE  data[u] = Aim(u)'
          BY <1>2, <3>4, <4>3, <4>4, <5>1 DEF W!Unit
        <5>2. ASSUME ~blind, NEW u \in W!Unit, ~(a <= u /\ u < a + Sector)
              PROVE  W!Settled'[u] = Aim(u)'
          <6>1. W!Settled'[u] = Aim(u)
            BY <1>6, <2>1, <2>4, <4>4, <5>2
          <6>2. u < sdst \/ sdst + c <= u
            BY <1>2, <1>3, <2>4, <5>2, Sizes DEF W!Unit, c
          <6>3. QED
            BY <1>2, <4>3, <6>1, <6>2 DEF W!Unit
        <5>3. QED
          BY <1>1, <4>1, <5>1, <5>2
      <4>6. \A u \in W!Unit : a <= u /\ u < a + Sector => Region(u)'
        BY <1>4, <1>5, <2>4
      <4>7. QED
        BY <1>1, <1>8, <2>2, <4>1, <4>2, <4>5, <4>6, Sizes, Starting
    <3>7. QED
      BY <3>5, <3>6
  <2>7. QED
    BY <2>6
<1>10. CASE /\ W!Return(W!EIO) /\ UNCHANGED <<W!wvars, buf>>
            /\ UNCHANGED W!flash \/ (~wrWip /\ W!Starts(W!Erased(W!SmartPage)))
  <2>1. wrPc' = "idle" /\ wrRc' # W!OK /\ UNCHANGED <<src, verify, buf>>
    BY <1>10 DEF W!Return, W!wvars, W!EIO, W!OK
  <2>2. WriteTypeOK' /\ Confined'
    <3>1. CASE UNCHANGED W!flash
      BY <1>1, <1>5, <2>1, <3>1 DEF WriteInv, WriteTypeOK, Confined, W!Settled, W!flash,
         SmartLabels
    <3>2. CASE ~wrWip /\ W!Starts(W!Erased(W!SmartPage))
      <4>1. W!Settled' = W!Erased(W!SmartPage) /\ W!Settled = wrChip
            /\ wrWip' = TRUE /\ pend' = W!Erased(W!SmartPage) /\ wrChip' = wrChip
        BY <3>2 DEF W!Starts, W!Settled
      <4>2. Confined'
        BY <1>1, <1>4, <1>5, <1>6, <4>1 DEF WriteInv, Confined
      <4>3. WriteTypeOK'
        BY <1>1, <1>6, <2>1, <4>1 DEF WriteInv, WriteTypeOK, SmartLabels
      <4>4. QED
        BY <4>2, <4>3
    <3>3. QED
      BY <1>10, <3>1, <3>2
  <2>3. QED
    BY <2>1, <2>2, Fails
<1>11. QED
  BY <1>9, <1>10 DEF W!SmartErase

\* The next piece follows the one that has been written.
LEMMA SmartNextStep ==
  ASSUME WriteInv, W!SmartNext
  PROVE  WriteInv'
<1>1. /\ wrPc = "sm_next" /\ wrPc' = "sm_loop" /\ op = "smart"
      /\ sdst' = sdst + W!SmartChunk /\ ssize' = ssize - W!SmartChunk
      /\ UNCHANGED <<wrRc, send, buf, addr, left, d, todo, wrDst, wrSize, src, verify,
                     wrChip, wrWip, pend, op, wrCalls, want, before, req, blind>>
  BY DEF W!SmartNext, W!sfcVars, W!wvars, W!flash, W!hist, WriteInv, WriteTypeOK, SmartLabels
<1>2. W!Settled' = W!Settled /\ Confined'
  BY <1>1, Rests
<1>3. WriteTypeOK' /\ RangeOK' /\ SfcOK'
  BY <1>1 DEF WriteInv, WriteTypeOK, RangeOK, SfcOK, Writing, SmartLabels
<1>4. sdst \in Nat /\ ssize \in Nat /\ ssize > 0 /\ sdst + ssize = send /\ send <= PSize
  BY <1>1 DEF WriteInv, SmartOK
<1>5. PICK m \in 1 .. ssize : m = W!SmartChunk
  BY <1>4, SmartFits
<1>6. sdst' \in Nat /\ ssize' \in Nat /\ sdst' + ssize' = send /\ sdst <= sdst'
  BY <1>1, <1>4, <1>5
<1>7. SmartOK'
  BY <1>1, <1>4, <1>6 DEF WriteInv, SmartOK, W!Unit
<1>8. \A u \in W!Unit : Aim(u)' = Aim(u)
  BY <1>1 DEF Aim, Reached
<1>9. AimOK'
  BY <1>1, <1>2, <1>8 DEF WriteInv, AimOK, Writing, SmartLabels
<1>10. QED
  BY <1>2, <1>3, <1>7, <1>9 DEF WriteInv

\* The next piece of the input is written behind the one before it.
LEMMA IngressStep ==
  ASSUME WriteInv, W!Ingress
  PROVE  WriteInv'
<1>1. /\ wrPc = "ingress" /\ op = "sfc"
      /\ UNCHANGED <<sdst, ssize, send, buf, wrChip, wrWip, pend, op, wrCalls, want, before,
                     req, blind>>
  BY DEF W!Ingress, W!svars, W!flash, W!hist, WriteInv, WriteTypeOK
<1>2. W!Settled' = W!Settled /\ Confined'
  BY <1>1, Rests
<1>3. addr \in 0 .. PWord - 1 /\ left \in 0 .. PWord - 1
      /\ (\A u \in W!Unit : addr <= u /\ u < addr + left => u \in req)
      /\ \A u \in req : u < addr + left
  BY <1>1 DEF WriteInv, SfcOK
<1>4. \A u \in W!Unit : W!Settled[u] = IF u \in req /\ u < addr THEN want[u] ELSE before[u]
  BY <1>1 DEF WriteInv, AimOK, Aim, Reached
<1>5. CASE left = 0 /\ W!Return(wrRc) /\ UNCHANGED <<W!wvars, W!sfcVars>>
  <2>1. wrPc' = "idle" /\ UNCHANGED <<src, verify>>
    BY <1>5 DEF W!Return, W!wvars
  <2>2. WriteTypeOK'
    BY <1>1, <2>1 DEF WriteInv, WriteTypeOK, SmartLabels
  <2>3. \A u \in req : u < addr
    BY <1>3, <1>5 DEF WriteInv, WriteTypeOK, W!Unit
  <2>4. AimOK'
    BY <1>1, <1>2, <1>4, <2>1, <2>3 DEF AimOK, Writing, SmartLabels
  <2>5. QED
    BY <1>2, <2>1, <2>2, <2>4 DEF WriteInv, RangeOK, SmartOK, SfcOK, Writing
<1>6. CASE W!Return(W!EIO) /\ UNCHANGED <<W!wvars, W!sfcVars>>
  <2>1. WriteTypeOK'
    BY <1>1, <1>6 DEF WriteInv, WriteTypeOK, SmartLabels, W!Return, W!wvars
  <2>2. QED
    BY <1>2, <1>6, <2>1, Fails DEF W!Return, W!EIO, W!OK
<1>7. ASSUME NEW n \in 1 .. W!Least(left, Window), W!EnterWrite(addr, n, want, TRUE),
             addr' = (addr + n) % PWord, left' = left - n
      PROVE  WriteInv'
  <2>1. n \in 1 .. left /\ n \in 0 .. PWord - 1
    BY <1>3, Sizes DEF W!Least
  <2>2. PICK a \in 0 .. PWord - 1 : a = addr
    BY <1>3
  <2>3. PICK data : data = want
    OBVIOUS
  <2>4. PICK v \in BOOLEAN : v = TRUE
    OBVIOUS
  <2>5. W!EnterWrite(a, n, data, v)
    BY <1>7, <2>2, <2>3, <2>4
  <2>6. CASE wrPc' = "idle"
    <3>1. wrRc' # W!OK /\ UNCHANGED <<src, verify>>
      BY <2>1, <2>5, <2>6, Enters DEF W!OK, W!EINVAL
    <3>2. WriteTypeOK'
      BY <1>1, <2>6, <3>1 DEF WriteInv, WriteTypeOK, SmartLabels
    <3>3. QED
      BY <1>2, <2>6, <3>1, <3>2, Fails
  <2>7. CASE wrPc' # "idle"
    <3>1. /\ wrPc' = "page" /\ d' = a /\ todo' = n /\ wrDst' = a /\ wrSize' = n
          /\ src' = want /\ verify' = TRUE /\ a + n <= PSize /\ n > 0
          /\ (a + n) % PWord = a + n
      BY <2>1, <2>3, <2>4, <2>5, <2>7, Enters
    <3>2. addr' = a + n /\ left' = left - n
      BY <1>7, <2>2, <3>1
    <3>3. WriteTypeOK'
      BY <1>1, <3>1 DEF WriteInv, WriteTypeOK, Writing, SmartLabels
    <3>4. SmartOK' /\ SfcOK'
      <4>1. addr' \in 0 .. PWord - 1 /\ left' \in 0 .. PWord - 1
            /\ addr' + left' = addr + left /\ addr <= addr'
        BY <1>3, <2>1, <2>2, <3>1, <3>2, Sizes
      <4>2. /\ \A u \in W!Unit : addr' <= u /\ u < addr' + left' => u \in req
            /\ \A u \in req : u < addr' + left'
        <5>1. PICK e : e = addr + left /\ e = addr' + left'
          BY <4>1
        <5>2. \A u \in W!Unit : addr' <= u => addr <= u
          BY <1>3, <4>1, Sizes DEF W!Unit
        <5>3. QED
          BY <1>3, <5>1, <5>2
      <4>3. QED
        BY <1>1, <3>1, <3>2, <4>1, <4>2 DEF SmartOK, SfcOK
    <3>5. \A u \in W!Unit : a <= u /\ u < a + n => u \in req
      BY <1>3, <2>1, <2>2 DEF W!Unit
    <3>6. \A u \in W!Unit : Aim(u)' = IF u \in req /\ u < a + n THEN want[u] ELSE before[u]
      BY <1>1, <3>2 DEF Aim, Reached
    <3>7. \A u \in W!Unit : IF a <= u /\ u < a + n THEN src'[u] = Aim(u)'
                                                 ELSE W!Settled'[u] = Aim(u)'
      BY <1>2, <1>4, <2>2, <3>1, <3>5, <3>6 DEF W!Unit
    <3>8. \A u \in W!Unit : a <= u /\ u < a + n => Region(u)'
      BY <1>1, <3>5 DEF Region
    <3>9. QED
      BY <1>1, <1>2, <2>1, <2>2, <3>1, <3>3, <3>4, <3>7, <3>8, Starting
  <2>8. QED
    BY <2>6, <2>7
<1>8. QED
  BY <1>5, <1>6, <1>7 DEF W!Ingress

-----------------------------------------------------------------------------
(***************************************************************************)
(* The invariant and the theorems.                                         *)
(***************************************************************************)
\* Each part starts from an initial state of the writes.
LEMMA InitWriteInv ==
  ASSUME FlashInit
  PROVE  WriteInv
<1>1. wrPc = "idle" /\ op = "write" /\ wrCalls = 0 /\ req = {} /\ wrWip = FALSE
      /\ verify = FALSE /\ blind = FALSE /\ wrChip \in Contents /\ pend = wrChip
      /\ before = wrChip /\ src = W!Blank /\ buf = W!Blank /\ want = W!Blank
  BY DEF FlashInit, W!Init
<1>2. W!Blank \in [W!Unit -> W!Bit]
  BY DEF W!Blank, W!Bit
<1>3. WriteTypeOK
  BY <1>1, <1>2, Sizes DEF WriteTypeOK, SmartLabels
<1>4. QED
  BY <1>1, <1>3 DEF WriteInv, RangeOK, SmartOK, SfcOK, AimOK, Confined, W!Settled, Writing,
     SmartLabels

\* Every step of a write keeps the invariant, and the other parts leave the
\* variables of a write alone.
LEMMA NextWriteInv ==
  ASSUME WriteInv, [FlashNext]_flashVars
  PROVE  WriteInv'
<1>1. CASE W!Next
  BY <1>1, WriteCall, SmartCall, SfcCall, LoopStep, ProgramStep, WaitStep, VerifyStep,
     SmartLoopStep, SmartEraseStep, SmartNextStep, IngressStep, ChipStep DEF W!Next
<1>2. CASE UNCHANGED writeVars
  BY <1>2 DEF WriteInv, WriteTypeOK, RangeOK, SmartOK, SfcOK, AimOK, Confined, Region,
     InRange, Aim, Reached, W!Settled, W!SmartChunk, W!Least, writeVars
<1>3. QED
  BY <1>1, <1>2 DEF FlashNext, EraseStep, EraseDone, flashVars

\* The invariant holds throughout.
LEMMA AlwaysWriteInv == FlashSpec => []WriteInv
<1>1. FlashInit => WriteInv
  BY InitWriteInv
<1>2. WriteInv /\ [FlashNext]_flashVars => WriteInv'
  BY NextWriteInv
<1>3. QED
  BY <1>1, <1>2, PTL DEF FlashSpec

\* Whatever fails on the way, a byte the caller did not name keeps its value,
\* or is in a sector of a smart write (flash.c, "Handle misaligned start").
THEOREM ConfinedCorrect == FlashSpec => []WriteConfined
<1>1. WriteInv => WriteConfined
  BY DEF WriteInv, Confined, Region, WriteConfined, W!WriteConfined
<1>2. QED
  BY <1>1, AlwaysWriteInv, PTL

\* A verified write, or a `sfc write`, that returned 0 left the data of the
\* caller in the chip (flash.c, "Verify"; cmd/sfc.c, do_sfc).
THEOREM VerifiedCorrect == FlashSpec => []WriteVerified
<1>1. WriteInv => WriteVerified
  BY DEF WriteInv, WriteTypeOK, AimOK, WriteVerified, W!WriteVerified
<1>2. QED
  BY <1>1, AlwaysWriteInv, PTL

\* A smart write that returned 0, and read no busy chip, left the data of the
\* caller and the neighbours as they were (flash.c, flash_smart_write).
THEOREM SmartCorrect == FlashSpec => []SmartPreserves
<1>1. WriteInv => SmartPreserves
  BY DEF WriteInv, AimOK, SmartPreserves, W!SmartPreserves
<1>2. QED
  BY <1>1, AlwaysWriteInv, PTL

-----------------------------------------------------------------------------
\* The steps of a call of the three functions, from its first to its return.
WriteStep ==
  \/ W!PageLoop \/ W!PageProgram \/ W!PageWait \/ W!Verify
  \/ W!SmartLoop \/ W!SmartErase \/ W!SmartNext
  \/ W!Ingress

\* What a call has still to do: the request or the input ahead of the piece in
\* hand ...
Ahead ==
  IF wrPc = "idle" THEN 0
  ELSE IF op = "smart" THEN ssize ELSE IF op = "sfc" THEN left ELSE 0

\* ... the stages of that piece ...
Stage ==
  IF wrPc = "idle" THEN 0
  ELSE IF wrPc \in {"sm_next", "ingress"} THEN 1
  ELSE IF wrPc = "verify" THEN 2
  ELSE IF wrPc = "sm_erase" THEN 4 ELSE IF wrPc = "sm_loop" THEN 5 ELSE 3

\* ... and the steps of this stage, three for each page to program.
InHand ==
  IF wrPc = "page" THEN 3 * todo + 2
  ELSE IF wrPc = "program" THEN 3 * todo + 1
  ELSE IF wrPc = "wait" THEN 3 * todo
  ELSE IF wrPc = "verify" THEN wrSize ELSE 0

\* A step that leaves less of the request, of the stages or of the stage.
MovesOn ==
  \/ Ahead' < Ahead
  \/ Ahead' = Ahead /\ Stage' < Stage
  \/ Ahead' = Ahead /\ Stage' = Stage /\ InHand' < InHand

\* All three are natural numbers.
LEMMA WorkType ==
  ASSUME WriteInv
  PROVE  Ahead \in Nat /\ Stage \in Nat /\ InHand \in Nat
<1>1. wrPc # "idle" /\ op = "smart" => ssize \in Nat
  BY DEF WriteInv, SmartOK
<1>2. wrPc # "idle" /\ op = "sfc" => left \in Nat
  BY DEF WriteInv, SfcOK
<1>3. wrPc \in {"page", "program", "wait"} => todo \in Nat
  BY DEF WriteInv, RangeOK, Writing
<1>4. wrPc = "verify" => wrSize \in Nat
  BY DEF WriteInv, RangeOK, Writing
<1>5. Ahead \in Nat
  BY <1>1, <1>2 DEF Ahead
<1>6. Stage \in Nat
  BY DEF Stage
<1>7. InHand \in Nat
  BY <1>3, <1>4 DEF InHand
<1>8. QED
  BY <1>5, <1>6, <1>7

\* A return ends all of it.
LEMMA ReturnMovesOn ==
  ASSUME WriteInv, wrPc # "idle", wrPc' = "idle"
  PROVE  MovesOn
<1>1. Ahead' = 0 /\ Stage' = 0 /\ Stage \in 1 .. 5
  BY DEF Ahead, Stage
<1>2. Ahead \in Nat
  BY WorkType
<1>3. QED
  BY <1>1, <1>2 DEF MovesOn

\* A step to a later stage of the same piece.
LEMMA StageMovesOn ==
  ASSUME wrPc # "idle", wrPc' # "idle", UNCHANGED <<op, ssize, left>>, Stage' < Stage
  PROVE  MovesOn
BY DEF MovesOn, Ahead

\* One step per action.
LEMMA WriteStepMovesOn ==
  ASSUME WriteInv, WriteStep
  PROVE  MovesOn
<1>t. op \in {"write", "smart", "sfc"}
  BY DEF WriteInv, WriteTypeOK
<1>1. CASE W!PageLoop
  <2>1. wrPc = "page" /\ UNCHANGED <<op, ssize, left, todo>>
    BY <1>1 DEF W!PageLoop, W!wvars, W!svars, W!sfcVars, W!hist
  <2>2. CASE wrPc' \in {"verify", "sm_next", "ingress"}
    BY <2>1, <2>2, StageMovesOn DEF Stage
  <2>3. CASE wrPc' = "program"
    <3>1. todo \in Nat
      BY <2>1 DEF WriteInv, RangeOK, Writing
    <3>2. QED BY <2>1, <2>3, <3>1 DEF MovesOn, Ahead, Stage, InHand
  <2>4. QED
    BY <1>1, <1>t, <2>1, <2>2, <2>3, ReturnMovesOn
    DEF W!PageLoop, W!WriteReturns, W!Return
<1>2. CASE W!PageProgram
  <2>1. wrPc = "program" /\ UNCHANGED <<op, ssize, left, todo>>
    BY <1>2 DEF W!PageProgram, W!wvars, W!svars, W!sfcVars, W!hist
  <2>2. CASE wrPc' = "wait"
    <3>1. todo \in Nat
      BY <2>1 DEF WriteInv, RangeOK, Writing
    <3>2. QED BY <2>1, <2>2, <3>1 DEF MovesOn, Ahead, Stage, InHand
  <2>3. QED
    BY <1>2, <2>1, <2>2, ReturnMovesOn DEF W!PageProgram, W!Return
<1>3. CASE W!PageWait
  <2>1. wrPc = "wait" /\ UNCHANGED <<op, ssize, left>>
    BY <1>3 DEF W!PageWait, W!svars, W!sfcVars, W!hist
  <2>2. CASE wrPc' = "page" /\ todo' = todo - W!PageChunk
    <3>1. d \in Nat /\ todo \in Nat /\ todo > 0
      BY <2>1 DEF WriteInv, RangeOK, Writing
    <3>2. PICK c \in 1 .. todo : todo' = todo - c
      BY <2>2, <3>1, PageChunkFits
    <3>3. QED BY <2>1, <2>2, <3>1, <3>2 DEF MovesOn, Ahead, Stage, InHand
  <2>3. QED
    BY <1>3, <2>1, <2>2, ReturnMovesOn DEF W!PageWait, W!Return
<1>4. CASE W!Verify
  <2>1. wrPc = "verify" /\ UNCHANGED <<op, ssize, left>>
    BY <1>4 DEF W!Verify, W!svars, W!sfcVars, W!hist
  <2>2. CASE wrPc' \in {"sm_next", "ingress"}
    BY <2>1, <2>2, StageMovesOn DEF Stage
  <2>3. CASE wrPc' = "verify" /\ wrSize > 0 /\ wrSize' = wrSize - W!Least(Page, wrSize)
    <3>1. wrSize \in Nat
      BY <2>1 DEF WriteInv, RangeOK, Writing
    <3>2. PICK c \in 1 .. wrSize : wrSize' = wrSize - c
      BY <2>3, <3>1, Sizes DEF W!Least
    <3>3. QED BY <2>1, <2>3, <3>1, <3>2 DEF MovesOn, Ahead, Stage, InHand
  <2>4. QED
    BY <1>4, <1>t, <2>1, <2>2, <2>3, ReturnMovesOn
    DEF W!Verify, W!WriteReturns, W!Return
<1>5. CASE W!SmartLoop
  <2>1. wrPc = "sm_loop" /\ UNCHANGED <<op, ssize, left>>
    BY <1>5 DEF W!SmartLoop, W!sfcVars, W!hist
  <2>2. CASE wrPc' \in {"sm_next", "page", "sm_erase"}
    BY <2>1, <2>2, StageMovesOn DEF Stage
  <2>3. wrPc' \in {"idle", "sm_next", "page", "sm_erase"}
    BY <1>5 DEF W!SmartLoop, W!EnterWrite, W!Return, W!flash_smart_comp
  <2>4. QED
    BY <2>1, <2>2, <2>3, ReturnMovesOn
<1>6. CASE W!SmartErase
  <2>1. wrPc = "sm_erase" /\ UNCHANGED <<op, ssize, left>>
    BY <1>6 DEF W!SmartErase, W!sfcVars, W!hist
  <2>2. wrPc' \in {"idle", "page"}
    BY <1>6 DEF W!SmartErase, W!EnterWrite, W!Return
  <2>3. CASE wrPc' = "page"
    BY <2>1, <2>3, StageMovesOn DEF Stage
  <2>4. QED
    BY <2>1, <2>2, <2>3, ReturnMovesOn
<1>7. CASE W!SmartNext
  <2>1. wrPc = "sm_next" /\ wrPc' = "sm_loop" /\ ssize' = ssize - W!SmartChunk /\ op' = op
    BY <1>7 DEF W!SmartNext, W!hist
  <2>2. op = "smart"
    BY <2>1 DEF WriteInv, WriteTypeOK, SmartLabels
  <2>3. sdst \in Nat /\ ssize \in Nat /\ ssize > 0
    BY <2>1, <2>2 DEF WriteInv, SmartOK
  <2>4. PICK c \in 1 .. ssize : ssize' = ssize - c
    BY <2>1, <2>3, SmartFits
  <2>5. QED BY <2>1, <2>2, <2>3, <2>4 DEF MovesOn, Ahead
<1>8. CASE W!Ingress
  <2>1. wrPc = "ingress" /\ op = "sfc" /\ op' = op
    BY <1>8 DEF W!Ingress, W!hist, WriteInv, WriteTypeOK
  <2>2. left \in Nat
    BY <2>1 DEF WriteInv, SfcOK
  <2>3. ASSUME NEW n \in 1 .. W!Least(left, Window), left' = left - n
        PROVE  MovesOn
    <3>1. n \in 1 .. left
      BY <2>2, Sizes DEF W!Least
    <3>2. Ahead = left /\ Ahead' \in {0, left - n}
      BY <2>1, <2>3 DEF Ahead
    <3>3. QED BY <2>2, <3>1, <3>2 DEF MovesOn
  <2>4. QED
    BY <1>8, <2>1, <2>3, ReturnMovesOn DEF W!Ingress, W!Return
<1>9. QED
  BY <1>1, <1>2, <1>3, <1>4, <1>5, <1>6, <1>7, <1>8 DEF WriteStep

\* flash_write(), flash_smart_write() and `sfc write` make no step in vain
\* either: each leaves less of the request or the input, or as much of it and
\* fewer stages or steps of the piece in hand, whatever the chip ignores and
\* wherever a page or a sector ends; and the chip gives none back.
THEOREM WriteMovesOn ==
  FlashSpec =>
    /\ [](Ahead \in Nat /\ Stage \in Nat /\ InHand \in Nat)
    /\ [][/\ WriteStep => MovesOn
          /\ W!ChipDone => UNCHANGED <<Ahead, Stage, InHand>>]_flashVars
<1>1. WriteInv => Ahead \in Nat /\ Stage \in Nat /\ InHand \in Nat
  BY WorkType
<1>2. WriteInv => (WriteStep => MovesOn)
  BY WriteStepMovesOn
<1>3. W!ChipDone => UNCHANGED <<Ahead, Stage, InHand>>
  BY DEF W!ChipDone, W!wvars, W!svars, W!sfcVars, W!hist, Ahead, Stage, InHand
<1>4. QED
  BY <1>1, <1>2, <1>3, AlwaysWriteInv, PTL

-----------------------------------------------------------------------------
(***************************************************************************)
(* The SPI controller and its chip.                                        *)
(***************************************************************************)
Names == {"none", "RDSR", "RDID", "WREN", "EN4B", "EX4B", "addressed"}
Widths == {"EN4B", "EX4B"}

\* Where the client is before it has sent the chip the width of its addresses,
\* before flash_init() has succeeded, and while a command runs.
Unsent == {"down", "id", "id_stat", "wait", "wait_stat", "rdid", "identify", "configure",
           "wren", "wren_sent", "wren_stat"}
Unopened == Unsent \union {"switch", "switched", "set_4b"}
Calling == {"id_stat", "wait_stat", "identify", "wren_sent", "wren_stat", "switched", "open",
            "protected"}

SfcTypeOK ==
  /\ setup \in Setups
  /\ sfcPc \in Unopened \union {"open", "protected", "closed", "gone", "fault"}
  /\ at \in {"none", "high", "low", "byte", "body", "end_high", "end_read"}
  /\ cmd \in [name : Names, addr : BOOLEAN] /\ sfcRc \in {"ok", "fail"}
  /\ stat \in [wip : BOOLEAN, wel : BOOLEAN] /\ mode4b \in BOOLEAN
  /\ ctl \in [mode : {"read", "high", "low"}, b4 : BOOLEAN] /\ ce \in BOOLEAN
  /\ sfcChip \in [b4 : BOOLEAN, wip : BOOLEAN, wel : BOOLEAN, latch : Names]
  /\ opened \in BOOLEAN /\ torn \in BOOLEAN /\ endLost \in BOOLEAN /\ wrenLost \in BOOLEAN

\* A command byte is only sent once CE# has been raised and dropped; between
\* commands the controller is in read mode, unless ending the last one failed.
FramedOK ==
  /\ ~torn
  /\ at = "low" => sfcChip.latch = "none"
  /\ at = "byte" => ctl.mode = "low" /\ sfcChip.latch = "none"
  /\ at = "none" /\ ~endLost => ctl.mode = "read" /\ sfcChip.latch = "none"
  /\ at # "none" => sfcPc \in Calling /\ got = "none"

\* A chip that insists on a write enable has it when the width is sent.
Enabled4B == setup.needsWel => sfcChip.wel

\* The width that the driver has set is the width the chip will have.
SwitchOK ==
  /\ sfcChip.wel => ~setup.dull
  /\ sfcPc \in Unsent =>
       /\ cmd.name \notin Widths /\ sfcChip.latch \notin Widths /\ sfcChip.b4 = setup.was4b
       /\ (stat.wel => sfcChip.wel) /\ ~wrenLost
  /\ sfcPc = "switch" => sfcChip.latch \notin Widths /\ (~wrenLost => Enabled4B)
  /\ sfcPc = "switched" => cmd.name = IF setup.big THEN "EN4B" ELSE "EX4B"
  /\ sfcPc = "switched" /\ ~wrenLost =>
       /\ at \in {"high", "low", "byte"} => Enabled4B /\ sfcChip.latch \notin Widths
       /\ at = "body" => Enabled4B /\ sfcChip.latch = cmd.name
       /\ at \in {"end_high", "end_read", "none"} /\ sfcRc = "ok" =>
            S!Executed.b4 = setup.big
  /\ sfcPc = "set_4b" /\ ~wrenLost => S!Executed.b4 = setup.big

\* Before flash_init() has succeeded the driver uses three bytes; after it,
\* everybody the right number.  sfc_set_4b() does not touch an FMC with a small
\* chip, whatever it was left with.
WidthOK ==
  /\ sfcPc \in Unopened => ~mode4b /\ ce = setup.was4b
  /\ opened => sfcPc \in {"open", "protected", "closed", "gone"}
  /\ sfcPc \in {"open", "protected"} => opened /\ (at # "none" => cmd.name = "addressed")
  /\ opened /\ (setup.type = "FMC" /\ ~setup.big => ~setup.was4b) =>
       mode4b = setup.big /\ S!HwWidth = setup.big /\ (~wrenLost => S!Executed.b4 = setup.big)

SfcInv ==
  /\ SfcTypeOK /\ FramedOK /\ SwitchOK /\ WidthOK
  /\ (setup.type = "FMC" /\ ~setup.big => ~setup.was4b) =>
       (got = "garbage" => endLost \/ wrenLost)

\* What the chip is when CE# has risen: it has carried the command out.
ExecutedOK ==
  /\ S!Executed \in [b4 : BOOLEAN, wip : BOOLEAN, wel : BOOLEAN, latch : Names]
  /\ S!Executed.latch = "none"
  /\ S!Executed.wel => sfcChip.wel \/ ~setup.dull
  /\ sfcChip.latch \notin Widths =>
       S!Executed.b4 = sfcChip.b4 /\ (sfcChip.wel /\ ~setup.dull => S!Executed.wel)
  /\ sfcChip.latch \in Widths /\ Enabled4B => S!Executed.b4 = (sfcChip.latch = "EN4B")

\* An executed command is of the right type and has the effect above.
LEMMA Executes == SfcTypeOK => ExecutedOK
<1> SUFFICES ASSUME SfcTypeOK PROVE ExecutedOK
  OBVIOUS
<1> DEFINE on == ~setup.needsWel \/ sfcChip.wel
<1>1. /\ sfcChip \in [b4 : BOOLEAN, wip : BOOLEAN, wel : BOOLEAN, latch : Names]
      /\ setup.dull \in BOOLEAN /\ setup.needsWel \in BOOLEAN
  BY FlashAssumption DEF SfcTypeOK, S!SfcAssumption, S!AllSetups
<1>2. CASE sfcChip.latch = "WREN"
  <2>1. S!Executed = [sfcChip EXCEPT !.latch = "none", !.wel = ~setup.dull]
    BY <1>2 DEF S!Executed
  <2>2. QED
    BY <1>1, <1>2, <2>1 DEF ExecutedOK, Names, Widths
<1>3. CASE sfcChip.latch = "EN4B" /\ on
  <2>1. S!Executed = [sfcChip EXCEPT !.latch = "none", !.wel = FALSE, !.b4 = TRUE]
    BY <1>3 DEF S!Executed
  <2>2. QED
    BY <1>1, <1>3, <2>1 DEF ExecutedOK, Names, Widths
<1>4. CASE sfcChip.latch = "EX4B" /\ on
  <2>1. S!Executed = [sfcChip EXCEPT !.latch = "none", !.wel = FALSE, !.b4 = FALSE]
    BY <1>4 DEF S!Executed
  <2>2. QED
    BY <1>1, <1>4, <2>1 DEF ExecutedOK, Names, Widths
<1>5. CASE sfcChip.latch # "WREN" /\ ~(sfcChip.latch \in Widths /\ on)
  <2>1. S!Executed = [sfcChip EXCEPT !.latch = "none"]
    BY <1>5 DEF S!Executed, Widths
  <2>2. QED
    BY <1>1, <1>5, <2>1 DEF ExecutedOK, Names, Widths, Enabled4B
<1>6. QED
  BY <1>2, <1>3, <1>4, <1>5 DEF Widths

\* The same, a step later.
LEMMA ExecutesNext == SfcTypeOK' => ExecutedOK'
BY Executes, PTL

\* A write of the control register leaves the chip on its way, or lets it
\* carry out what it latched.
LEMMA Pulse ==
  ASSUME SfcTypeOK, SfcTypeOK', setup' = setup, sfcChip' = sfcChip \/ sfcChip' = S!Executed
  PROVE  /\ S!Executed'.b4 = S!Executed.b4
         /\ sfcChip'.latch \in {sfcChip.latch, "none"}
         /\ sfcChip'.wel => sfcChip.wel \/ ~setup.dull
         /\ sfcChip.latch \notin Widths =>
              sfcChip'.b4 = sfcChip.b4 /\ (sfcChip.wel /\ ~setup.dull => sfcChip'.wel)
<1>1. ExecutedOK /\ ExecutedOK'
  BY Executes, ExecutesNext
<1>2. CASE sfcChip' = sfcChip
  <2>1. S!Executed' = S!Executed
    BY <1>2 DEF S!Executed
  <2>2. QED
    BY <1>2, <2>1
<1>3. CASE sfcChip' = S!Executed
  BY <1>1, <1>3 DEF ExecutedOK, Widths
<1>4. QED
  BY <1>2, <1>3

\* What the controller did while a command ran keeps the width, as long as the
\* control register is written with the width of the driver.
LEMMA Pulses ==
  ASSUME SfcInv, SfcTypeOK', FramedOK', at # "none", at' # "body",
         UNCHANGED <<setup, sfcPc, cmd, stat, mode4b, ce, got, opened, wrenLost>>,
         sfcChip' = sfcChip \/ sfcChip' = S!Executed,
         ctl' = ctl \/ ctl'.b4 = mode4b,
         at' \in {"high", "low", "byte"} => at \in {"high", "low", "byte"},
         at' \in {"end_high", "end_read", "none"} /\ sfcRc' = "ok" =>
           at \in {"end_high", "end_read", "none"} /\ sfcRc = "ok"
  PROVE  SfcInv'
<1>1. SfcTypeOK /\ FramedOK /\ SwitchOK /\ WidthOK
  BY DEF SfcInv
<1>2. /\ S!Executed'.b4 = S!Executed.b4
      /\ sfcChip'.latch \in {sfcChip.latch, "none"}
      /\ sfcChip'.wel => sfcChip.wel \/ ~setup.dull
      /\ sfcChip.latch \notin Widths =>
           sfcChip'.b4 = sfcChip.b4 /\ (sfcChip.wel /\ ~setup.dull => sfcChip'.wel)
  BY <1>1, Pulse
<1>3. "none" \notin Widths
  BY DEF Widths
<1>4. sfcChip.latch \notin Widths =>
        /\ sfcChip'.latch \notin Widths /\ (Enabled4B => Enabled4B')
        /\ (stat.wel => sfcChip.wel) => (stat.wel => sfcChip'.wel)
  BY <1>1, <1>2, <1>3 DEF SwitchOK, Enabled4B
<1>5. SwitchOK'
  BY <1>1, <1>2, <1>3, <1>4 DEF SwitchOK, Enabled4B, Unsent
<1>6. WidthOK'
  BY <1>1, <1>2 DEF WidthOK, S!HwWidth
<1>7. got' = "none"
  BY <1>1 DEF FramedOK
<1>8. QED
  BY <1>5, <1>6, <1>7 DEF SfcInv

\* CE# is raised, so that the chip drops or carries out what it had latched.
LEMMA StartHighStep ==
  ASSUME SfcInv, S!StartHigh
  PROVE  SfcInv'
<1>1. SfcTypeOK /\ FramedOK /\ ExecutedOK
  BY Executes DEF SfcInv
<1>2. /\ at = "high" /\ \/ at' = "low" /\ S!CtlWrite("high", mode4b) /\ sfcRc' = sfcRc
                        \/ at' = "end_high" /\ sfcRc' = "fail" /\ S!CtlLost("high", mode4b)
      /\ UNCHANGED <<setup, sfcPc, cmd, stat, mode4b, ce, got, opened, wrenLost, torn, endLost>>
  BY DEF S!StartHigh, S!Step, S!Bail, S!Keep, S!drv
<1>3. /\ sfcChip' = sfcChip \/ sfcChip' = S!Executed
      /\ ctl' = ctl \/ ctl' = [mode |-> "high", b4 |-> mode4b]
      /\ at' = "low" => sfcChip' = S!Executed
  BY <1>2 DEF S!CtlWrite, S!CtlLost
<1>4. SfcTypeOK'
  BY <1>1, <1>2, <1>3 DEF SfcTypeOK, ExecutedOK
<1>5. FramedOK'
  BY <1>1, <1>2, <1>3 DEF FramedOK, ExecutedOK
<1>6. ctl' = ctl \/ ctl'.b4 = mode4b
  BY <1>3
<1>7. QED
  BY <1>2, <1>3, <1>4, <1>5, <1>6, Pulses

\* CE# falls: the chip is selected and has latched nothing.
LEMMA StartLowStep ==
  ASSUME SfcInv, S!StartLow
  PROVE  SfcInv'
<1>1. SfcTypeOK /\ FramedOK
  BY DEF SfcInv
<1>2. /\ at = "low" /\ \/ at' = "byte" /\ S!CtlWrite("low", mode4b) /\ sfcRc' = sfcRc
                       \/ at' = "end_high" /\ sfcRc' = "fail" /\ S!CtlLost("low", mode4b)
      /\ UNCHANGED <<setup, sfcPc, cmd, stat, mode4b, ce, got, opened, wrenLost, torn, endLost>>
  BY DEF S!StartLow, S!Step, S!Bail, S!Keep, S!drv
<1>3. /\ sfcChip' = sfcChip
      /\ ctl' = ctl \/ ctl' = [mode |-> "low", b4 |-> mode4b]
      /\ at' = "byte" => ctl' = [mode |-> "low", b4 |-> mode4b]
  BY <1>2 DEF S!CtlWrite, S!CtlLost
<1>4. SfcTypeOK'
  BY <1>1, <1>2, <1>3 DEF SfcTypeOK
<1>5. FramedOK'
  BY <1>1, <1>2, <1>3 DEF FramedOK
<1>6. ctl' = ctl \/ ctl'.b4 = mode4b
  BY <1>3
<1>7. QED
  BY <1>2, <1>3, <1>4, <1>5, <1>6, Pulses

\* CE# rises and the chip carries the command out, or the register write fails.
LEMMA EndHighStep ==
  ASSUME SfcInv, S!EndHigh
  PROVE  SfcInv'
<1>1. SfcTypeOK /\ FramedOK /\ ExecutedOK
  BY Executes DEF SfcInv
<1>2. /\ at = "end_high" /\ sfcRc' = sfcRc
      /\ \/ at' = "end_read" /\ S!CtlWrite("high", mode4b) /\ endLost' = endLost
         \/ at' = "none" /\ S!CtlLost("high", mode4b) /\ endLost' = TRUE
      /\ UNCHANGED <<setup, sfcPc, cmd, stat, mode4b, ce, got, opened, wrenLost, torn>>
  BY DEF S!EndHigh, S!Step, S!Keep, S!drv
<1>3. /\ sfcChip' = sfcChip \/ sfcChip' = S!Executed
      /\ ctl' = ctl \/ ctl' = [mode |-> "high", b4 |-> mode4b]
  BY <1>2 DEF S!CtlWrite, S!CtlLost
<1>4. SfcTypeOK'
  <2>1. endLost' \in BOOLEAN
    BY <1>1, <1>2 DEF SfcTypeOK
  <2>2. QED
    BY <1>1, <1>2, <1>3, <2>1 DEF SfcTypeOK, ExecutedOK
<1>5. FramedOK'
  BY <1>1, <1>2 DEF FramedOK
<1>6. ctl' = ctl \/ ctl'.b4 = mode4b
  BY <1>3
<1>7. QED
  BY <1>2, <1>3, <1>4, <1>5, <1>6, Pulses

\* The controller goes back to read mode, or the failure is on record.
LEMMA EndReadStep ==
  ASSUME SfcInv, S!EndRead
  PROVE  SfcInv'
<1>1. SfcTypeOK /\ FramedOK /\ ExecutedOK
  BY Executes DEF SfcInv
<1>2. /\ at = "end_read" /\ at' = "none" /\ sfcRc' = sfcRc
      /\ \/ S!CtlWrite("read", mode4b) /\ endLost' = FALSE
         \/ S!CtlLost("read", mode4b) /\ endLost' = TRUE
      /\ UNCHANGED <<setup, sfcPc, cmd, stat, mode4b, ce, got, opened, wrenLost, torn>>
  BY DEF S!EndRead, S!Step, S!Keep, S!drv
<1>3. /\ sfcChip' = sfcChip \/ sfcChip' = S!Executed
      /\ ctl' = ctl \/ ctl' = [mode |-> "read", b4 |-> mode4b]
      /\ ~endLost' => sfcChip' = S!Executed /\ ctl' = [mode |-> "read", b4 |-> mode4b]
  BY <1>2 DEF S!CtlWrite, S!CtlLost
<1>4. SfcTypeOK'
  <2>1. endLost' \in BOOLEAN
    BY <1>1, <1>2 DEF SfcTypeOK
  <2>2. QED
    BY <1>1, <1>2, <1>3, <2>1 DEF SfcTypeOK, ExecutedOK
<1>5. FramedOK'
  BY <1>1, <1>2, <1>3 DEF FramedOK, ExecutedOK
<1>6. ctl' = ctl \/ ctl'.b4 = mode4b
  BY <1>3
<1>7. QED
  BY <1>2, <1>3, <1>4, <1>5, <1>6, Pulses

\* The chip latches the command.
LEMMA StartByteStep ==
  ASSUME SfcInv, S!StartByte
  PROVE  SfcInv'
<1>1. SfcTypeOK /\ FramedOK /\ SwitchOK /\ WidthOK /\ ExecutedOK
  BY Executes DEF SfcInv
<1>2. /\ at = "byte"
      /\ \/ at' = "body" /\ sfcRc' = sfcRc
              /\ sfcChip' = [sfcChip EXCEPT !.latch = cmd.name]
              /\ torn' = (torn \/ ctl.mode # "low" \/ sfcChip.latch # "none")
         \/ at' = "end_high" /\ sfcRc' = "fail"
              /\ \/ /\ sfcChip' = [sfcChip EXCEPT !.latch = cmd.name]
                    /\ torn' = (torn \/ ctl.mode # "low" \/ sfcChip.latch # "none")
                 \/ UNCHANGED <<sfcChip, torn>>
      /\ UNCHANGED <<setup, sfcPc, cmd, stat, mode4b, ce, got, opened, wrenLost, ctl, endLost>>
  BY DEF S!StartByte, S!Step, S!Bail, S!Keep, S!drv
<1>3. sfcChip.latch = "none" /\ ctl.mode = "low" /\ ~torn' /\ sfcPc \in Calling /\ got = "none"
  <2>1. sfcChip.latch = "none" /\ ctl.mode = "low" /\ ~torn /\ sfcPc \in Calling /\ got = "none"
    BY <1>1, <1>2 DEF FramedOK
  <2>2. ~(torn \/ ctl.mode # "low" \/ sfcChip.latch # "none")
    BY <2>1
  <2>3. torn' = torn \/ torn' = (torn \/ ctl.mode # "low" \/ sfcChip.latch # "none")
    BY <1>2
  <2>4. ~torn'
    BY <2>1, <2>2, <2>3, Zenon
  <2>5. QED
    BY <2>1, <2>4
<1>4. /\ sfcChip'.b4 = sfcChip.b4 /\ sfcChip'.wel = sfcChip.wel
      /\ sfcChip'.latch = cmd.name \/ sfcChip'.latch = "none"
      /\ at' = "body" => sfcChip'.latch = cmd.name
      /\ sfcChip' \in [b4 : BOOLEAN, wip : BOOLEAN, wel : BOOLEAN, latch : Names]
  BY <1>1, <1>2, <1>3 DEF SfcTypeOK
<1>5. SfcTypeOK'
  BY <1>1, <1>2, <1>3, <1>4 DEF SfcTypeOK
<1>6. FramedOK'
  BY <1>1, <1>2, <1>3 DEF FramedOK
<1>7. "none" \notin Widths /\ "addressed" \notin Widths
  BY DEF Widths
<1>8. SwitchOK'
  BY <1>1, <1>2, <1>3, <1>4, <1>7 DEF SwitchOK, Enabled4B, Unsent, Calling
<1>9. S!Executed.b4 = sfcChip.b4
  BY <1>1, <1>3, <1>7 DEF ExecutedOK
<1>10. cmd.name \notin Widths => S!Executed'.b4 = sfcChip.b4
  <2>1. ExecutedOK'
    BY <1>5, ExecutesNext
  <2>2. QED
    BY <1>4, <1>7, <2>1 DEF ExecutedOK
<1>11. opened => cmd.name \notin Widths
  BY <1>1, <1>2, <1>3, <1>7 DEF WidthOK, Calling
<1>12. WidthOK'
  BY <1>1, <1>2, <1>3, <1>9, <1>10, <1>11 DEF WidthOK, S!HwWidth
<1>13. QED
  BY <1>2, <1>3, <1>5, <1>6, <1>8, <1>12 DEF SfcInv

\* The data of the command is moved, or that fails.
LEMMA BodyStep ==
  ASSUME SfcInv, S!Body
  PROVE  SfcInv'
<1>1. SfcTypeOK /\ FramedOK /\ SwitchOK /\ WidthOK /\ ExecutedOK
  BY Executes DEF SfcInv
<1>2. /\ at = "body" /\ at' = "end_high"
      /\ \/ sfcRc' = "ok" /\ stat' = IF cmd.name = "RDSR"
                                       THEN [wip |-> sfcChip.wip, wel |-> sfcChip.wel] ELSE stat
         \/ sfcRc' = "fail" /\ stat' = stat
      /\ UNCHANGED <<setup, sfcPc, cmd, mode4b, ce, got, opened, wrenLost, ctl, sfcChip, torn,
                     endLost>>
  BY DEF S!Body, S!Bail, S!Keep, S!drv
<1>3. sfcPc \in Calling /\ got = "none"
  BY <1>1, <1>2 DEF FramedOK
<1>4. /\ stat' \in [wip : BOOLEAN, wel : BOOLEAN]
      /\ (stat.wel => sfcChip.wel) => (stat'.wel => sfcChip.wel)
  BY <1>1, <1>2 DEF SfcTypeOK
<1>5. SfcTypeOK'
  BY <1>1, <1>2, <1>4 DEF SfcTypeOK
<1>6. FramedOK'
  BY <1>1, <1>2, <1>3 DEF FramedOK
<1>7. S!Executed' = S!Executed
  BY <1>2 DEF S!Executed
<1>8. setup.big \in BOOLEAN
  BY <1>1, FlashAssumption DEF SfcTypeOK, S!SfcAssumption, S!AllSetups
<1>9. sfcPc = "switched" /\ ~wrenLost => S!Executed.b4 = setup.big
  <2>1. SUFFICES ASSUME sfcPc = "switched", ~wrenLost
                 PROVE  S!Executed.b4 = setup.big
    OBVIOUS
  <2>2. Enabled4B /\ sfcChip.latch = cmd.name
        /\ cmd.name = IF setup.big THEN "EN4B" ELSE "EX4B"
    BY <1>1, <1>2, <2>1 DEF SwitchOK
  <2>3. S!Executed.b4 = (sfcChip.latch = "EN4B")
    BY <1>1, <2>2 DEF ExecutedOK, Widths
  <2>4. QED
    BY <1>8, <2>2, <2>3
<1>10. SwitchOK'
  BY <1>1, <1>2, <1>3, <1>4, <1>7, <1>9 DEF SwitchOK, Enabled4B, Unsent, Calling
<1>11. WidthOK'
  BY <1>1, <1>2, <1>7 DEF WidthOK, S!HwWidth
<1>12. QED
  BY <1>2, <1>3, <1>5, <1>6, <1>10, <1>11 DEF SfcInv

\* A client that calls the driver leaves the hardware alone until the command
\* starts.
LEMMA CallStep ==
  ASSUME SfcInv, NEW n \in Names, NEW a \in BOOLEAN, NEW l \in Calling, S!Call(n, a, l),
         UNCHANGED <<setup, sfcRc, stat, mode4b, ctl, ce, sfcChip, opened, torn, endLost,
                     wrenLost>>,
         \/ sfcPc \in Unsent /\ l \in Unsent /\ n \notin Widths
         \/ sfcPc = "switch" /\ l = "switched" /\ n = IF setup.big THEN "EN4B" ELSE "EX4B"
         \/ sfcPc \in {"open", "protected"} /\ l = sfcPc /\ n = "addressed"
  PROVE  SfcInv'
<1>1. SfcTypeOK /\ FramedOK /\ SwitchOK /\ WidthOK
  BY DEF SfcInv
<1>2. at = "none" /\ at' = "high" /\ cmd' = [name |-> n, addr |-> a] /\ sfcPc' = l
      /\ got' = "none"
  BY DEF S!Call, S!Command
<1>3. S!Executed' = S!Executed
  BY DEF S!Executed
<1>4. SfcTypeOK'
  BY <1>1, <1>2 DEF SfcTypeOK, Calling, Unopened, Unsent
<1>5. FramedOK'
  BY <1>1, <1>2 DEF FramedOK
<1>6. SwitchOK'
  BY <1>1, <1>2, <1>3 DEF SwitchOK, Enabled4B, Unsent, Calling
<1>7. WidthOK'
  BY <1>1, <1>2, <1>3 DEF WidthOK, S!HwWidth, Unopened, Unsent
<1>8. QED
  BY <1>2, <1>4, <1>5, <1>6, <1>7 DEF SfcInv

\* A client that goes on, between two calls, leaves the hardware alone.
LEMMA GotoStep ==
  ASSUME SfcInv, NEW l, sfcPc' = l, at = "none",
         UNCHANGED <<setup, at, cmd, sfcRc, stat, mode4b, ctl, ce, sfcChip, got, opened, torn,
                     endLost>>,
         wrenLost' \in BOOLEAN, wrenLost => wrenLost',
         \/ sfcPc \in Unsent /\ l \in Unsent /\ ~wrenLost'
         \/ sfcPc \in Unsent /\ l = "switch" /\ (~wrenLost' => Enabled4B)
         \/ sfcPc \in Unsent /\ l = "set_4b" /\ ~setup.big /\ ~setup.was4b
         \/ sfcPc = "switched" /\ l = "set_4b" /\ sfcRc = "ok"
         \/ sfcPc \in Unsent /\ l = "fault"
         \/ l = "closed"
  PROVE  SfcInv'
<1>1. SfcTypeOK /\ FramedOK /\ SwitchOK /\ WidthOK /\ ExecutedOK
  BY Executes DEF SfcInv
<1>2. S!Executed' = S!Executed
  BY DEF S!Executed
<1>3. SfcTypeOK'
  BY <1>1 DEF SfcTypeOK, Unopened, Unsent
<1>4. FramedOK'
  BY <1>1 DEF FramedOK
<1>5. setup.big \in BOOLEAN /\ setup.was4b \in BOOLEAN /\ sfcChip.b4 \in BOOLEAN
      /\ S!Executed.b4 \in BOOLEAN
  BY <1>1, FlashAssumption DEF SfcTypeOK, S!SfcAssumption, S!AllSetups, ExecutedOK
<1>6. sfcPc \in Unsent => S!Executed.b4 = setup.was4b
  BY <1>1 DEF SwitchOK, ExecutedOK
<1>7. SwitchOK'
  BY <1>1, <1>2, <1>5, <1>6 DEF SwitchOK, Enabled4B, Unsent
<1>8. WidthOK'
  BY <1>1, <1>2 DEF WidthOK, S!HwWidth, Unopened, Unsent
<1>9. QED
  BY <1>3, <1>4, <1>7, <1>8 DEF SfcInv

\* The driver puts the controller in read mode, with three bytes of address.
LEMMA DriverInitStep ==
  ASSUME SfcInv, S!sfc_driver_init
  PROVE  SfcInv'
<1>1. SfcTypeOK /\ FramedOK /\ SwitchOK /\ WidthOK /\ ExecutedOK
  BY Executes DEF SfcInv
<1>2. /\ sfcPc = "down" /\ sfcPc' \in {"id", "gone"}
      /\ S!CtlLost("read", FALSE)
      /\ UNCHANGED <<setup, at, cmd, sfcRc, stat, mode4b, ce, got, opened, torn, endLost,
                     wrenLost>>
  <2>1. sfcPc = "down" /\ mode4b' = FALSE /\ sfcPc' \in {"id", "gone"}
        /\ S!CtlLost("read", FALSE)
        /\ UNCHANGED <<setup, at, cmd, sfcRc, stat, ce, got, opened, torn, endLost, wrenLost>>
    BY DEF S!sfc_driver_init, S!sfc_init_device, S!CtlLost, S!call, S!hist
  <2>2. mode4b = FALSE
    BY <1>1, <2>1 DEF WidthOK, Unopened, Unsent, SfcTypeOK
  <2>3. QED
    BY <2>1, <2>2
<1>3. at = "none" /\ ~opened
  BY <1>1, <1>2 DEF FramedOK, WidthOK, SfcTypeOK, Calling
<1>4. \/ UNCHANGED <<ctl, sfcChip>>
      \/ ctl' = [mode |-> "read", b4 |-> FALSE] /\ sfcChip' = S!Executed
  BY <1>2 DEF S!CtlLost, S!CtlWrite
<1>5. SfcTypeOK'
  <2>1. ctl' \in [mode : {"read", "high", "low"}, b4 : BOOLEAN]
    <3>1. [mode |-> "read", b4 |-> FALSE] \in [mode : {"read", "high", "low"}, b4 : BOOLEAN]
      OBVIOUS
    <3>2. QED
      BY <1>1, <1>4, <3>1 DEF SfcTypeOK
  <2>2. sfcChip' \in [b4 : BOOLEAN, wip : BOOLEAN, wel : BOOLEAN, latch : Names]
    BY <1>1, <1>4 DEF SfcTypeOK, ExecutedOK
  <2>3. QED
    BY <1>1, <1>2, <2>1, <2>2 DEF SfcTypeOK, Unopened, Unsent
<1>6. FramedOK'
  BY <1>1, <1>2, <1>3, <1>4 DEF FramedOK, ExecutedOK
<1>7. /\ sfcChip'.latch \in {sfcChip.latch, "none"}
      /\ sfcChip'.wel => sfcChip.wel \/ ~setup.dull
      /\ sfcChip.latch \notin Widths =>
           sfcChip'.b4 = sfcChip.b4 /\ (sfcChip.wel /\ ~setup.dull => sfcChip'.wel)
  BY <1>1, <1>2, <1>4, <1>5, Pulse
<1>8. SwitchOK'
  BY <1>1, <1>2, <1>7 DEF SwitchOK, Unsent, Widths
<1>9. WidthOK'
  BY <1>1, <1>2, <1>3 DEF WidthOK, Unopened, Unsent
<1>10. QED
  BY <1>1, <1>2, <1>5, <1>6, <1>8, <1>9 DEF SfcInv

\* The driver and the controller take the width that the chip was given.
LEMMA Set4bStep ==
  ASSUME SfcInv, S!sfc_set_4b
  PROVE  SfcInv'
<1>1. SfcTypeOK /\ FramedOK /\ SwitchOK /\ WidthOK /\ ExecutedOK
  BY Executes DEF SfcInv
<1>2. /\ sfcPc = "set_4b"
      /\ UNCHANGED <<setup, at, cmd, sfcRc, stat, got, torn, endLost, wrenLost>>
  BY DEF S!sfc_set_4b, S!call
<1>3. at = "none" /\ ~opened /\ ~mode4b /\ ce = setup.was4b
  BY <1>1, <1>2 DEF FramedOK, WidthOK, Calling, Unopened
<1>4. setup.big \in BOOLEAN /\ setup.was4b \in BOOLEAN /\ setup.type \in {"FMC", "SMC"}
  BY <1>1, FlashAssumption DEF SfcTypeOK, S!SfcAssumption, S!AllSetups
<1>5. \/ UNCHANGED <<ctl, sfcChip>>
      \/ ctl' = [mode |-> "read", b4 |-> setup.big] /\ sfcChip' = S!Executed
  BY DEF S!sfc_set_4b, S!CtlLost, S!CtlWrite, S!Enable
<1>6. mode4b' \in {mode4b, setup.big} /\ ce' \in {ce, setup.big}
      /\ (S!Opens \/ S!Fails)
  BY DEF S!sfc_set_4b, S!Enable
<1>7. SfcTypeOK'
  <2>1. mode4b' \in BOOLEAN /\ ce' \in BOOLEAN /\ opened' \in BOOLEAN
    BY <1>1, <1>4, <1>6 DEF SfcTypeOK, S!Opens, S!Fails
  <2>2. sfcPc' \in {"open", "closed"}
    BY <1>6 DEF S!Opens, S!Fails
  <2>3. QED
    BY <1>1, <1>2, <1>4, <1>5, <2>1, <2>2 DEF SfcTypeOK, ExecutedOK
<1>8. FramedOK'
  BY <1>1, <1>2, <1>3, <1>5 DEF FramedOK, ExecutedOK
<1>9. S!Executed'.b4 = S!Executed.b4 /\ (sfcChip'.wel => sfcChip.wel \/ ~setup.dull)
  BY <1>1, <1>2, <1>5, <1>7, Pulse
<1>10. SwitchOK'
  BY <1>1, <1>2, <1>6, <1>9 DEF SwitchOK, S!Opens, S!Fails, Unsent
<1>11. CASE S!Fails
  <2>1. sfcPc' = "closed" /\ ~opened'
    BY <1>3, <1>11 DEF S!Fails
  <2>2. WidthOK'
    BY <2>1 DEF WidthOK, Unopened, Unsent
  <2>3. QED
    BY <1>1, <1>2, <1>7, <1>8, <1>10, <2>2 DEF SfcInv
<1>12. CASE S!Opens
  <2>1. sfcPc' = "open" /\ opened'
    BY <1>12 DEF S!Opens
  <2>2. \/ setup.type = "FMC" /\ ~setup.big /\ UNCHANGED <<mode4b, ce>>
        \/ mode4b' = setup.big /\ ctl' = [mode |-> "read", b4 |-> setup.big]
             /\ ce' = IF setup.type = "FMC" THEN setup.big ELSE ce
    BY <2>1 DEF S!sfc_set_4b, S!Fails, S!CtlWrite, S!Enable
  <2>3. ASSUME setup.type = "FMC" /\ ~setup.big => ~setup.was4b
        PROVE  mode4b' = setup.big /\ S!HwWidth' = setup.big
    <3>1. CASE setup.type = "FMC" /\ ~setup.big /\ UNCHANGED <<mode4b, ce>>
      <4>1. mode4b' = FALSE /\ ce' = FALSE /\ setup.big = FALSE
        BY <1>1, <1>3, <1>4, <2>3, <3>1 DEF SfcTypeOK
      <4>2. QED
        BY <1>2, <3>1, <4>1 DEF S!HwWidth
    <3>2. CASE mode4b' = setup.big /\ ctl' = [mode |-> "read", b4 |-> setup.big]
                 /\ ce' = IF setup.type = "FMC" THEN setup.big ELSE ce
      BY <1>2, <3>2 DEF S!HwWidth
    <3>3. QED
      BY <2>2, <3>1, <3>2
  <2>4. ~wrenLost => S!Executed'.b4 = setup.big
    BY <1>1, <1>2, <1>9 DEF SwitchOK
  <2>5. WidthOK'
    BY <1>2, <1>3, <2>1, <2>3, <2>4 DEF WidthOK, Unopened, Unsent
  <2>6. QED
    BY <1>1, <1>2, <1>7, <1>8, <1>10, <2>5 DEF SfcInv
<1>13. QED
  BY <1>6, <1>11, <1>12

\* The controller is in read mode, with the width of the chip, unless ending a
\* command or enabling writes has failed.
LEMMA DirectReadStep ==
  ASSUME SfcInv, S!sfc_direct_read
  PROVE  SfcInv'
<1>1. SfcTypeOK /\ FramedOK /\ SwitchOK /\ WidthOK /\ ExecutedOK
  BY Executes DEF SfcInv
<1>2. /\ sfcPc \in {"open", "protected"} /\ at = "none"
      /\ got' = IF ctl.mode = "read" /\ S!HwWidth = sfcChip.b4 THEN "data" ELSE "garbage"
      /\ UNCHANGED <<setup, sfcPc, at, cmd, sfcRc, stat, mode4b, ce, ctl, sfcChip, opened,
                     torn, endLost, wrenLost>>
  BY DEF S!sfc_direct_read, S!call, S!drv, S!hw, S!hist
<1>3. S!Executed' = S!Executed
  BY <1>2 DEF S!Executed
<1>4. SfcTypeOK' /\ FramedOK' /\ SwitchOK' /\ WidthOK'
  BY <1>1, <1>2, <1>3 DEF SfcTypeOK, FramedOK, SwitchOK, WidthOK, Enabled4B, S!HwWidth
<1>5. ASSUME setup.type = "FMC" /\ ~setup.big => ~setup.was4b, ~endLost, ~wrenLost
      PROVE  got' = "data"
  <2>1. ctl.mode = "read" /\ sfcChip.latch = "none"
    BY <1>1, <1>2, <1>5 DEF FramedOK
  <2>2. S!HwWidth = setup.big /\ S!Executed.b4 = setup.big
    BY <1>1, <1>2, <1>5 DEF WidthOK
  <2>3. sfcChip.b4 = setup.big
    BY <1>1, <2>1, <2>2 DEF ExecutedOK, Widths
  <2>4. QED
    BY <1>2, <2>1, <2>2, <2>3
<1>6. QED
  BY <1>2, <1>4, <1>5 DEF SfcInv

\* The write protection of the driver, and the end of a write in the chip,
\* change nothing that a command or a read depends on.
LEMMA AsideStep ==
  ASSUME SfcInv, S!WriteEnds \/ S!sfc_write_protect_save \/ S!sfc_write_protect_restore
  PROVE  SfcInv'
<1>1. SfcTypeOK /\ FramedOK /\ SwitchOK /\ WidthOK /\ ExecutedOK
  BY Executes DEF SfcInv
<1>2. CASE S!WriteEnds
  <2>1. sfcChip' = [sfcChip EXCEPT !.wip = FALSE]
        /\ UNCHANGED <<setup, sfcPc, at, cmd, sfcRc, stat, mode4b, ce, ctl, got, opened, torn,
                       endLost, wrenLost>>
    BY <1>2 DEF S!WriteEnds, S!call, S!drv, S!hist
  <2>2. sfcChip'.b4 = sfcChip.b4 /\ sfcChip'.wel = sfcChip.wel
        /\ sfcChip'.latch = sfcChip.latch
        /\ sfcChip' \in [b4 : BOOLEAN, wip : BOOLEAN, wel : BOOLEAN, latch : Names]
    BY <1>1, <2>1 DEF SfcTypeOK
  <2>3. SfcTypeOK' /\ FramedOK'
    BY <1>1, <2>1, <2>2 DEF SfcTypeOK, FramedOK
  <2>4. S!Executed'.b4 = S!Executed.b4
    BY <1>1, <2>1, <2>2 DEF S!Executed, SfcTypeOK
  <2>5. SwitchOK' /\ WidthOK'
    BY <1>1, <2>1, <2>2, <2>4 DEF SwitchOK, WidthOK, Enabled4B, S!HwWidth
  <2>6. QED
    BY <2>1, <2>3, <2>5 DEF SfcInv
<1>3. CASE S!sfc_write_protect_save \/ S!sfc_write_protect_restore
  <2>1. sfcPc \in {"open", "protected"} /\ sfcPc' \in {"protected", "closed"} /\ at = "none"
        /\ UNCHANGED <<setup, at, cmd, sfcRc, stat, mode4b, ce, ctl, sfcChip, got, opened,
                       torn, endLost, wrenLost>>
    BY <1>3 DEF S!sfc_write_protect_save, S!sfc_write_protect_restore, S!call, S!drv, S!hw,
       S!hist
  <2>2. S!Executed' = S!Executed
    BY <2>1 DEF S!Executed
  <2>3. SfcTypeOK' /\ FramedOK'
    BY <1>1, <2>1 DEF SfcTypeOK, FramedOK
  <2>4. SwitchOK' /\ WidthOK'
    BY <1>1, <2>1, <2>2 DEF SwitchOK, WidthOK, Enabled4B, S!HwWidth, Unopened, Unsent
  <2>5. QED
    BY <2>1, <2>3, <2>4 DEF SfcInv
<1>4. QED
  BY <1>2, <1>3

\* culvert leaves the controller in read mode, with the width of the driver.
LEMMA DestroyStep ==
  ASSUME SfcInv, S!sfc_driver_destroy
  PROVE  SfcInv'
<1>1. SfcTypeOK /\ FramedOK /\ SwitchOK /\ WidthOK /\ ExecutedOK
  BY Executes DEF SfcInv
<1>2. /\ sfcPc = "closed" /\ sfcPc' = "gone" /\ S!CtlLost("read", mode4b)
      /\ UNCHANGED <<setup, at, cmd, sfcRc, stat, mode4b, ce, got, opened, torn, endLost,
                     wrenLost>>
  BY DEF S!sfc_driver_destroy, S!call, S!drv, S!hist
<1>3. at = "none"
  BY <1>1, <1>2 DEF FramedOK, Calling
<1>4. \/ UNCHANGED <<ctl, sfcChip>>
      \/ ctl' = [mode |-> "read", b4 |-> mode4b] /\ sfcChip' = S!Executed
  BY <1>2 DEF S!CtlLost, S!CtlWrite
<1>5. SfcTypeOK'
  BY <1>1, <1>2, <1>4 DEF SfcTypeOK, ExecutedOK
<1>6. FramedOK'
  BY <1>1, <1>2, <1>3, <1>4 DEF FramedOK, ExecutedOK
<1>7. S!Executed'.b4 = S!Executed.b4 /\ (sfcChip'.wel => sfcChip.wel \/ ~setup.dull)
  BY <1>1, <1>2, <1>4, <1>5, Pulse
<1>8. SwitchOK'
  BY <1>1, <1>2, <1>7 DEF SwitchOK, Unsent
<1>9. WidthOK'
  BY <1>1, <1>2, <1>4, <1>7 DEF WidthOK, S!HwWidth, Unopened, Unsent
<1>10. QED
  BY <1>2, <1>5, <1>6, <1>8, <1>9 DEF SfcInv

\* The commands of the client.
LEMMA CallSteps ==
  ASSUME SfcInv,
         \/ S!ReadStatus \/ S!PollStatus \/ S!ReadId \/ S!Wren \/ S!Switch \/ S!Addressed
  PROVE  SfcInv'
<1>1. CASE S!ReadStatus
  <2>1. S!Call("RDSR", FALSE, "id_stat") /\ sfcPc = "id"
        /\ UNCHANGED <<setup, sfcRc, stat, mode4b, ctl, ce, sfcChip, opened, torn, endLost,
                       wrenLost>>
    BY <1>1 DEF S!ReadStatus, S!Quiet, S!drv, S!hw, S!hist
  <2>2. QED
    BY <2>1, CallStep DEF Names, Widths, Calling, Unsent
<1>2. CASE S!PollStatus
  <2>1. S!Call("RDSR", FALSE, "wait_stat") /\ sfcPc = "wait"
        /\ UNCHANGED <<setup, sfcRc, stat, mode4b, ctl, ce, sfcChip, opened, torn, endLost,
                       wrenLost>>
    BY <1>2 DEF S!PollStatus, S!Quiet, S!drv, S!hw, S!hist
  <2>2. QED
    BY <2>1, CallStep DEF Names, Widths, Calling, Unsent
<1>3. CASE S!ReadId
  <2>1. S!Call("RDID", FALSE, "identify") /\ sfcPc = "rdid"
        /\ UNCHANGED <<setup, sfcRc, stat, mode4b, ctl, ce, sfcChip, opened, torn, endLost,
                       wrenLost>>
    BY <1>3 DEF S!ReadId, S!Quiet, S!drv, S!hw, S!hist
  <2>2. QED
    BY <2>1, CallStep DEF Names, Widths, Calling, Unsent
<1>4. CASE S!Wren
  <2>1. S!Call("WREN", FALSE, "wren_sent") /\ sfcPc = "wren"
        /\ UNCHANGED <<setup, sfcRc, stat, mode4b, ctl, ce, sfcChip, opened, torn, endLost,
                       wrenLost>>
    BY <1>4 DEF S!Wren, S!hw, S!hist
  <2>2. QED
    BY <2>1, CallStep DEF Names, Widths, Calling, Unsent
<1>5. CASE S!Switch
  <2>1. PICK n \in Names : n = IF setup.big THEN "EN4B" ELSE "EX4B"
    BY DEF Names
  <2>2. S!Call(n, FALSE, "switched") /\ sfcPc = "switch"
        /\ UNCHANGED <<setup, sfcRc, stat, mode4b, ctl, ce, sfcChip, opened, torn, endLost,
                       wrenLost>>
    BY <1>5, <2>1 DEF S!Switch, S!Enable, S!Quiet, S!drv, S!hw, S!hist
  <2>3. QED
    BY <2>1, <2>2, CallStep DEF Calling
<1>6. CASE S!Addressed
  <2>1. PICK l : l = sfcPc
    OBVIOUS
  <2>2. S!Call("addressed", TRUE, l) /\ l \in {"open", "protected"}
        /\ UNCHANGED <<setup, sfcRc, stat, mode4b, ctl, ce, sfcChip, opened, torn, endLost,
                       wrenLost>>
    BY <1>6, <2>1 DEF S!Addressed, S!drv, S!hw, S!hist
  <2>3. QED
    BY <2>1, <2>2, CallStep DEF Names, Calling
<1>7. QED
  BY <1>1, <1>2, <1>3, <1>4, <1>5, <1>6

\* The steps of the client between its commands.
LEMMA GotoSteps ==
  ASSUME SfcInv,
         \/ S!Status \/ S!fl_sync_wait_idle \/ S!flash_identify \/ S!flash_configure
         \/ S!Switched \/ S!flash_destroy
  PROVE  SfcInv'
<1>1. SfcTypeOK /\ FramedOK /\ SwitchOK
  BY DEF SfcInv
<1>2. PICK l : l = sfcPc'
  OBVIOUS
<1>3. S!Goto(l) /\ UNCHANGED <<mode4b, opened, torn, endLost, wrenLost>>
  BY <1>2 DEF S!Status, S!fl_sync_wait_idle, S!flash_identify, S!flash_configure, S!Switched,
     S!flash_destroy, S!Goto, S!drv, S!hist
<1>4. sfcPc' = l
      /\ UNCHANGED <<setup, at, cmd, sfcRc, stat, mode4b, ctl, ce, sfcChip, got, opened, torn,
                     endLost, wrenLost>>
  BY <1>3 DEF S!Goto, S!call, S!hw
<1>5. at = "none"
  BY <1>1 DEF FramedOK, Calling, S!Status, S!fl_sync_wait_idle, S!flash_identify,
     S!flash_configure, S!Switched, S!flash_destroy
<1>6. setup.was4b => setup.can4b
  BY <1>1, FlashAssumption DEF SfcTypeOK, S!SfcAssumption
<1>7. wrenLost' \in BOOLEAN /\ (wrenLost => wrenLost') /\ (sfcPc \in Unsent => ~wrenLost')
  BY <1>1, <1>4 DEF SfcTypeOK, SwitchOK
<1>8. CASE S!Status \/ S!fl_sync_wait_idle \/ S!flash_identify
  <2>1. sfcPc \in Unsent /\ l \in Unsent \union {"fault", "closed"}
    BY <1>4, <1>8 DEF S!Status, S!fl_sync_wait_idle, S!flash_identify, S!Goto, Unsent
  <2>2. QED
    BY <1>4, <1>5, <1>7, <2>1, GotoStep
<1>9. CASE S!flash_configure
  <2>1. sfcPc \in Unsent
        /\ (l = "wren" \/ (l = "set_4b" /\ ~setup.big /\ ~setup.can4b))
    BY <1>4, <1>9 DEF S!flash_configure, S!Goto, Unsent
  <2>2. l = "wren" => l \in Unsent
    BY DEF Unsent
  <2>3. QED
    BY <1>4, <1>5, <1>6, <1>7, <2>1, <2>2, GotoStep
<1>10. CASE S!Switched
  <2>1. sfcPc = "switched" /\ ((l = "set_4b" /\ sfcRc = "ok") \/ l = "closed")
    BY <1>4, <1>10 DEF S!Switched, S!Goto
  <2>2. QED
    BY <1>4, <1>5, <1>7, <2>1, GotoStep
<1>11. CASE S!flash_destroy
  <2>1. l = "closed"
    BY <1>4, <1>11 DEF S!flash_destroy, S!Goto
  <2>2. QED
    BY <1>4, <1>5, <1>7, <2>1, GotoStep
<1>12. QED
  BY <1>8, <1>9, <1>10, <1>11

\* fl_wren() either sees the chip enabled, or the failure is on record.
LEMMA WrenSteps ==
  ASSUME SfcInv, S!WrenTimeout \/ S!WrenSent \/ S!WrenStat
  PROVE  SfcInv'
<1>1. SfcTypeOK /\ FramedOK /\ SwitchOK
  BY DEF SfcInv
<1>2. CASE S!WrenSent /\ S!Call("RDSR", FALSE, "wren_stat")
  <2>1. sfcPc = "wren_sent"
        /\ UNCHANGED <<setup, sfcRc, stat, mode4b, ctl, ce, sfcChip, opened, torn, endLost,
                       wrenLost>>
    BY <1>2 DEF S!WrenSent, S!Call, S!Goto, S!Quiet, S!drv, S!hw, S!hist
  <2>2. QED
    BY <1>2, <2>1, CallStep DEF Names, Widths, Calling, Unsent
<1>3. CASE ~(S!WrenSent /\ S!Call("RDSR", FALSE, "wren_stat"))
  <2>1. /\ at = "none" /\ sfcPc \in Unsent
        /\ \/ sfcPc' = "switch" /\ wrenLost' = TRUE
           \/ sfcPc' = "wren" /\ wrenLost' = FALSE
           \/ sfcPc' = "switch" /\ stat.wel
        /\ wrenLost' \in BOOLEAN
        /\ UNCHANGED <<setup, at, cmd, sfcRc, stat, mode4b, ctl, ce, sfcChip, got, opened,
                       torn, endLost>>
    <3>1. CASE S!WrenTimeout
      BY <1>1, <3>1 DEF S!WrenTimeout, S!Goto, S!call, S!hw, S!drv, FramedOK, Calling, Unsent
    <3>2. CASE S!WrenSent
      BY <1>3, <3>2 DEF S!WrenSent, S!Goto, S!call, S!hw, S!drv, Unsent
    <3>3. CASE S!WrenStat
      <4>1. /\ at = "none" /\ sfcPc = "wren_stat" /\ wrenLost' = (sfcRc = "fail")
            /\ sfcPc' = IF sfcRc = "ok" /\ ~stat.wel THEN "wren" ELSE "switch"
            /\ UNCHANGED <<setup, at, cmd, sfcRc, stat, mode4b, ctl, ce, sfcChip, got, opened,
                           torn, endLost>>
        BY <3>3 DEF S!WrenStat, S!Goto, S!call, S!hw, S!drv
      <4>2. sfcRc = "fail" => wrenLost' = TRUE
        BY <4>1
      <4>3. sfcRc = "ok" => wrenLost' = FALSE
        BY <4>1
      <4>4. sfcRc \in {"ok", "fail"}
        BY <1>1 DEF SfcTypeOK
      <4>5. QED
        BY <4>1, <4>2, <4>3, <4>4 DEF Unsent
    <3>4. QED
      BY <3>1, <3>2, <3>3
  <2>2. ~wrenLost /\ (stat.wel => Enabled4B)
    BY <1>1, <2>1 DEF SwitchOK, Enabled4B
  <2>3. PICK l : l = sfcPc'
    OBVIOUS
  <2>4. "wren" \in Unsent
    BY DEF Unsent
  <2>5. QED
    BY <2>1, <2>2, <2>3, <2>4, GotoStep
<1>4. QED
  BY <1>2, <1>3

\* Each part starts from an initial state of the controller.
LEMMA InitSfcInv ==
  ASSUME FlashInit
  PROVE  SfcInv
<1>1. S!Init
  BY DEF FlashInit
<1>2. setup \in Setups /\ setup.was4b \in BOOLEAN /\ setup.busy \in BOOLEAN
  BY <1>1, FlashAssumption DEF S!Init, S!SfcAssumption, S!AllSetups
<1>3. ctl.mode = "read" /\ sfcChip.latch = "none" /\ sfcChip.b4 = setup.was4b
      /\ ~sfcChip.wel /\ stat.wel = FALSE /\ cmd.name = "none"
  BY <1>1 DEF S!Init, S!Command
<1>4. SfcTypeOK
  BY <1>1, <1>2 DEF S!Init, S!Command, SfcTypeOK, Unopened, Unsent, Names
<1>5. FramedOK /\ SwitchOK
  BY <1>1, <1>3 DEF S!Init, FramedOK, SwitchOK, Unsent, Widths
<1>6. WidthOK
  BY <1>1 DEF S!Init, WidthOK
<1>7. QED
  BY <1>1, <1>4, <1>5, <1>6 DEF S!Init, SfcInv

\* Every step of the driver and its client keeps the invariant, and the other
\* parts leave their variables alone.
LEMMA NextSfcInv ==
  ASSUME SfcInv, [FlashNext]_flashVars
  PROVE  SfcInv'
<1>1. CASE S!Next
  BY <1>1, StartHighStep, StartLowStep, StartByteStep, BodyStep, EndHighStep, EndReadStep,
     CallSteps, GotoSteps, WrenSteps, DriverInitStep, Set4bStep, DirectReadStep, AsideStep,
     DestroyStep DEF S!Next
<1>2. CASE UNCHANGED sfcVars
  <2>1. S!Executed' = S!Executed /\ S!HwWidth' = S!HwWidth
    BY <1>2 DEF S!Executed, S!HwWidth, sfcVars
  <2>2. SfcTypeOK' /\ FramedOK'
    BY <1>2 DEF SfcInv, SfcTypeOK, FramedOK, sfcVars
  <2>3. SwitchOK' /\ WidthOK'
    BY <1>2, <2>1 DEF SfcInv, SwitchOK, WidthOK, Enabled4B, sfcVars
  <2>4. QED
    BY <1>2, <2>2, <2>3 DEF SfcInv, sfcVars
<1>3. QED
  BY <1>1, <1>2 DEF FlashNext, EraseStep, EraseDone, flashVars

\* The invariant holds throughout.
LEMMA AlwaysSfcInv == FlashSpec => []SfcInv
<1>1. FlashInit => SfcInv
  BY InitSfcInv
<1>2. SfcInv /\ [FlashNext]_flashVars => SfcInv'
  BY NextSfcInv
<1>3. QED
  BY <1>1, <1>2, PTL DEF FlashSpec

\* Whatever a failed command left behind, the next command byte reaches a chip
\* that has just been selected (sfc.c, sfc_start_cmd).
THEOREM FramedCorrect == FlashSpec => []Framed
<1>1. SfcInv => Framed
  BY DEF SfcInv, FramedOK, Framed, S!Framed
<1>2. QED
  BY <1>1, AlwaysSfcInv, PTL

\* Once flash_init() has succeeded, driver, controller and chip agree on the
\* width of addresses until culvert has gone (sfc.c, "we need to leave the
\* controller in a compatible setup"), unless somebody had left an FMC with a
\* small chip in four-byte mode.
THEOREM WidthsCorrect ==
  ASSUME S!SmallFmcUntouched
  PROVE  FlashSpec => []WidthsAgree
<1>1. SfcInv => WidthsAgree
  BY DEF SfcInv, SfcTypeOK, WidthOK, S!SmallFmcUntouched, WidthsAgree, S!WidthsAgree
<1>2. QED
  BY <1>1, AlwaysSfcInv, PTL

\* A read of the mapped chip returns its contents, unless ending a command or
\* enabling writes has failed (sfc.c, "We are in read mode by default").
THEOREM ReadsCorrect ==
  ASSUME S!SmallFmcUntouched
  PROVE  FlashSpec => []ReadsData
<1>1. SfcInv => ReadsData
  BY DEF SfcInv, SfcTypeOK, S!SmallFmcUntouched, ReadsData, S!ReadsData
<1>2. QED
  BY <1>1, AlwaysSfcInv, PTL

=============================================================================
