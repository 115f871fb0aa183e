-------------------------- MODULE TransfersProofs --------------------------
(***************************************************************************)
(* Proofs about the commands that copy memory through a siphon, about the  *)
(* coprocessor, the bus trace and the replacement in RAM, for every        *)
(* address space, chunk, range, DRAM, ring, FIFO, window, match and input, *)
(* and for every way in which read(), write() and the AHB split or fail a  *)
(* transfer.                                                               *)
(***************************************************************************)
EXTENDS Transfers, WellFoundedInduction, TLAPS

Coprocs == {"run", "stop"}
Copies == Kinds \union Coprocs
Reads == {"read_ram", "read_firmware", "peek"}
Writes == {"write_ram", "run"}

Early == {"open", "probe", "range", "access"}
OutLabels == {"out_read", "out_write"}
InLabels == {"in_read", "in_write"}
Prepares == {"disable", "assert", "load"}
Behind == {"loaded", "configure", "release", "enable"}
Ends == {"close", "end"}
Labels == Early \union OutLabels \union InLabels \union Prepares \union Behind \union {"halt"} \union Ends

CopyTypeOK ==
  /\ CoprocessorTypeOK /\ kind \in Copies /\ at \in Addr /\ input \in Nat
  /\ pc \in Labels

\* Which command is where, and that nothing has failed before it ends.
PlaceOK ==
  /\ pc = "access" => kind \in {"peek", "poke"}
  /\ pc = "range" => kind \notin {"peek", "poke"}
  /\ pc \in OutLabels => kind \in {"read_ram", "read_firmware"}
  /\ pc \in InLabels => kind \in Writes
  /\ pc \in Prepares \union Behind => kind = "run"
  /\ pc = "halt" => kind = "stop"
  /\ pc \notin {"loaded"} \union Ends => rc = OK

\* The range is the one of the arguments until a read has been told another.
ArgsOK ==
  /\ kind \notin {"read_ram", "read_firmware"} \/ (kind = "read_ram" /\ pc \in Early) =>
       base = asked[1] /\ size = asked[2]
  /\ kind = "read_ram" /\ pc \in {"probe", "range"} => base + size < Space

\* What is refused is refused for a reason.
Reason == ~WellFormed \/ DramWraps \/ (~wide /\ asked[2] >= Space \div 2)
RefusedOK == kind \in {"read_ram", "write_ram", "run"} /\ rc = EINVAL => Reason

\* The siphon out: the output and the chunk are what the range starts with,
\* and the rest of it starts at the next address.
OutLoop ==
  /\ base = Wanted[1] /\ size = Wanted[2] /\ base + size <= Space
  /\ len \in Nat /\ Len(out) + Len(chunk) + len = size
  /\ at = (base + Len(out) + Len(chunk)) % Space
  /\ \A k \in 1 .. Len(out) : out[k] = base + k - 1
  /\ \A k \in 1 .. Len(chunk) : chunk[k] = base + Len(out) + k - 1
  /\ pc = "out_read" => chunk = <<>>

OutOK ==
  kind \in Reads =>
    /\ pc \in Early => out = <<>> /\ chunk = <<>>
    /\ pc \in OutLabels => OutLoop
    /\ pc \in Ends => OutOf(Wanted[1], Wanted[2], rc = OK)

\* The siphon in: the first words of the input are in place, and nothing else.
InLoop ==
  LET words == size - len
  IN  /\ len \in 0 .. size /\ at = (base + words) % Space
      /\ \A a \in Addr : mem[a] = IF Off(base, a) < words THEN Off(base, a) + 1 ELSE 0
      /\ pc = "in_read" => taken = words
      /\ pc = "in_write" =>
           /\ Len(chunk) <= len /\ taken = words + Len(chunk)
           /\ \A k \in 1 .. Len(chunk) : chunk[k] = words + k

Fresh == taken = 0 /\ mem = [a \in Addr |-> 0]

InOK ==
  kind \in Writes =>
    /\ pc \in Early \union Prepares => Fresh
    /\ pc \in InLabels => InLoop
    /\ pc \in Behind \union Ends => InTo(asked[1], asked[2], rc = OK)

PokeOK == kind = "poke" => \A a \in Addr : mem[a] # 0 => pc \in Ends /\ a = asked[1]

\* A range that has been looked at lies in DRAM, and so does all that has been
\* moved.
DramOK ==
  /\ kind = "read_ram" =>
       /\ pc \in OutLabels => Start <= base /\ base + size <= Start + dram[2]
       /\ \A k \in 1 .. Len(out) : InDram(out[k])
  /\ kind = "run" \/ (kind = "write_ram" /\ ~ArgsWrap) =>
       /\ pc \in Prepares \union InLabels => WellFormed
       /\ \A a \in Addr : mem[a] # 0 => InDram(a)

\* The coprocessor is held in reset from before the first word to behind the
\* last register.
CtrlOK ==
  /\ kind = "run" =>
       /\ pc \in {"load", "loaded", "configure", "release"} \union InLabels => ctrl = "reset"
       /\ pc = "enable" => ctrl = "off"
       /\ pc \in {"release", "enable"} => conf = Set
       /\ pc \in {"configure", "release", "enable"} => rc = OK
  /\ kind \in Coprocs /\ pc = "close" /\ rc = OK =>
       ctrl = IF kind = "run" THEN "on" ELSE "off"

CopyInv ==
  CopyTypeOK /\ PlaceOK /\ ArgsOK /\ RefusedOK /\ OutOK /\ InOK /\ PokeOK /\ DramOK /\ CtrlOK

\* The other commands have invariants of their own.
IInv == kind \in {"replace", "trace", "jtag"} \/ CopyInv

-----------------------------------------------------------------------------
\* What the assumptions say of the constants, and of the DRAM of the SoC.
LEMMA Consts ==
  Chunk \in Nat /\ Chunk > 0 /\ Space \in Nat /\ Space > 0
  BY TransfersAssumption DEF TransferAssumption, SiphonAssumption

\* The flash window lies in the address space.
LEMMA FlashOK ==
  /\ Flash[1] \in Addr /\ Flash[2] \in Nat /\ Flash[1] + Flash[2] <= Space /\ Flash = <<Flash[1], Flash[2]>>
  BY TransfersAssumption DEF TransferAssumption, SiphonAssumption

\* DRAM lies in the address space, and the video memory at its end.
LEMMA Dram ==
  ASSUME dram \in Drams
  PROVE  /\ Start \in Addr /\ dram[2] \in Nat /\ dram[3] \in Nat
         /\ dram[3] <= dram[2] /\ Start + dram[2] <= Space
         /\ Vram \in Nat /\ Start <= Vram /\ Vram <= Start + dram[2]
  BY TransfersAssumption DEF TransferAssumption, SiphonAssumption, Start, Vram, Addr

\* The arguments are addresses.
LEMMA Asked ==
  ASSUME asked \in Ranges
  PROVE  asked[1] \in Addr /\ asked[2] \in Addr
  BY TransfersAssumption DEF TransferAssumption

\* The arguments are a pair.
LEMMA Pair ==
  ASSUME asked \in Ranges
  PROVE  asked = <<asked[1], asked[2]>>
  BY TransfersAssumption DEF TransferAssumption

\* uint32_t and unsigned long arithmetic: no sum of the code wraps twice.
LEMMA Wrap ==
  ASSUME NEW x \in Nat, x < 2 * Space
  PROVE  x % Space = IF x < Space THEN x ELSE x - Space
  BY Consts, SMT

\* A difference of addresses that wraps.
LEMMA WrapBelow ==
  ASSUME NEW x \in Int, x < 0, x + Space >= 0
  PROVE  x % Space = x + Space
  BY Consts, SMT

\* How far on an address is, without the modulus.
LEMMA OffIs ==
  ASSUME NEW b \in Addr, NEW a \in Addr
  PROVE  Off(b, a) = IF b <= a THEN a - b ELSE a - b + Space
<1>1. CASE b <= a
  <2>1. a - b \in Nat /\ a - b < Space
    BY <1>1, Consts DEF Addr
  <2>2. QED BY <1>1, <2>1, Wrap, Consts DEF Off
<1>2. CASE a < b
  <2>1. a - b \in Int /\ a - b < 0 /\ a - b + Space >= 0
    BY <1>2, Consts DEF Addr
  <2>2. (a - b) % Space = a - b + Space
    BY <2>1, WrapBelow
  <2>3. QED BY <1>2, <2>2 DEF Off, Addr
<1>3. QED BY <1>1, <1>2 DEF Addr

\* What has wrapped is an address.
LEMMA ModAddr ==
  ASSUME NEW x \in Nat
  PROVE  x % Space \in Addr
  BY Consts, SMT DEF Addr

\* To wrap once is enough.
LEMMA WrapTwice ==
  ASSUME NEW b \in Addr, NEW w \in Nat, NEW n \in Nat, w + n < Space
  PROVE  (((b + w) % Space) + n) % Space = (b + (w + n)) % Space
<1> DEFINE m == (b + w) % Space
<1>1. b \in Nat /\ b < Space
  BY Consts DEF Addr
<1>2. m = IF b + w < Space THEN b + w ELSE b + w - Space
  BY <1>1, Wrap, Consts
<1> HIDE DEF m
<1>3. m \in Nat /\ m + n \in Nat /\ m + n < 2 * Space
  BY <1>1, <1>2, Consts
<1>4. (m + n) % Space = IF m + n < Space THEN m + n ELSE m + n - Space
  BY <1>3, Wrap, Consts
<1>5. (b + (w + n)) % Space = IF b + (w + n) < Space THEN b + (w + n) ELSE b + (w + n) - Space
  <2>1. b + (w + n) \in Nat /\ b + (w + n) < 2 * Space
    BY <1>1, Consts
  <2>2. QED BY <1>1, <2>1, Wrap, Consts
<1>6. (m + n) % Space = (b + (w + n)) % Space
  BY <1>1, <1>2, <1>3, <1>4, <1>5, Consts
<1>7. QED BY <1>6 DEF m

\* The words that land at the address n on from a base, and where they are in
\* the range.
LEMMA LandedAt ==
  ASSUME NEW b \in Addr, NEW a \in Addr, NEW w \in Nat, NEW n \in Nat, w + n < Space
  PROVE  LET next == (b + w) % Space
         IN  /\ Off(next, a) \in Nat /\ Off(b, a) \in Nat
             /\ Off(next, a) < n => Off(b, a) = w + Off(next, a)
             /\ Off(b, a) < w + n => Off(b, a) < w \/ Off(next, a) < n
<1>1. (b + w) % Space = IF b + w < Space THEN b + w ELSE b + w - Space
  BY Wrap, Consts DEF Addr
<1>2. (b + w) % Space \in Addr
  BY ModAddr DEF Addr
<1> DEFINE next == (b + w) % Space
<1>3. Off(next, a) = IF next <= a THEN a - next ELSE a - next + Space
  BY <1>2, OffIs
<1>4. Off(b, a) = IF b <= a THEN a - b ELSE a - b + Space
  BY OffIs
<1>5. next \in Addr /\ next = IF b + w < Space THEN b + w ELSE b + w - Space
  BY <1>1, <1>2
<1> HIDE DEF next
<1>6. /\ Off(next, a) \in Nat /\ Off(b, a) \in Nat
      /\ Off(next, a) < n => Off(b, a) = w + Off(next, a)
      /\ Off(b, a) < w + n => Off(b, a) < w \/ Off(next, a) < n
  BY <1>3, <1>4, <1>5, Consts DEF Addr
<1>7. QED BY <1>6 DEF next

\* An offset is a number.
LEMMA OffNat ==
  ASSUME NEW b \in Addr, NEW a \in Addr
  PROVE  Off(b, a) \in Nat
  BY OffIs, Consts DEF Addr

\* Where a range does not wrap, what is less than its length away is in it.
LEMMA OffInside ==
  ASSUME NEW b \in Addr, NEW a \in Addr, NEW n \in Nat, b + n <= Space, Off(b, a) < n
  PROVE  b <= a /\ a < b + n
  BY OffIs, Consts DEF Addr

-----------------------------------------------------------------------------

\* Every command starts with nothing moved.
LEMMA InitIInv == Init => IInv
<1> SUFFICES ASSUME ArgsInit, kind \in Copies, ctrl \in {"off", "reset", "on"}, conf = {}
             PROVE  CopyInv
  BY DEF Init, IInv, TransferInit, CoprocessorInit, CoprocessorIdle, ReplaceInit, TraceInit,
         JtagInit, Copies, Coprocs, Kinds
<1>1. pc = "open" /\ rc = OK /\ at = 0 /\ len = 0 /\ chunk = <<>> /\ out = <<>> /\ Fresh
  BY DEF ArgsInit, SiphonInit, Fresh
<1>2. asked \in Ranges /\ base = asked[1] /\ size = asked[2] /\ dram \in Drams
  BY DEF ArgsInit
<1>3. input \in Nat
  BY TransfersAssumption DEF ArgsInit, SiphonInit, TransferAssumption, SiphonAssumption
<1>4. mem \in [Addr -> Nat] /\ \A a \in Addr : mem[a] = 0
  BY <1>1 DEF Fresh
<1>5. CopyTypeOK
  <2>1. SiphonTypeOK
    <3>1. bridge \in BOOLEAN
      BY DEF ArgsInit, SiphonInit
    <3>2. chunk \in Seq(Nat) /\ out \in Seq(Nat)
      BY <1>1
    <3>3. rc \in Int /\ at \in Nat /\ len \in Int /\ taken \in 0 .. input
      BY <1>1, <1>3 DEF Fresh, OK
    <3>4. QED BY <1>4, <3>1, <3>2, <3>3 DEF SiphonTypeOK
  <2>2. TransferTypeOK
    BY <1>2, <2>1, Asked DEF TransferTypeOK, ArgsInit, Addr
  <2>3. QED BY <1>1, <1>3, <2>2, Consts DEF CopyTypeOK, CoprocessorTypeOK, Addr, Labels, Early, Set
<1>6. PlaceOK /\ ArgsOK /\ CtrlOK
  BY <1>1, <1>2 DEF PlaceOK, ArgsOK, CtrlOK, OutLabels, InLabels, Prepares, Behind, Ends
<1>7. RefusedOK /\ OutOK /\ InOK
  BY <1>1 DEF RefusedOK, OutOK, InOK, OutLabels, InLabels, Behind, Ends, OK, EINVAL
<1>8. PokeOK /\ DramOK
  BY <1>1, <1>4 DEF PokeOK, DramOK, OutLabels, InLabels, Prepares
<1>9. QED BY <1>5, <1>6, <1>7, <1>8 DEF CopyInv

-----------------------------------------------------------------------------
\* The range that a read is to move.
LEMMA WantedOK ==
  ASSUME dram \in Drams, asked \in Ranges
  PROVE  Wanted[1] \in Nat /\ Wanted[2] \in Nat
<1>1. Flash[1] \in Nat /\ Flash[2] \in Nat
  BY FlashOK, Consts DEF Addr
<1>2. Start \in Nat /\ Vram - Start \in Nat
  BY Dram DEF Addr
<1>3. asked[1] \in Nat /\ asked[2] \in Nat
  BY Asked DEF Addr
<1>4. QED BY <1>1, <1>2, <1>3 DEF Wanted

\* A step that leaves the siphon and the arguments alone keeps the types.
LEMMA StillType ==
  ASSUME CopyTypeOK, UNCHANGED <<kind, siphonVars, transferVars>>,
         pc' \in Labels, rc' \in Int, bridge' \in BOOLEAN,
         ctrl' \in {"off", "reset", "on"}, conf' \subseteq Set
  PROVE  CopyTypeOK'
BY DEF CopyTypeOK, CoprocessorTypeOK, TransferTypeOK, SiphonTypeOK, siphonVars, transferVars

\* A step that moves nothing keeps what is known of the data, as long as it
\* goes forward, and a success is one of the data.
LEMMA StillData ==
  ASSUME CopyInv, UNCHANGED <<kind, siphonVars, transferVars>>,
         pc \notin OutLabels \union InLabels, pc' \notin OutLabels \union InLabels,
         pc' \in Early => pc \in Early, pc \in Ends => pc' \in Ends,
         pc' \in Prepares => pc \in Early \union Prepares /\ WellFormed,
         pc' \in Behind => pc \in Behind,
         rc' = OK => rc = OK, pc' \in Ends /\ rc' = OK => pc \notin Early \union Prepares,
         rc' = EINVAL => rc = EINVAL \/ Reason
  PROVE  RefusedOK' /\ OutOK' /\ InOK' /\ PokeOK' /\ DramOK'
<1>1. UNCHANGED <<kind, at, len, chunk, input, taken, out, mem, wide, dram, asked, base, size>>
  BY DEF siphonVars, transferVars
<1>2. Wanted' = Wanted
  BY <1>1 DEF Wanted, Start, Vram
<1>3. RefusedOK'
  BY <1>1 DEF CopyInv, RefusedOK, Reason, WellFormed, DramWraps, Start
<1>4. OutOK'
  <2>1. SUFFICES ASSUME kind \in Reads
                 PROVE  /\ pc' \in Early => out = <<>> /\ chunk = <<>>
                        /\ pc' \in Ends => OutOf(Wanted[1], Wanted[2], rc' = OK)
    BY <1>1, <1>2 DEF OutOK, OutOf
  <2>2. pc \in Early \union Ends
    BY <2>1 DEF CopyInv, CopyTypeOK, PlaceOK, Labels, Reads
  <2>3. ASSUME pc \in Early, pc' \in Ends PROVE OutOf(Wanted[1], Wanted[2], rc' = OK)
    <3>1. out = <<>> /\ rc' # OK
      BY <2>1, <2>3 DEF CopyInv, OutOK
    <3>2. Wanted[2] \in Nat
      BY WantedOK DEF CopyInv, CopyTypeOK, CoprocessorTypeOK, TransferTypeOK
    <3>3. QED BY <3>1, <3>2 DEF OutOf
  <2>4. ASSUME pc \in Ends, pc' \in Ends PROVE OutOf(Wanted[1], Wanted[2], rc' = OK)
    BY <2>1, <2>4 DEF CopyInv, OutOK, OutOf
  <2>5. ASSUME pc' \in Early PROVE out = <<>> /\ chunk = <<>>
    BY <2>1, <2>5 DEF CopyInv, OutOK
  <2>6. QED BY <2>2, <2>3, <2>4, <2>5
<1>5. InOK'
  <2>1. SUFFICES ASSUME kind \in Writes
                 PROVE  /\ pc' \in Early \union Prepares => Fresh
                        /\ pc' \in Behind \union Ends => InTo(asked[1], asked[2], rc' = OK)
    BY <1>1 DEF InOK, InTo, Fresh, Off
  <2>2. pc \in Early \union Prepares \union Behind \union Ends
    BY <2>1 DEF CopyInv, CopyTypeOK, PlaceOK, Labels, Writes
  <2>3. ASSUME pc \in Early \union Prepares, pc' \in Behind \union Ends
        PROVE  InTo(asked[1], asked[2], rc' = OK)
    <3>1. rc' # OK /\ pc' \in Ends
      BY <2>3 DEF Early, Prepares, Behind, Ends
    <3>2. Fresh
      BY <2>1, <2>3 DEF CopyInv, InOK
    <3>3. QED BY <3>1, <3>2 DEF Fresh, InTo
  <2>4. ASSUME pc \in Behind \union Ends, pc' \in Behind \union Ends
        PROVE  InTo(asked[1], asked[2], rc' = OK)
    <3>1. InTo(asked[1], asked[2], rc = OK)
      BY <2>1, <2>4 DEF CopyInv, InOK
    <3>2. QED BY <3>1 DEF InTo
  <2>5. ASSUME pc' \in Early \union Prepares PROVE Fresh
    <3>1. pc \in Early \union Prepares
      BY <2>5
    <3>2. QED BY <2>1, <3>1 DEF CopyInv, InOK
  <2>6. QED BY <2>2, <2>3, <2>4, <2>5
<1>6. PokeOK'
  BY <1>1 DEF CopyInv, PokeOK
<1>7. DramOK'
  BY <1>1 DEF CopyInv, DramOK, WellFormed, InDram, ArgsWrap, Start
<1>8. QED BY <1>3, <1>4, <1>5, <1>6, <1>7

\* The steps of a command that moves nothing, together.
LEMMA StillStep ==
  ASSUME CopyInv, UNCHANGED <<kind, siphonVars, transferVars>>,
         pc \notin OutLabels \union InLabels, pc' \in Labels \ (OutLabels \union InLabels),
         pc' \in Early => pc \in Early, pc \in Ends => pc' \in Ends,
         pc' \in Prepares => pc \in Early \union Prepares /\ WellFormed,
         pc' \in Behind => pc \in Behind,
         rc' = OK => rc = OK, pc' \in Ends /\ rc' = OK => pc \notin Early \union Prepares,
         rc' = EINVAL => rc = EINVAL \/ Reason,
         rc' \in Int, bridge' \in BOOLEAN, ctrl' \in {"off", "reset", "on"}, conf' \subseteq Set,
         PlaceOK', ArgsOK', CtrlOK'
  PROVE  CopyInv'
<1>1. CopyTypeOK'
  BY StillType DEF CopyInv
<1>2. RefusedOK' /\ OutOK' /\ InOK' /\ PokeOK' /\ DramOK'
  BY StillData
<1>3. QED BY <1>1, <1>2 DEF CopyInv

\* The labels and the results, for the leaves that compare them.
LEMMA Codes ==
  /\ OK \in Int /\ EIO \in Int /\ ENODEV \in Int /\ EINVAL \in Int /\ EPIPE \in Int
  /\ OK \notin {EIO, ENODEV, EINVAL, EPIPE} /\ EINVAL \notin {EIO, ENODEV, EPIPE}
  BY DEF OK, EIO, ENODEV, EINVAL, EPIPE

\* The bridge is opened, or not (cmd/read.c, cmd/write.c, cmd/coprocessor.c).
LEMMA OpenKeeps ==
  ASSUME CopyInv, Open, UNCHANGED <<kind, coprocVars>>
  PROVE  CopyInv'
<1>1. /\ pc = "open" /\ UNCHANGED <<kind, siphonVars, transferVars, ctrl, conf>> /\ ~Overflows
      /\ \/ pc' = "probe" /\ rc' = rc /\ bridge' = TRUE
         \/ pc' = "end" /\ rc' = ENODEV /\ bridge' = bridge
  BY DEF Open, OpenBridge, Goto, Fail, coprocVars
<1>2. rc = OK /\ CopyTypeOK /\ base \in Nat /\ size \in Nat
  BY <1>1 DEF CopyInv, CopyTypeOK, CoprocessorTypeOK, TransferTypeOK, PlaceOK, Ends, Addr
<1>3. PlaceOK'
  BY <1>1, Codes DEF CopyInv, PlaceOK, OutLabels, InLabels, Prepares, Behind, Ends
<1>4. ArgsOK'
  <2>1. kind = "read_ram" => base + size < Space
    BY <1>1, <1>2, Consts DEF Overflows
  <2>2. QED BY <1>1, <2>1 DEF CopyInv, ArgsOK, transferVars, Early
<1>5. CtrlOK'
  BY <1>1 DEF CtrlOK, InLabels
<1>6. ctrl' \in {"off", "reset", "on"} /\ conf' \subseteq Set /\ bridge' \in BOOLEAN /\ rc' \in Int
  BY <1>1, <1>2, Codes DEF CopyTypeOK, CoprocessorTypeOK, TransferTypeOK, SiphonTypeOK
<1>7. QED
  BY <1>1, <1>2, <1>3, <1>4, <1>5, <1>6, StillStep, Codes
  DEF Labels, Early, OutLabels, InLabels, Prepares, Behind, Ends

\* What the comparisons of the commands say of the range, wrapped sums
\* included.
LEMMA Sums ==
  ASSUME CopyTypeOK, base = asked[1], size = asked[2]
  PROVE  /\ base + size >= Space => Reason
         /\ base < Start \/ ArgEnd > DramEnd => Reason
         /\ ~(base < Start) /\ ~(ArgEnd > DramEnd) /\ ~ArgsWrap => WellFormed
         /\ ~((base + size) % Space < base) => base + size < Space
<1>1. /\ base \in 0 .. Space - 1 /\ size \in 0 .. Space - 1 /\ Start \in 0 .. Space - 1
      /\ dram[2] \in Nat /\ Start + dram[2] <= Space /\ Space \in Nat
  BY Asked, Dram, Consts DEF CopyTypeOK, CoprocessorTypeOK, TransferTypeOK, Addr
<1>2. (base + size) % Space = IF base + size < Space THEN base + size ELSE base + size - Space
  BY <1>1, Wrap
<1>3. DramEnd = IF DramWraps THEN 0 ELSE Start + dram[2]
  <2>1. (Start + dram[2]) % Space = IF Start + dram[2] < Space THEN Start + dram[2]
                                    ELSE Start + dram[2] - Space
    <3> DEFINE top == Start + dram[2]
    <3>1. top \in Nat /\ top < 2 * Space
      BY <1>1, Consts
    <3> HIDE DEF top
    <3>2. top % Space = IF top < Space THEN top ELSE top - Space
      BY <3>1, Wrap
    <3>3. QED BY <1>1, <3>2, Consts DEF top
  <2>2. QED BY <1>1, <2>1 DEF DramEnd, DramWraps, Start
<1>4. WellFormed <=> Start <= base /\ base + size <= Start + dram[2]
  BY DEF WellFormed
<1>5. ArgsWrap <=> ~wide /\ base + size >= Space
  BY DEF ArgsWrap
<1>6. ArgEnd = IF wide \/ base + size < Space THEN base + size ELSE base + size - Space
  BY <1>1, <1>2 DEF ArgEnd
<1>7. base + size >= Space => ~WellFormed \/ DramWraps
  BY <1>1, <1>4 DEF DramWraps
<1>8. base < Start \/ ArgEnd > DramEnd => ~WellFormed \/ DramWraps
  BY <1>1, <1>3, <1>4, <1>6
<1>9. ~(base < Start) /\ ~(ArgEnd > DramEnd) /\ ~ArgsWrap => WellFormed
  BY <1>1, <1>3, <1>4, <1>5, <1>6
<1>10. ~((base + size) % Space < base) => base + size < Space
  BY <1>1, <1>2
<1>11. QED BY <1>7, <1>8, <1>9, <1>10 DEF Reason

\* A read whose arguments overflow is refused (cmd/read.c).
LEMMA CheckKeeps ==
  ASSUME CopyInv, Check, UNCHANGED <<kind, coprocVars>>
  PROVE  CopyInv'
<1>1. /\ pc = "open" /\ pc' = "end" /\ rc' = EINVAL /\ kind = "read_ram" /\ Space - 1 - size < base
      /\ UNCHANGED <<kind, bridge, siphonVars, transferVars, ctrl, conf>>
  BY DEF Check, Overflows, Fail, Keep, coprocVars
<1>2. CopyTypeOK /\ base = asked[1] /\ size = asked[2]
  BY <1>1 DEF CopyInv, ArgsOK, Early
<1>3. Reason
  <2>1. base + size >= Space
    <3>1. base \in Nat /\ size \in Nat
      BY <1>2, Consts DEF Addr, CopyTypeOK, CoprocessorTypeOK, TransferTypeOK
    <3>2. QED BY <1>1, <3>1, Consts
  <2>2. QED BY <1>2, <2>1, Sums
<1>4. PlaceOK' /\ ArgsOK' /\ CtrlOK'
  BY <1>1 DEF PlaceOK, ArgsOK, CtrlOK, Early, OutLabels, InLabels, Prepares, Behind, Ends,
     Coprocs
<1>5. rc = OK /\ ctrl' \in {"off", "reset", "on"} /\ conf' \subseteq Set /\ bridge' \in BOOLEAN
  BY <1>1 DEF CopyInv, PlaceOK, Ends, CopyTypeOK, CoprocessorTypeOK, TransferTypeOK,
     SiphonTypeOK
<1>6. QED
  BY <1>1, <1>3, <1>4, <1>5, StillStep, Codes
  DEF Labels, Early, OutLabels, InLabels, Prepares, Behind, Ends

\* A command is refused where its range is looked at.
LEMMA RefusedKeeps ==
  ASSUME CopyInv, Refused, pc = "range", UNCHANGED <<kind, coprocVars>>,
         base < Start \/ ArgEnd > DramEnd \/ base + size >= Space, base = asked[1], size = asked[2]
  PROVE  CopyInv'
<1>1. /\ pc' = "close" /\ rc' = EINVAL
      /\ UNCHANGED <<kind, bridge, siphonVars, transferVars, ctrl, conf>>
  BY DEF Refused, Fail, Keep, coprocVars
<1>2. Reason
  BY Sums DEF CopyInv
<1>3. PlaceOK' /\ ArgsOK' /\ CtrlOK'
  BY <1>1, Codes
  DEF CopyInv, PlaceOK, ArgsOK, CtrlOK, Early, OutLabels, InLabels, Prepares, Behind, Ends,
     transferVars
<1>4. rc = OK /\ ctrl' \in {"off", "reset", "on"} /\ conf' \subseteq Set /\ bridge' \in BOOLEAN
  BY <1>1 DEF CopyInv, PlaceOK, Ends, CopyTypeOK, CoprocessorTypeOK, TransferTypeOK,
     SiphonTypeOK
<1>5. QED
  BY <1>1, <1>2, <1>3, <1>4, StillStep, Codes
  DEF Labels, Early, OutLabels, InLabels, Prepares, Behind, Ends

\* soc_probe() succeeds or fails.
LEMMA ProbeKeeps ==
  ASSUME CopyInv, Probe, UNCHANGED <<kind, coprocVars>>
  PROVE  CopyInv'
<1>1. /\ pc = "probe" /\ UNCHANGED <<kind, bridge, siphonVars, transferVars, ctrl, conf>>
      /\ \/ kind \in {"peek", "poke"} /\ pc' = "access" /\ rc' = rc
         \/ kind \notin {"peek", "poke"} /\ pc' = "range" /\ rc' = rc
         \/ pc' = "close" /\ rc' = EIO
  BY DEF Probe, Goto, Fail, Keep, coprocVars
<1>2. PlaceOK' /\ ArgsOK' /\ CtrlOK'
  BY <1>1, Codes
  DEF CopyInv, PlaceOK, ArgsOK, CtrlOK, Early, OutLabels, InLabels, Prepares, Behind, Ends,
     transferVars
<1>3. rc = OK /\ ctrl' \in {"off", "reset", "on"} /\ conf' \subseteq Set /\ bridge' \in BOOLEAN
  BY <1>1 DEF CopyInv, PlaceOK, Ends, CopyTypeOK, CoprocessorTypeOK, TransferTypeOK,
     SiphonTypeOK
<1>4. QED
  BY <1>1, <1>2, <1>3, StillStep, Codes
  DEF Labels, Early, OutLabels, InLabels, Prepares, Behind, Ends

\* The bridge is closed at the end of a command.
LEMMA CloseKeeps ==
  ASSUME CopyInv, Close, UNCHANGED <<kind, transferVars, coprocVars>>
  PROVE  CopyInv'
<1>1. /\ pc = "close" /\ pc' = "end" /\ rc' = rc /\ bridge' = FALSE
      /\ UNCHANGED <<kind, siphonVars, transferVars, ctrl, conf>>
  BY DEF Close, Goto, coprocVars
<1>2. PlaceOK' /\ ArgsOK' /\ CtrlOK'
  BY <1>1
  DEF CopyInv, PlaceOK, ArgsOK, CtrlOK, Early, OutLabels, InLabels, Prepares, Behind, Ends,
     transferVars
<1>3. rc' \in Int /\ ctrl' \in {"off", "reset", "on"} /\ conf' \subseteq Set
  BY <1>1 DEF CopyInv, CopyTypeOK, CoprocessorTypeOK, TransferTypeOK, SiphonTypeOK
<1>4. QED
  BY <1>1, <1>2, <1>3, StillStep
  DEF Labels, Early, OutLabels, InLabels, Prepares, Behind, Ends

-----------------------------------------------------------------------------
\* The siphon out is called on a range that does not wrap, and that lies in
\* DRAM where the RAM is read.
LEMMA OutStart ==
  ASSUME CopyInv, pc = "range", kind \in {"read_ram", "read_firmware"},
         Siphon("out_read", base', size'), base' = Wanted[1], size' = Wanted[2],
         base' \in Addr, size' \in Nat, base' + size' <= Space,
         kind = "read_ram" => Start <= base' /\ base' + size' <= Start + dram[2],
         UNCHANGED <<kind, bridge, wide, dram, asked, coprocVars>>
  PROVE  CopyInv'
<1>1. /\ pc' = "out_read" /\ at' = base' /\ len' = size'
      /\ UNCHANGED <<kind, rc, bridge, chunk, input, taken, out, mem, wide, dram, asked, ctrl, conf>>
  BY DEF Siphon, coprocVars
<1>2. out = <<>> /\ chunk = <<>> /\ rc = OK
  BY DEF CopyInv, OutOK, PlaceOK, Reads, Early, Ends
<1>3. CopyTypeOK'
  <2>1. at' \in Nat /\ len' \in Int
    BY <1>1, Consts DEF Addr
  <2>2. QED
    BY <1>1, <2>1
    DEF CopyInv, CopyTypeOK, CoprocessorTypeOK, TransferTypeOK, SiphonTypeOK, Labels, OutLabels
<1>4. PlaceOK' /\ ArgsOK' /\ RefusedOK'
  BY <1>1, <1>2, Codes
  DEF PlaceOK, ArgsOK, RefusedOK, Early, OutLabels, InLabels, Prepares, Behind, Ends
<1>5. OutOK'
  <2>1. Wanted' = Wanted
    BY <1>1 DEF Wanted, Start, Vram
  <2>2. at' = (base' + Len(out') + Len(chunk')) % Space
    <3>1. base' \in Nat /\ base' < Space /\ base' % Space = base'
      BY Wrap, Consts DEF Addr
    <3>2. Len(out') = 0 /\ Len(chunk') = 0
      BY <1>1, <1>2
    <3>3. base' + Len(out') + Len(chunk') = base'
      BY <3>1, <3>2
    <3>4. QED BY <1>1, <3>1, <3>3
  <2>3. OutLoop'
    BY <1>1, <1>2, <2>1, <2>2 DEF OutLoop
  <2>4. QED BY <1>1, <2>3 DEF OutOK, Early, Ends
<1>6. InOK' /\ PokeOK' /\ CtrlOK'
  BY <1>1 DEF InOK, PokeOK, CtrlOK, Writes, Coprocs
<1>7. DramOK'
  BY <1>1, <1>2 DEF DramOK, Start
<1>8. QED BY <1>3, <1>4, <1>5, <1>6, <1>7 DEF CopyInv

\* The DRAM or the arguments settle the range of a read (cmd/read.c).
LEMMA ReadRangeKeeps ==
  ASSUME CopyInv, ReadRange, UNCHANGED <<kind, coprocVars>>
  PROVE  CopyInv'
<1>1. /\ kind = "read_ram" /\ pc = "range" /\ base = asked[1] /\ size = asked[2]
      /\ base + size < Space /\ CopyTypeOK
  BY DEF ReadRange, CopyInv, ArgsOK, Early
<1>2. /\ base \in Addr /\ size \in Nat /\ Start \in Addr /\ Vram - Start \in Nat /\ Start \in Nat
      /\ Start + (Vram - Start) <= Start + dram[2] /\ Start + dram[2] <= Space /\ dram[2] \in Nat
  BY <1>1, Dram, Consts DEF CopyTypeOK, CoprocessorTypeOK, TransferTypeOK, Addr
<1>3. CASE base # 0 /\ size # 0 /\ (base < Start \/ ArgEnd > DramEnd)
  BY <1>1, <1>3, RefusedKeeps DEF ReadRange
<1>4. CASE base # 0 /\ size # 0 /\ ~(base < Start \/ ArgEnd > DramEnd)
  <2>1. /\ Siphon("out_read", base', size') /\ base' = base /\ size' = size
        /\ UNCHANGED <<bridge, wide, dram, asked>>
    BY <1>4 DEF ReadRange, transferVars
  <2>2. WellFormed
    <3>1. ~ArgsWrap
      BY <1>1, <1>2, Consts DEF ArgsWrap, Addr
    <3>2. QED BY <1>1, <1>4, <3>1, Sums
  <2>3. Wanted = <<base, size>>
    BY <1>1, <1>4, Pair DEF Wanted, CopyTypeOK, CoprocessorTypeOK, TransferTypeOK
  <2>4. base \in Nat /\ Start <= base /\ base + size <= Start + dram[2] /\ base + size <= Space
    BY <1>1, <1>2, <2>2, Consts DEF WellFormed, Addr
  <2>5. QED BY <1>1, <1>2, <2>1, <2>3, <2>4, OutStart
<1>5. CASE ~(base # 0 /\ size # 0)
  <2>1. CASE Fail("close", EIO) /\ Keep
    <3>1. /\ pc' = "close" /\ rc' = EIO
          /\ UNCHANGED <<kind, bridge, siphonVars, transferVars, ctrl, conf>>
      BY <2>1 DEF Fail, Keep, coprocVars
    <3>2. PlaceOK' /\ ArgsOK' /\ CtrlOK'
      BY <1>1, <3>1, Codes
      DEF PlaceOK, ArgsOK, CtrlOK, Early, OutLabels, InLabels, Prepares, Behind, Ends, Coprocs
    <3>3. rc = OK /\ ctrl' \in {"off", "reset", "on"} /\ conf' \subseteq Set /\ bridge' \in BOOLEAN
      BY <1>1, <3>1
      DEF CopyInv, PlaceOK, Ends, CopyTypeOK, CoprocessorTypeOK, TransferTypeOK, SiphonTypeOK
    <3>4. QED
      BY <1>1, <3>1, <3>2, <3>3, StillStep, Codes
      DEF Labels, Early, OutLabels, InLabels, Prepares, Behind, Ends
  <2>2. CASE /\ base' = Start /\ size' = Vram - Start /\ Siphon("out_read", Start, Vram - Start)
             /\ UNCHANGED <<bridge, wide, dram, asked>>
    <3>1. Wanted = <<Start, Vram - Start>>
      BY <1>1, <1>5 DEF Wanted
    <3>2. Start + (Vram - Start) <= Space /\ Start <= Start
      BY <1>2, Consts
    <3>3. /\ base' = Wanted[1] /\ size' = Wanted[2] /\ Siphon("out_read", base', size')
          /\ base' \in Addr /\ size' \in Nat /\ base' + size' <= Space
          /\ Start <= base' /\ base' + size' <= Start + dram[2]
      BY <1>2, <2>2, <3>1, <3>2
    <3>4. QED BY <1>1, <2>2, <3>3, OutStart
  <2>3. QED BY <1>5, <2>1, <2>2 DEF ReadRange
<1>6. QED BY <1>3, <1>4, <1>5

\* The flash window is the range of a read of the firmware (cmd/read.c).
LEMMA ReadFlashKeeps ==
  ASSUME CopyInv, ReadFlash, UNCHANGED <<kind, coprocVars>>
  PROVE  CopyInv'
<1>1. /\ kind = "read_firmware" /\ pc = "range" /\ base' = Flash[1] /\ size' = Flash[2]
      /\ Siphon("out_read", base', size') /\ UNCHANGED <<bridge, wide, dram, asked>>
  BY DEF ReadFlash
<1>2. Wanted = Flash
  BY <1>1 DEF Wanted
<1>3. QED BY <1>1, <1>2, FlashOK, OutStart

\* A siphon out that returns leaves the start of the range behind, and all of
\* it if it succeeds.
LEMMA OutEnds ==
  ASSUME CopyInv, pc \in OutLabels, pc' = "close", UNCHANGED <<out, mem, at, len, chunk, input, taken>>,
         UNCHANGED <<kind, bridge, transferVars, coprocVars>>, rc' \in {OK, EIO, EPIPE},
         rc' = OK => Len(out) = size
  PROVE  CopyInv'
<1>1. UNCHANGED <<kind, bridge, out, mem, at, len, chunk, input, taken, wide, dram, asked, base, size,
                  ctrl, conf>>
  BY DEF transferVars, coprocVars
<1>2. kind \in {"read_ram", "read_firmware"} /\ OutLoop /\ CopyTypeOK
  BY DEF CopyInv, PlaceOK, OutOK, Reads
<1>3. CopyTypeOK'
  BY <1>1, <1>2, Codes
  DEF CopyTypeOK, CoprocessorTypeOK, TransferTypeOK, SiphonTypeOK, Labels, Ends
<1>4. PlaceOK' /\ ArgsOK' /\ RefusedOK'
  BY <1>1, <1>2, Codes
  DEF PlaceOK, ArgsOK, RefusedOK, Early, OutLabels, InLabels, Prepares, Behind, Ends
<1>5. OutOK'
  <2>1. Wanted' = Wanted
    BY <1>1 DEF Wanted, Start, Vram
  <2>2. Len(out) <= size
    BY <1>2 DEF OutLoop, CopyTypeOK, CoprocessorTypeOK, TransferTypeOK, SiphonTypeOK
  <2>3. OutOf(base, size, rc' = OK)
    BY <1>2, <2>2 DEF OutOf, OutLoop
  <2>4. OutOf(Wanted[1], Wanted[2], rc' = OK)
    BY <1>2, <2>3 DEF OutLoop
  <2>5. OutOf(Wanted[1], Wanted[2], rc = OK)'
    BY <1>1, <2>1, <2>4 DEF OutOf
  <2>6. QED BY <2>5 DEF OutOK, Early, OutLabels
<1>6. InOK' /\ PokeOK' /\ CtrlOK'
  BY <1>1, <1>2 DEF InOK, PokeOK, CtrlOK, Writes, Coprocs
<1>7. DramOK'
  BY <1>1, <1>2 DEF CopyInv, DramOK, Start, InDram, OutLabels
<1>8. QED BY <1>3, <1>4, <1>5, <1>6, <1>7 DEF CopyInv

\* A chunk is read from the AHB (ahb.c, ahb_siphon_out).
LEMMA OutReadKeeps ==
  ASSUME CopyInv, OutRead("close"), UNCHANGED <<kind, bridge, transferVars, coprocVars>>
  PROVE  CopyInv'
<1> DEFINE n == Least(len, Chunk)
<1>1. /\ pc = "out_read" /\ UNCHANGED <<kind, bridge, input, taken, out, mem, wide, dram, asked, base,
                                        size, ctrl, conf>>
  BY DEF OutRead, transferVars, coprocVars
<1>2. /\ kind \in {"read_ram", "read_firmware"} /\ OutLoop /\ CopyTypeOK /\ rc = OK
      /\ chunk = <<>> /\ Len(chunk) = 0 /\ Len(out) \in Nat /\ base \in Nat /\ size \in Nat
  BY <1>1
  DEF CopyInv, PlaceOK, OutOK, OutLoop, Reads, OutLabels, Ends, CopyTypeOK, CoprocessorTypeOK,
      TransferTypeOK, SiphonTypeOK, Addr
<1>3. CASE len = 0 /\ Goto("close") /\ UNCHANGED <<at, len, chunk>>
  <2>1. Len(out) = size
    BY <1>2, <1>3 DEF OutLoop
  <2>2. QED BY <1>1, <1>2, <1>3, <2>1, OutEnds DEF Goto, OutLabels
<1>4. CASE len > 0 /\ Fail("close", EIO) /\ UNCHANGED <<at, len, chunk>>
  BY <1>1, <1>4, OutEnds, Codes DEF Fail, OutLabels
<1>5. CASE /\ len > 0 /\ Goto("out_write")
           /\ chunk' = [k \in 1 .. n |-> After(k - 1)]
           /\ at' = After(n) /\ len' = len - n
  <2>1. n \in Nat /\ n > 0 /\ n <= len /\ len \in Nat
    BY <1>2, <1>5, Consts DEF Least, OutLoop
  <2> HIDE DEF n
  <2>2. at = base + Len(out) /\ base + Len(out) + len <= Space /\ Len(out) + len = size
    <3>1. Len(out) + len = size /\ base + size <= Space /\ at = (base + Len(out)) % Space
      BY <1>2 DEF OutLoop
    <3>2. base + Len(out) + len <= Space /\ base + Len(out) \in Nat /\ base + Len(out) < Space
      BY <1>2, <2>1, <3>1, Consts
    <3>3. (base + Len(out)) % Space = base + Len(out)
      BY <3>2, Wrap, Consts
    <3>4. QED BY <3>1, <3>2, <3>3
  <2>3. \A k \in 1 .. n : After(k - 1) = base + Len(out) + k - 1
    <3>1. SUFFICES ASSUME NEW k \in 1 .. n PROVE After(k - 1) = base + Len(out) + k - 1
      OBVIOUS
    <3>2. at + (k - 1) \in Nat /\ at + (k - 1) < Space
      BY <1>2, <2>1, <2>2, Consts
    <3>3. (at + (k - 1)) % Space = at + (k - 1)
      BY <3>2, Wrap, Consts
    <3>4. QED BY <1>2, <2>2, <3>3 DEF After
  <2>4. chunk' = [k \in 1 .. n |-> base + Len(out) + k - 1]
    BY <1>5, <2>3
  <2>5. /\ Len(chunk') = n /\ chunk' \in Seq(Nat)
        /\ \A k \in 1 .. Len(chunk') : chunk'[k] = base + Len(out) + k - 1
    <3>1. \A k \in 1 .. n : base + Len(out) + k - 1 \in Nat
      BY <1>2, <2>1
    <3>2. QED BY <2>1, <2>4, <3>1
  <2>6. at' \in Addr /\ at' = (base + Len(out) + n) % Space
    <3>1. at' = (base + Len(out) + n) % Space
      BY <1>5, <2>2 DEF After
    <3>2. QED BY <1>2, <2>1, <3>1, ModAddr
  <2>7. CopyTypeOK'
    <3>1. at' \in Nat /\ len' \in Int
      BY <1>5, <2>1, <2>6, Consts DEF Addr
    <3>2. QED
      BY <1>1, <1>2, <1>5, <2>5, <2>6, <3>1
      DEF Goto, CopyTypeOK, CoprocessorTypeOK, TransferTypeOK, SiphonTypeOK, Labels, OutLabels
  <2>8. PlaceOK' /\ ArgsOK' /\ RefusedOK'
    BY <1>1, <1>2, <1>5, Codes
    DEF Goto, PlaceOK, ArgsOK, RefusedOK, Early, OutLabels, InLabels, Prepares, Behind, Ends
  <2>9. OutLoop'
    <3>1. Wanted' = Wanted
      BY <1>1 DEF Wanted, Start, Vram
    <3>2. len' \in Nat /\ Len(out') + Len(chunk') + len' = size'
      BY <1>1, <1>2, <1>5, <2>1, <2>2, <2>5
    <3>3. pc' # "out_read"
      BY <1>5 DEF Goto
    <3>4. at' = (base' + Len(out') + Len(chunk')) % Space
      BY <1>1, <2>5, <2>6
    <3>5. QED BY <1>1, <1>2, <2>5, <3>1, <3>2, <3>3, <3>4 DEF OutLoop
  <2>10. OutOK'
    BY <1>5, <2>9 DEF Goto, OutOK, Early, Ends
  <2>11. InOK' /\ PokeOK' /\ CtrlOK'
    BY <1>1, <1>2 DEF InOK, PokeOK, CtrlOK, Writes, Coprocs
  <2>12. DramOK'
    BY <1>1, <1>2 DEF CopyInv, DramOK, Start, InDram, OutLabels
  <2>13. QED BY <2>7, <2>8, <2>10, <2>11, <2>12 DEF CopyInv
<1>6. QED BY <1>3, <1>4, <1>5 DEF OutRead

\* write() takes the head of the chunk.
LEMMA Taken ==
  ASSUME NEW s \in Seq(Nat), NEW t \in Seq(Nat), NEW n \in 1 .. Len(t)
  PROVE  LET head == s \o SubSeq(t, 1, n)
             rest == SubSeq(t, n + 1, Len(t))
         IN  /\ head \in Seq(Nat) /\ Len(head) = Len(s) + n
             /\ \A k \in 1 .. Len(s) : head[k] = s[k]
             /\ \A k \in 1 .. n : head[Len(s) + k] = t[k]
             /\ rest \in Seq(Nat) /\ Len(rest) = Len(t) - n
             /\ \A k \in 1 .. Len(t) - n : rest[k] = t[n + k]
             /\ n = Len(t) => rest = <<>>
<1> DEFINE h == SubSeq(t, 1, n)
           head == s \o h
           rest == SubSeq(t, n + 1, Len(t))
<1>1. h \in Seq(Nat) /\ Len(h) = n /\ \A k \in 1 .. n : h[k] = t[k]
  BY SMT
<1>2. rest \in Seq(Nat) /\ Len(rest) = Len(t) - n /\ \A k \in 1 .. Len(t) - n : rest[k] = t[n + k]
  BY SMT
<1>3. n = Len(t) => rest = <<>>
  BY <1>2
<1> HIDE DEF h
<1>4. head \in Seq(Nat) /\ Len(head) = Len(s) + n
  BY <1>1
<1>5. \A k \in 1 .. Len(s) : head[k] = s[k]
  BY <1>1
<1>6. \A k \in 1 .. n : head[Len(s) + k] = t[k]
  BY <1>1
<1>7. QED BY <1>2, <1>3, <1>4, <1>5, <1>6 DEF h

\* A chunk, or a part of it, is written to the file (ahb.c, ahb_siphon_out).
LEMMA OutWriteKeeps ==
  ASSUME CopyInv, OutWrite("close"), UNCHANGED <<kind, bridge, transferVars, coprocVars>>
  PROVE  CopyInv'
<1>1. /\ pc = "out_write" /\ UNCHANGED <<kind, bridge, at, len, input, taken, mem, wide, dram, asked,
                                         base, size, ctrl, conf>>
  BY DEF OutWrite, transferVars, coprocVars
<1>2. /\ kind \in {"read_ram", "read_firmware"} /\ OutLoop /\ CopyTypeOK /\ rc = OK
      /\ base \in Nat /\ size \in Nat /\ chunk \in Seq(Nat) /\ out \in Seq(Nat)
  BY <1>1
  DEF CopyInv, PlaceOK, OutOK, Reads, OutLabels, Ends, CopyTypeOK, CoprocessorTypeOK,
      TransferTypeOK, SiphonTypeOK, Addr
<1>3. CASE Fail("close", EPIPE) /\ UNCHANGED <<chunk, out>>
  BY <1>1, <1>3, OutEnds, Codes DEF Fail, OutLabels
<1>4. ASSUME NEW n \in 1 .. Len(chunk),
             out' = out \o SubSeq(chunk, 1, n), chunk' = SubSeq(chunk, n + 1, Len(chunk)),
             Goto(IF n = Len(chunk) THEN "out_read" ELSE "out_write")
      PROVE  CopyInv'
  <2>1. /\ out' \in Seq(Nat) /\ Len(out') = Len(out) + n
        /\ \A k \in 1 .. Len(out) : out'[k] = out[k]
        /\ \A k \in 1 .. n : out'[Len(out) + k] = chunk[k]
        /\ chunk' \in Seq(Nat) /\ Len(chunk') = Len(chunk) - n
        /\ \A k \in 1 .. Len(chunk) - n : chunk'[k] = chunk[n + k]
        /\ n = Len(chunk) => chunk' = <<>>
    BY <1>2, <1>4, Taken
  <2>2. Len(out) \in Nat /\ Len(chunk) \in Nat /\ n \in Nat /\ n <= Len(chunk)
    BY <1>2
  <2>3. pc' \in OutLabels /\ (pc' = "out_read" => n = Len(chunk)) /\ rc' = rc
    BY <1>4 DEF Goto, OutLabels
  <2>4. CopyTypeOK'
    BY <1>1, <1>2, <2>1, <2>3
    DEF CopyTypeOK, CoprocessorTypeOK, TransferTypeOK, SiphonTypeOK, Labels
  <2>5. PlaceOK' /\ ArgsOK' /\ RefusedOK'
    BY <1>1, <1>2, <2>3, Codes
    DEF PlaceOK, ArgsOK, RefusedOK, Early, OutLabels, InLabels, Prepares, Behind, Ends
  <2>6. \A k \in 1 .. Len(out') : out'[k] = base + k - 1
    <3>1. SUFFICES ASSUME NEW k \in 1 .. Len(out') PROVE out'[k] = base + k - 1
      OBVIOUS
    <3>2. CASE k <= Len(out)
      BY <1>2, <2>1, <2>2, <3>2 DEF OutLoop
    <3>3. CASE k > Len(out)
      <4> DEFINE j == k - Len(out)
      <4>1. j \in 1 .. n /\ j \in 1 .. Len(chunk) /\ Len(out) + j = k
        BY <2>1, <2>2, <3>3
      <4>2. out'[k] = chunk[j] /\ chunk[j] = base + Len(out) + j - 1
        BY <1>2, <2>1, <4>1 DEF OutLoop
      <4>3. QED BY <1>2, <2>2, <4>1, <4>2
    <3>4. QED BY <2>1, <2>2, <3>2, <3>3
  <2>7. \A k \in 1 .. Len(chunk') : chunk'[k] = base + Len(out') + k - 1
    <3>1. SUFFICES ASSUME NEW k \in 1 .. Len(chunk') PROVE chunk'[k] = base + Len(out') + k - 1
      OBVIOUS
    <3>2. n + k \in 1 .. Len(chunk) /\ chunk'[k] = chunk[n + k]
      BY <2>1, <2>2
    <3>3. chunk[n + k] = base + Len(out) + (n + k) - 1
      BY <1>2, <3>2 DEF OutLoop
    <3>4. QED BY <1>2, <2>1, <2>2, <3>2, <3>3
  <2>8. OutLoop'
    <3>1. Wanted' = Wanted
      BY <1>1 DEF Wanted, Start, Vram
    <3>2. Len(out') + Len(chunk') = Len(out) + Len(chunk) /\ len \in Nat
      BY <1>2, <2>1, <2>2 DEF OutLoop
    <3>3. Len(out') + Len(chunk') + len' = size'
      BY <1>1, <1>2, <3>2 DEF OutLoop
    <3>4. base' + Len(out') + Len(chunk') = base + Len(out) + Len(chunk)
      BY <1>1, <1>2, <2>1, <2>2
    <3>5. at' = (base' + Len(out') + Len(chunk')) % Space
      BY <1>1, <1>2, <3>4 DEF OutLoop
    <3>6. QED BY <1>1, <1>2, <2>1, <2>3, <2>6, <2>7, <3>1, <3>2, <3>3, <3>5 DEF OutLoop
  <2>9. OutOK'
    BY <2>3, <2>8 DEF OutOK, Early, OutLabels, Ends
  <2>10. InOK' /\ PokeOK' /\ CtrlOK'
    BY <1>1, <1>2 DEF InOK, PokeOK, CtrlOK, Writes, Coprocs
  <2>11. DramOK'
    <3>1. SUFFICES ASSUME kind = "read_ram"
                   PROVE  /\ Start <= base /\ base + size <= Start + dram[2]
                          /\ \A k \in 1 .. Len(out') : InDram(out'[k])
      BY <1>1, <1>2, <2>1 DEF DramOK, Start, InDram
    <3>2. Start <= base /\ base + size <= Start + dram[2]
      BY <1>1, <3>1 DEF CopyInv, DramOK, OutLabels
    <3>3. Len(out') <= size
      BY <1>2, <2>1, <2>2 DEF OutLoop
    <3>4. Start \in Nat /\ dram[2] \in Nat
      BY <1>2, Dram, Consts DEF Addr, CopyTypeOK, CoprocessorTypeOK, TransferTypeOK
    <3>5. ASSUME NEW k \in 1 .. Len(out') PROVE InDram(out'[k])
      <4>1. out'[k] = base + k - 1 /\ k \in Nat /\ 1 <= k /\ k <= size
        BY <2>1, <2>2, <2>6, <3>3, <1>2
      <4>2. QED BY <1>2, <3>2, <3>4, <4>1 DEF InDram
    <3>6. QED BY <3>2, <3>5
  <2>12. QED BY <2>4, <2>5, <2>9, <2>10, <2>11 DEF CopyInv
<1>5. QED BY <1>3, <1>4 DEF OutWrite

-----------------------------------------------------------------------------
\* The siphon in is called on a range of less than the address space, which
\* may wrap where nobody has looked.
LEMMA InStart ==
  ASSUME CopyInv, pc \in {"range", "load"}, kind \in Writes,
         Siphon("in_read", base, size), UNCHANGED <<kind, bridge, transferVars, coprocVars>>,
         kind = "run" => pc = "load", kind = "run" \/ ~ArgsWrap => WellFormed
  PROVE  CopyInv'
<1>1. /\ pc' = "in_read" /\ at' = base /\ len' = size
      /\ UNCHANGED <<kind, rc, bridge, chunk, input, taken, out, mem, wide, dram, asked, base, size,
                     ctrl, conf>>
  BY DEF Siphon, transferVars, coprocVars
<1>2. rc = OK /\ CopyTypeOK /\ Fresh /\ base = asked[1] /\ size = asked[2]
  BY DEF CopyInv, PlaceOK, ArgsOK, InOK, Writes, Early, Prepares, Ends
<1>3. base \in Addr /\ size \in Nat /\ base \in Nat /\ base < Space
  BY <1>2, Consts DEF CopyTypeOK, CoprocessorTypeOK, TransferTypeOK, Addr
<1>4. CopyTypeOK'
  BY <1>1, <1>2, <1>3
  DEF CopyTypeOK, CoprocessorTypeOK, TransferTypeOK, SiphonTypeOK, Labels, InLabels
<1>5. PlaceOK' /\ ArgsOK' /\ RefusedOK'
  BY <1>1, <1>2, Codes
  DEF PlaceOK, ArgsOK, RefusedOK, Early, OutLabels, InLabels, Prepares, Behind, Ends, Writes
<1>6. InLoop'
  <2>1. size' - len' = 0 /\ len' \in 0 .. size'
    BY <1>1, <1>3
  <2>2. at' = (base' + 0) % Space
    BY <1>1, <1>3, Wrap, Consts
  <2>3. \A a \in Addr : mem'[a] = 0 /\ ~(Off(base, a) < 0)
    <3>1. SUFFICES ASSUME NEW a \in Addr PROVE mem'[a] = 0 /\ ~(Off(base, a) < 0)
      OBVIOUS
    <3>2. ~(Off(base, a) < 0)
      BY <1>3, OffIs, Consts DEF Addr
    <3>3. QED BY <1>1, <1>2, <3>2 DEF Fresh
  <2>4. taken' = 0
    BY <1>1, <1>2 DEF Fresh
  <2>5. QED BY <1>1, <2>1, <2>2, <2>3, <2>4 DEF InLoop, Off
<1>7. InOK'
  BY <1>1, <1>6 DEF InOK, Early, Prepares, Behind, Ends
<1>8. OutOK' /\ PokeOK'
  BY <1>1 DEF OutOK, PokeOK, Reads, Writes
<1>9. DramOK'
  <2>1. \A a \in Addr : mem[a] = 0
    BY <1>2 DEF Fresh
  <2>2. QED BY <1>1, <2>1 DEF DramOK, Writes, ArgsWrap, WellFormed, Start
<1>10. CtrlOK'
  BY <1>1 DEF CopyInv, CtrlOK, InLabels, Writes
<1>11. QED BY <1>4, <1>5, <1>7, <1>8, <1>9, <1>10 DEF CopyInv

\* The range of a write to memory is looked at (cmd/write.c).
LEMMA WriteRangeKeeps ==
  ASSUME CopyInv, WriteRange, UNCHANGED <<kind, coprocVars>>
  PROVE  CopyInv'
<1>1. kind = "write_ram" /\ pc = "range" /\ base = asked[1] /\ size = asked[2] /\ CopyTypeOK
  BY DEF WriteRange, CopyInv, ArgsOK
<1>2. CASE base < Start \/ ArgEnd > DramEnd
  BY <1>1, <1>2, RefusedKeeps DEF WriteRange
<1>3. CASE ~(base < Start \/ ArgEnd > DramEnd) /\ ~wide /\ size > Space \div 2 - 1
  <2>1. /\ pc' = "end" /\ rc' = EINVAL
        /\ UNCHANGED <<kind, bridge, siphonVars, transferVars, ctrl, conf>>
    BY <1>3 DEF WriteRange, Fail, Keep, coprocVars
  <2>2. Reason
    <3>1. size \in Nat /\ Space \div 2 \in Int
      BY <1>1, Consts DEF CopyTypeOK, CoprocessorTypeOK, TransferTypeOK
    <3>2. QED BY <1>1, <1>3, <3>1 DEF Reason
  <2>3. PlaceOK' /\ ArgsOK' /\ CtrlOK'
    BY <1>1, <2>1, Codes
    DEF CopyInv, PlaceOK, ArgsOK, CtrlOK, Early, OutLabels, InLabels, Prepares, Behind, Ends,
       transferVars
  <2>4. rc = OK /\ ctrl' \in {"off", "reset", "on"} /\ conf' \subseteq Set /\ bridge' \in BOOLEAN
    BY <1>1, <2>1
    DEF CopyInv, PlaceOK, Ends, CopyTypeOK, CoprocessorTypeOK, TransferTypeOK, SiphonTypeOK
  <2>5. QED
    BY <1>1, <2>1, <2>2, <2>3, <2>4, StillStep, Codes
    DEF Labels, Early, OutLabels, InLabels, Prepares, Behind, Ends
<1>4. CASE ~(base < Start \/ ArgEnd > DramEnd) /\ ~(~wide /\ size > Space \div 2 - 1)
  <2>1. Siphon("in_read", base, size) /\ UNCHANGED <<bridge, transferVars>>
    BY <1>4 DEF WriteRange
  <2>2. ~ArgsWrap => WellFormed
    BY <1>1, <1>4, Sums
  <2>3. QED BY <1>1, <2>1, <2>2, InStart DEF Writes
<1>5. QED BY <1>2, <1>3, <1>4

\* The coprocessor in reset is about to be loaded (cmd/coprocessor.c).
LEMMA LoadKeeps ==
  ASSUME CopyInv, Load, UNCHANGED kind
  PROVE  CopyInv'
<1>1. /\ pc = "load" /\ Siphon("in_read", base, size) /\ UNCHANGED <<bridge, transferVars, coprocVars>>
  BY DEF Load, Registers
<1>2. kind = "run" /\ WellFormed
  BY <1>1 DEF CopyInv, PlaceOK, DramOK, Prepares
<1>3. QED BY <1>1, <1>2, InStart DEF Writes

\* A siphon in that returns leaves the first words of the input in place: all
\* of them, up to the end of the range, if it succeeds.
LEMMA InEnds ==
  ASSUME CopyInv, pc \in InLabels, pc' \in {"loaded", "close"}, rc' \in {OK, EIO},
         kind = "run" <=> pc' = "loaded",
         UNCHANGED <<kind, bridge, at, len, input, out, transferVars, coprocVars>>,
         chunk' \in Seq(Nat), taken' \in 0 .. input, mem' \in [Addr -> Nat],
         InTo(base, size, rc = OK)',
         kind = "run" \/ ~ArgsWrap => \A a \in Addr : mem'[a] # 0 => InDram(a)
  PROVE  CopyInv'
<1>1. UNCHANGED <<kind, bridge, at, len, input, out, wide, dram, asked, base, size, ctrl, conf>>
  BY DEF transferVars, coprocVars
<1>2. kind \in Writes /\ CopyTypeOK /\ rc = OK /\ base = asked[1] /\ size = asked[2]
  BY DEF CopyInv, PlaceOK, ArgsOK, InLabels, Ends, Writes
<1>3. CopyTypeOK'
  BY <1>1, <1>2, Codes
  DEF CopyTypeOK, CoprocessorTypeOK, TransferTypeOK, SiphonTypeOK, Labels, Behind, Ends
<1>4. PlaceOK' /\ ArgsOK' /\ RefusedOK'
  BY <1>1, <1>2, Codes
  DEF PlaceOK, ArgsOK, RefusedOK, Early, OutLabels, InLabels, Prepares, Behind, Ends, Writes
<1>5. InOK'
  <2>1. InTo(asked[1], asked[2], rc = OK)'
    BY <1>1, <1>2 DEF InTo
  <2>2. QED BY <2>1 DEF InOK, Early, Prepares, InLabels
<1>6. OutOK' /\ PokeOK'
  BY <1>1, <1>2 DEF OutOK, PokeOK, Reads, Writes
<1>7. DramOK'
  BY <1>1, <1>2 DEF DramOK, Writes, ArgsWrap, WellFormed, InDram, Start, Prepares, InLabels
<1>8. CtrlOK'
  BY <1>1, <1>2 DEF CopyInv, CtrlOK, InLabels, Writes, Coprocs
<1>9. QED BY <1>3, <1>4, <1>5, <1>6, <1>7, <1>8 DEF CopyInv

\* What is less than the size of a range in DRAM away from its base is in DRAM.
LEMMA AllInDram ==
  ASSUME CopyTypeOK, base = asked[1], size = asked[2], WellFormed,
         NEW m, \A a \in Addr : m[a] # 0 => Off(base, a) < size
  PROVE  \A a \in Addr : m[a] # 0 => InDram(a)
<1>1. /\ base \in Addr /\ base \in Nat /\ size \in Nat /\ Start \in Nat /\ dram[2] \in Nat
      /\ Start <= base /\ base + size <= Start + dram[2] /\ Start + dram[2] <= Space
  BY Dram, Consts DEF CopyTypeOK, CoprocessorTypeOK, TransferTypeOK, Addr, WellFormed
<1>2. base + size <= Space
  BY <1>1, Consts
<1>3. SUFFICES ASSUME NEW a \in Addr, m[a] # 0 PROVE InDram(a)
  OBVIOUS
<1>4. base <= a /\ a < base + size
  BY <1>1, <1>2, <1>3, OffInside
<1>5. a \in Nat
  BY Consts DEF Addr
<1>6. QED BY <1>1, <1>4, <1>5 DEF InDram

\* A chunk is read from the file (ahb.c, ahb_siphon_in).
LEMMA InReadKeeps ==
  ASSUME CopyInv, NEW l, InRead(l), l = IF kind = "run" THEN "loaded" ELSE "close",
         UNCHANGED <<kind, bridge, transferVars, coprocVars>>
  PROVE  CopyInv'
<1> DEFINE most == Least(Least(len, Chunk), input - taken)
           words == size - len
<1>1. /\ pc = "in_read" /\ UNCHANGED <<kind, bridge, at, len, input, out, mem, wide, dram, asked, base,
                                       size, ctrl, conf>>
  BY DEF InRead, transferVars, coprocVars
<1>2. /\ kind \in Writes /\ CopyTypeOK /\ rc = OK /\ InLoop
      /\ base = asked[1] /\ size = asked[2]
      /\ kind = "run" \/ ~ArgsWrap => WellFormed
  BY <1>1
  DEF CopyInv, PlaceOK, ArgsOK, InOK, DramOK, InLabels, Ends, Writes
<1>3. /\ base \in Nat /\ base \in Addr /\ size \in Nat /\ len \in Nat /\ len <= size /\ words \in Nat
      /\ chunk \in Seq(Nat) /\ mem \in [Addr -> Nat] /\ taken \in 0 .. input /\ input \in Nat
      /\ taken = words
  <2>1. base \in Addr /\ size \in Nat /\ chunk \in Seq(Nat) /\ mem \in [Addr -> Nat]
    BY <1>2 DEF CopyTypeOK, CoprocessorTypeOK, TransferTypeOK, SiphonTypeOK
  <2>2. taken \in 0 .. input /\ input \in Nat
    BY <1>2 DEF CopyTypeOK, CoprocessorTypeOK, TransferTypeOK, SiphonTypeOK
  <2>3. len \in 0 .. size /\ taken = words
    BY <1>1, <1>2 DEF InLoop
  <2>4. base \in Nat
    BY <2>1, Consts DEF Addr
  <2>5. QED BY <2>1, <2>2, <2>3, <2>4
<1>4. \A a \in Addr : Off(base, a) \in Nat /\ mem[a] = IF Off(base, a) < words THEN Off(base, a) + 1 ELSE 0
  <2>1. \A a \in Addr : Off(base, a) \in Nat
    BY <1>3, OffNat
  <2>2. QED BY <1>2, <2>1 DEF InLoop
<1> HIDE DEF words
<1>5. InTo(base, size, FALSE)
  BY <1>3, <1>4 DEF InTo, words
<1>6. kind = "run" \/ ~ArgsWrap => \A a \in Addr : mem[a] # 0 => InDram(a)
  BY <1>2, <1>5, AllInDram DEF InTo
<1>7. CASE most = 0 /\ Goto(l) /\ UNCHANGED <<chunk, taken>>
  <2>1. words = size \/ words = input
    BY <1>3, <1>7, Consts DEF Least, words
  <2>2. Least(size, input) <= words
    BY <1>3, <2>1 DEF Least, words
  <2>3. Least(size, input) \in Nat
    BY <1>3 DEF Least
  <2>4. \A a \in Addr : Off(base, a) < Least(size, input) => mem[a] # 0
    BY <1>3, <1>4, <2>2, <2>3
  <2>5. InTo(base, size, TRUE)
    BY <1>5, <2>4 DEF InTo
  <2>6. InTo(base, size, rc = OK)'
    BY <1>1, <2>5 DEF InTo, Off, Least
  <2>7. pc' = l /\ rc' = OK /\ pc \in InLabels
    BY <1>1, <1>2, <1>7 DEF Goto, InLabels
  <2>8. QED
    BY <1>1, <1>3, <1>6, <1>7, <2>6, <2>7, InEnds
<1>8. CASE Fail(l, EIO) /\ UNCHANGED <<chunk, taken>>
  <2>1. pc' = l /\ rc' = EIO /\ pc \in InLabels
    BY <1>1, <1>8 DEF Fail, InLabels
  <2>2. InTo(base, size, rc = OK)'
    BY <1>1, <1>5, <2>1, Codes DEF InTo, Off
  <2>3. QED
    BY <1>1, <1>3, <1>6, <1>8, <2>1, <2>2, InEnds
<1>9. ASSUME NEW n \in 1 .. most, chunk' = [k \in 1 .. n |-> taken + k], taken' = taken + n,
             Goto("in_write")
      PROVE  CopyInv'
  <2>1. n \in Nat /\ n > 0 /\ n <= len /\ taken + n <= input
    BY <1>3, <1>9, Consts DEF Least
  <2>2. /\ chunk' \in Seq(Nat) /\ Len(chunk') = n
        /\ \A k \in 1 .. Len(chunk') : chunk'[k] = words + k
    BY <1>3, <1>9, <2>1
  <2>3. pc' = "in_write" /\ rc' = OK
    BY <1>2, <1>9 DEF Goto
  <2>4. CopyTypeOK'
    <3>1. taken' \in 0 .. input'
      BY <1>1, <1>3, <1>9, <2>1
    <3>2. QED
      BY <1>1, <1>2, <2>2, <2>3, <3>1, Codes
      DEF CopyTypeOK, CoprocessorTypeOK, TransferTypeOK, SiphonTypeOK, Labels, InLabels
  <2>5. PlaceOK' /\ ArgsOK' /\ RefusedOK'
    BY <1>1, <1>2, <2>3, Codes
    DEF PlaceOK, ArgsOK, RefusedOK, Early, OutLabels, InLabels, Prepares, Behind, Ends, Writes
  <2>6. InLoop'
    <3>1. taken' = (size' - len') + Len(chunk') /\ Len(chunk') <= len'
      BY <1>1, <1>3, <1>9, <2>1, <2>2 DEF words
    <3>2. \A k \in 1 .. Len(chunk') : chunk'[k] = (size' - len') + k
      BY <1>1, <2>2 DEF words
    <3>3. /\ len' \in 0 .. size' /\ at' = (base' + (size' - len')) % Space
          /\ \A a \in Addr : mem'[a] = IF Off(base', a) < size' - len' THEN Off(base', a) + 1 ELSE 0
      BY <1>1, <1>2 DEF InLoop
    <3>4. QED BY <2>3, <3>1, <3>2, <3>3 DEF InLoop, Off
  <2>7. InOK'
    BY <2>3, <2>6 DEF InOK, Early, Prepares, InLabels, Behind, Ends
  <2>8. OutOK' /\ PokeOK'
    BY <1>1, <1>2 DEF OutOK, PokeOK, Reads, Writes
  <2>9. DramOK'
    BY <1>1, <1>2, <1>6 DEF DramOK, Writes, ArgsWrap, WellFormed, InDram, Start
  <2>10. CtrlOK'
    BY <1>1, <1>2, <2>3 DEF CopyInv, CtrlOK, InLabels, Writes
  <2>11. QED BY <2>4, <2>5, <2>7, <2>8, <2>9, <2>10 DEF CopyInv
<1>10. QED BY <1>7, <1>8, <1>9 DEF InRead

\* What memory holds once the first n words of a chunk have landed.
LEMMA LandedWords ==
  ASSUME CopyInv, pc = "in_write", NEW n \in 0 .. Len(chunk)
  PROVE  /\ Landed(n) \in [Addr -> Nat]
         /\ \A a \in Addr : Landed(n)[a] = IF Off(base, a) < (size - len) + n THEN Off(base, a) + 1 ELSE 0
<1> DEFINE words == size - len
<1>1. kind \in Writes /\ CopyTypeOK /\ InLoop /\ base = asked[1] /\ size = asked[2]
  BY DEF CopyInv, PlaceOK, ArgsOK, InOK, InLabels, Writes
<1>2. /\ base \in Addr /\ size \in Nat /\ chunk \in Seq(Nat) /\ Len(chunk) \in Nat
      /\ mem \in [Addr -> Nat] /\ size < Space
  BY <1>1, Asked, Consts DEF CopyTypeOK, CoprocessorTypeOK, TransferTypeOK, SiphonTypeOK, Addr
<1>3. /\ len \in 0 .. size /\ at = (base + words) % Space /\ Len(chunk) <= len
      /\ \A k \in 1 .. Len(chunk) : chunk[k] = words + k
      /\ \A a \in Addr : mem[a] = IF Off(base, a) < words THEN Off(base, a) + 1 ELSE 0
  BY <1>1 DEF InLoop
<1>4. words \in Nat /\ n \in Nat /\ n <= Len(chunk) /\ words + n < Space
  BY <1>2, <1>3, Consts
<1> HIDE DEF words
<1>5. \A a \in Addr : Landed(n)[a] = IF Off(base, a) < words + n THEN Off(base, a) + 1 ELSE 0
  <2>1. SUFFICES ASSUME NEW a \in Addr
                 PROVE  (IF Off(at, a) < n THEN chunk[Off(at, a) + 1] ELSE mem[a])
                          = IF Off(base, a) < words + n THEN Off(base, a) + 1 ELSE 0
    BY DEF Landed
  <2>2. /\ Off(at, a) \in Nat /\ Off(base, a) \in Nat
        /\ Off(at, a) < n => Off(base, a) = words + Off(at, a)
        /\ Off(base, a) < words + n => Off(base, a) < words \/ Off(at, a) < n
    <3> DEFINE next == (base + words) % Space
    <3>1. /\ Off(next, a) \in Nat /\ Off(base, a) \in Nat
          /\ Off(next, a) < n => Off(base, a) = words + Off(next, a)
          /\ Off(base, a) < words + n => Off(base, a) < words \/ Off(next, a) < n
      BY <1>2, <1>4, LandedAt
    <3>2. at = next
      BY <1>3
    <3>3. QED BY <3>1, <3>2
  <2>3. CASE Off(at, a) < n
    <3>1. Off(at, a) + 1 \in 1 .. Len(chunk)
      BY <1>2, <1>4, <2>2, <2>3
    <3>2. chunk[Off(at, a) + 1] = words + (Off(at, a) + 1)
      BY <1>3, <3>1
    <3>3. QED BY <1>4, <2>2, <2>3, <3>2
  <2>4. CASE ~(Off(at, a) < n)
    BY <1>3, <1>4, <2>2, <2>4
  <2>5. QED BY <2>3, <2>4
<1>6. Landed(n) \in [Addr -> Nat]
  <2>1. \A a \in Addr : Landed(n)[a] \in Nat
    BY <1>2, <1>5, OffNat
  <2>2. QED BY <2>1 DEF Landed
<1>7. QED BY <1>5, <1>6 DEF words

\* A chunk is written to the AHB, or a part of it before a failure (ahb.c,
\* ahb_siphon_in).
LEMMA InWriteKeeps ==
  ASSUME CopyInv, NEW l, InWrite(l), l = IF kind = "run" THEN "loaded" ELSE "close",
         UNCHANGED <<kind, bridge, transferVars, coprocVars>>
  PROVE  CopyInv'
<1> DEFINE n == Len(chunk)
<1>1. /\ pc = "in_write" /\ UNCHANGED <<kind, bridge, chunk, input, taken, out, wide, dram, asked, base,
                                        size, ctrl, conf>>
  BY DEF InWrite, transferVars, coprocVars
<1>2. /\ kind \in Writes /\ CopyTypeOK /\ rc = OK /\ InLoop
      /\ base = asked[1] /\ size = asked[2]
      /\ kind = "run" \/ ~ArgsWrap => WellFormed
  BY <1>1 DEF CopyInv, PlaceOK, ArgsOK, InOK, DramOK, InLabels, Ends, Writes
<1>3. /\ base \in Addr /\ size \in Nat /\ chunk \in Seq(Nat) /\ n \in Nat /\ taken \in 0 .. input
  BY <1>2 DEF CopyTypeOK, CoprocessorTypeOK, TransferTypeOK, SiphonTypeOK
<1>4. len \in 0 .. size /\ n <= len /\ taken = (size - len) + n /\ at = (base + (size - len)) % Space
  BY <1>1, <1>2 DEF InLoop
<1>5. ASSUME NEW k \in 0 .. n, mem' = Landed(k)
      PROVE  /\ mem' \in [Addr -> Nat]
             /\ \A a \in Addr : mem'[a] = IF Off(base, a) < (size - len) + k THEN Off(base, a) + 1 ELSE 0
             /\ \A a \in Addr : mem'[a] # 0 => Off(base, a) < size /\ mem'[a] = Off(base, a) + 1
             /\ kind = "run" \/ ~ArgsWrap => \A a \in Addr : mem'[a] # 0 => InDram(a)
  <2>1. /\ mem' \in [Addr -> Nat]
        /\ \A a \in Addr : mem'[a] = IF Off(base, a) < (size - len) + k THEN Off(base, a) + 1 ELSE 0
    BY <1>1, <1>5, LandedWords
  <2>2. \A a \in Addr : mem'[a] # 0 => Off(base, a) < size /\ mem'[a] = Off(base, a) + 1
    <3>1. \A a \in Addr : Off(base, a) \in Nat
      BY <1>3, OffNat
    <3>2. (size - len) + k <= size /\ (size - len) + k \in Nat
      BY <1>3, <1>4
    <3>3. QED BY <1>3, <2>1, <3>1, <3>2
  <2>3. kind = "run" \/ ~ArgsWrap => \A a \in Addr : mem'[a] # 0 => InDram(a)
    BY <1>2, <2>2, AllInDram
  <2>4. QED BY <2>1, <2>2, <2>3
<1>6. CASE Fail(l, EIO) /\ (\E k \in 0 .. n : mem' = Landed(k)) /\ UNCHANGED <<at, len>>
  <2>1. PICK k \in 0 .. n : mem' = Landed(k)
    BY <1>6
  <2>2. pc' = l /\ rc' = EIO /\ pc \in InLabels
    BY <1>1, <1>6 DEF Fail, InLabels
  <2>3. InTo(base, size, rc = OK)'
    BY <1>1, <1>5, <2>1, <2>2, Codes DEF InTo, Off
  <2>4. QED
    BY <1>1, <1>3, <1>5, <1>6, <2>1, <2>2, <2>3, InEnds
<1>7. CASE Goto("in_read") /\ mem' = Landed(n) /\ at' = After(n) /\ len' = len - n
  <2>1. pc' = "in_read" /\ rc' = OK
    BY <1>2, <1>7 DEF Goto
  <2>2. n \in 0 .. n
    BY <1>3
  <2>3. /\ mem' \in [Addr -> Nat]
        /\ \A a \in Addr : mem'[a] = IF Off(base, a) < (size - len) + n THEN Off(base, a) + 1 ELSE 0
        /\ kind = "run" \/ ~ArgsWrap => \A a \in Addr : mem'[a] # 0 => InDram(a)
    BY <1>5, <1>7, <2>2
  <2>4. size - len' = (size - len) + n /\ len' \in 0 .. size
    BY <1>3, <1>4, <1>7
  <2>5. at' = (base + ((size - len) + n)) % Space /\ at' \in Addr
    <3> DEFINE w == size - len
    <3>1. w \in Nat /\ w + n < Space
      <4>1. size < Space
        BY <1>2, Asked, Consts DEF CopyTypeOK, CoprocessorTypeOK, TransferTypeOK, Addr
      <4>2. QED BY <1>3, <1>4, <4>1, Consts
    <3>2. at = (base + w) % Space /\ at' = (at + n) % Space
      BY <1>4, <1>7 DEF After
    <3> HIDE DEF n, w
    <3>3. (((base + w) % Space) + n) % Space = (base + (w + n)) % Space
      BY <1>3, <3>1, WrapTwice
    <3>4. base + (w + n) \in Nat
      BY <1>3, <3>1, Consts DEF Addr
    <3>5. (base + (w + n)) % Space \in Addr
      BY <3>4, ModAddr
    <3>6. QED BY <3>2, <3>3, <3>5 DEF n, w
  <2>6. CopyTypeOK'
    <3>1. at' \in Nat /\ len' \in Int
      BY <1>3, <2>4, <2>5, Consts DEF Addr
    <3>2. QED
      BY <1>1, <1>2, <2>1, <2>3, <2>5, <3>1, Codes
      DEF CopyTypeOK, CoprocessorTypeOK, TransferTypeOK, SiphonTypeOK, Labels, InLabels
  <2>7. PlaceOK' /\ ArgsOK' /\ RefusedOK'
    BY <1>1, <1>2, <2>1, Codes
    DEF PlaceOK, ArgsOK, RefusedOK, Early, OutLabels, InLabels, Prepares, Behind, Ends, Writes
  <2>8. InLoop'
    <3>1. taken' = size' - len'
      BY <1>1, <1>4, <2>4
    <3>2. /\ len' \in 0 .. size' /\ at' = (base' + (size' - len')) % Space
          /\ \A a \in Addr : mem'[a] = IF Off(base', a) < size' - len' THEN Off(base', a) + 1 ELSE 0
      BY <1>1, <2>3, <2>4, <2>5
    <3>3. QED BY <2>1, <3>1, <3>2 DEF InLoop, Off
  <2>9. InOK'
    BY <2>1, <2>8 DEF InOK, Early, Prepares, InLabels, Behind, Ends
  <2>10. OutOK' /\ PokeOK'
    BY <1>1, <1>2 DEF OutOK, PokeOK, Reads, Writes
  <2>11. DramOK'
    BY <1>1, <1>2, <2>3 DEF DramOK, Writes, ArgsWrap, WellFormed, InDram, Start
  <2>12. CtrlOK'
    BY <1>1, <1>2, <2>1 DEF CopyInv, CtrlOK, InLabels, Writes
  <2>13. QED BY <2>6, <2>7, <2>9, <2>10, <2>11, <2>12 DEF CopyInv
<1>8. QED BY <1>6, <1>7 DEF InWrite

-----------------------------------------------------------------------------
\* A single access ends the command: one that fails may have been made.
LEMMA AccessKeeps ==
  ASSUME CopyInv, Access, UNCHANGED <<kind, coprocVars>>
  PROVE  CopyInv'
<1>1. /\ pc = "access" /\ UNCHANGED <<kind, bridge, at, len, chunk, input, taken, wide, dram, asked,
                                      base, size, ctrl, conf>>
  BY DEF Access, transferVars, coprocVars, siphonVars
<1>2. /\ kind \in {"peek", "poke"} /\ CopyTypeOK /\ rc = OK /\ base = asked[1]
      /\ base \in Addr /\ base \in Nat
  BY <1>1, Consts
  DEF CopyInv, PlaceOK, ArgsOK, Ends, CopyTypeOK, CoprocessorTypeOK, TransferTypeOK, Addr
<1>3. /\ pc' \in Ends /\ rc' \in {OK, EIO}
      /\ \/ mem' = mem
         \/ kind = "poke" /\ mem' = [mem EXCEPT ![base] = 1]
      /\ \/ out' = out /\ (rc' = OK => kind = "poke")
         \/ kind = "peek" /\ out' = <<base>>
  <2>1. CASE kind = "peek" /\ Goto("close") /\ out' = <<base>> /\ mem' = mem
    BY <1>2, <2>1 DEF Goto, Ends
  <2>2. CASE kind = "poke" /\ Goto("close") /\ mem' = [mem EXCEPT ![base] = 1] /\ out' = out
    BY <1>2, <2>2 DEF Goto, Ends
  <2>3. CASE Fail("end", EIO) /\ UNCHANGED siphonVars
    BY <2>3, Codes DEF Fail, Ends, siphonVars
  <2>4. CASE kind = "poke" /\ Fail("end", EIO) /\ mem' = [mem EXCEPT ![base] = 1] /\ out' = out
    BY <2>4 DEF Fail, Ends
  <2>5. QED BY <2>1, <2>2, <2>3, <2>4 DEF Access
<1>4. kind = "peek" => out = <<>>
  BY <1>1 DEF CopyInv, OutOK, Reads, Early
<1>5. CopyTypeOK'
  <2>1. mem' \in [Addr -> Nat]
    BY <1>2, <1>3 DEF CopyTypeOK, CoprocessorTypeOK, TransferTypeOK, SiphonTypeOK
  <2>2. out' \in Seq(Nat)
    <3>1. out \in Seq(Nat) /\ <<base>> \in Seq(Nat)
      BY <1>2 DEF CopyTypeOK, CoprocessorTypeOK, TransferTypeOK, SiphonTypeOK
    <3>2. QED BY <1>3, <3>1
  <2>3. QED
    BY <1>1, <1>2, <1>3, <2>1, <2>2, Codes
    DEF CopyTypeOK, CoprocessorTypeOK, TransferTypeOK, SiphonTypeOK, Labels
<1>6. PlaceOK' /\ ArgsOK' /\ RefusedOK'
  BY <1>1, <1>2, <1>3, Codes
  DEF CopyInv, PlaceOK, ArgsOK, RefusedOK, Early, OutLabels, InLabels, Prepares, Behind, Ends
<1>7. OutOK'
  <2>1. SUFFICES ASSUME kind = "peek" PROVE OutOf(Wanted[1], Wanted[2], rc = OK)'
    BY <1>1, <1>2, <1>3 DEF OutOK, Reads, Early, OutLabels, Ends
  <2>2. Wanted' = <<base, 1>>
    BY <1>1, <1>2, <2>1 DEF Wanted
  <2>3. OutOf(base, 1, rc = OK)'
    <3>1. CASE out' = <<base>>
      <4>1. Len(out') = 1 /\ out'[1] = base' + 1 - 1
        BY <1>1, <1>2, <3>1
      <4>2. QED BY <4>1 DEF OutOf
    <3>2. CASE out' = <<>> /\ rc' # OK
      BY <3>2 DEF OutOf
    <3>3. QED BY <1>3, <1>4, <2>1, <3>1, <3>2
  <2>4. QED BY <1>1, <2>2, <2>3 DEF OutOf
<1>8. InOK' /\ DramOK' /\ CtrlOK'
  BY <1>1, <1>2 DEF InOK, DramOK, CtrlOK, Writes, Coprocs
<1>9. PokeOK'
  <2>1. SUFFICES ASSUME kind = "poke", NEW a \in Addr, mem'[a] # 0 PROVE a = asked[1]
    BY <1>1, <1>3 DEF PokeOK
  <2>2. mem[a] = 0
    BY <1>1, <2>1 DEF CopyInv, PokeOK, Ends
  <2>3. QED
    BY <1>2, <1>3, <2>1, <2>2 DEF CopyTypeOK, CoprocessorTypeOK, TransferTypeOK, SiphonTypeOK
<1>10. QED BY <1>5, <1>6, <1>7, <1>8, <1>9 DEF CopyInv

-----------------------------------------------------------------------------
\* The steps of the coprocessor that move nothing.
LEMMA RunRangeKeeps ==
  ASSUME CopyInv, RunRange, UNCHANGED kind
  PROVE  CopyInv'
<1>1. /\ kind = "run" /\ pc = "range" /\ base = asked[1] /\ size = asked[2] /\ CopyTypeOK
      /\ UNCHANGED <<kind, bridge, siphonVars, transferVars, ctrl, conf>> /\ rc = OK
  BY DEF RunRange, CopyInv, ArgsOK, PlaceOK, Ends, Registers, Keep, coprocVars
<1> DEFINE bad == (base + size) % Space < base \/ base < Start \/ ArgEnd > DramEnd
<1>2. CASE bad
  <2>1. pc' = "close" /\ rc' = EINVAL
    BY <1>2 DEF RunRange, Fail
  <2>2. base < Start \/ ArgEnd > DramEnd \/ base + size >= Space
    <3>1. CASE (base + size) % Space < base
      <4>1. base \in Nat /\ size \in Nat
        BY <1>1, Consts DEF CopyTypeOK, CoprocessorTypeOK, TransferTypeOK, Addr
      <4>2. ~(base + size < Space)
        <5>1. SUFFICES ASSUME base + size < Space PROVE FALSE
          OBVIOUS
        <5>2. (base + size) % Space = base + size
          BY <4>1, <5>1, Wrap, Consts
        <5>3. QED BY <3>1, <4>1, <5>2
      <4>3. QED BY <4>1, <4>2, Consts
    <3>2. QED BY <1>2, <3>1
  <2>3. QED
    BY <1>1, <2>1, <2>2, RefusedKeeps DEF Refused, Fail, Keep, coprocVars, transferVars,
       siphonVars
<1>3. CASE ~bad
  <2>1. pc' = "disable" /\ rc' = rc
    BY <1>3 DEF RunRange, Goto
  <2>2. WellFormed
    <3>1. base + size < Space
      BY <1>1, <1>3, Sums
    <3>2. ~ArgsWrap
      <4>1. base \in Nat /\ size \in Nat
        BY <1>1, Consts DEF CopyTypeOK, CoprocessorTypeOK, TransferTypeOK, Addr
      <4>2. QED BY <1>1, <3>1, <4>1, Consts DEF ArgsWrap
    <3>3. QED BY <1>1, <1>3, <3>2, Sums
  <2>3. PlaceOK' /\ ArgsOK' /\ CtrlOK'
    BY <1>1, <2>1
    DEF CopyInv, PlaceOK, ArgsOK, CtrlOK, Early, OutLabels, InLabels, Prepares, Behind, Ends,
        transferVars
  <2>4. ctrl' \in {"off", "reset", "on"} /\ conf' \subseteq Set /\ bridge' \in BOOLEAN /\ rc' \in Int
    BY <1>1, <2>1, Codes DEF CopyTypeOK, CoprocessorTypeOK, TransferTypeOK, SiphonTypeOK
  <2>5. QED
    BY <1>1, <2>1, <2>2, <2>3, <2>4, StillStep
    DEF Labels, Early, OutLabels, InLabels, Prepares, Behind, Ends
<1>4. QED BY <1>2, <1>3

\* A coprocessor is stopped wherever its memory lies (cmd/coprocessor.c).
LEMMA StopRangeKeeps ==
  ASSUME CopyInv, StopRange, UNCHANGED kind
  PROVE  CopyInv'
<1>1. /\ kind = "stop" /\ pc = "range" /\ pc' = "halt" /\ rc' = rc
      /\ UNCHANGED <<kind, bridge, siphonVars, transferVars, ctrl, conf>>
  BY DEF StopRange, Goto, Registers, Keep, coprocVars
<1>2. PlaceOK' /\ ArgsOK' /\ CtrlOK'
  BY <1>1
  DEF CopyInv, PlaceOK, ArgsOK, CtrlOK, Early, OutLabels, InLabels, Prepares, Behind, Ends,
     transferVars
<1>3. /\ rc = OK /\ rc' \in Int /\ ctrl' \in {"off", "reset", "on"} /\ conf' \subseteq Set
      /\ bridge' \in BOOLEAN
  BY <1>1, Codes
  DEF CopyInv, PlaceOK, Ends, CopyTypeOK, CoprocessorTypeOK, TransferTypeOK, SiphonTypeOK
<1>4. QED
  BY <1>1, <1>2, <1>3, StillStep DEF Labels, Early, OutLabels, InLabels, Prepares, Behind, Ends

\* The enable and reset bits of the coprocessor (cmd/coprocessor.c).
LEMMA ControlKeeps ==
  ASSUME CopyInv, NEW from, NEW value, NEW to, Control(from, value, to), UNCHANGED kind,
         \/ <<from, value, to>> = <<"halt", "off", "close">>
         \/ <<from, value, to>> = <<"disable", "off", "assert">>
         \/ <<from, value, to>> = <<"assert", "reset", "load">>
         \/ <<from, value, to>> = <<"release", "off", "enable">>
         \/ <<from, value, to>> = <<"enable", "on", "close">>
  PROVE  CopyInv'
<1>1. /\ pc = from /\ UNCHANGED <<kind, bridge, siphonVars, transferVars, conf>>
      /\ \/ pc' = to /\ rc' = rc /\ ctrl' = value
         \/ pc' = "close" /\ rc' = EIO /\ ctrl' \in {ctrl, value}
  BY DEF Control, Goto, Fail, Keep
<1>2. /\ from \in {"halt", "disable", "assert", "release", "enable"}
      /\ from = "halt" => value = "off" /\ to = "close" /\ kind = "stop"
      /\ from = "disable" => value = "off" /\ to = "assert"
      /\ from = "assert" => value = "reset" /\ to = "load"
      /\ from = "release" => value = "off" /\ to = "enable"
      /\ from = "enable" => value = "on" /\ to = "close"
      /\ from # "halt" => kind = "run"
      /\ rc = OK
  BY <1>1 DEF CopyInv, PlaceOK, Prepares, Behind, Ends
<1>3. PlaceOK' /\ ArgsOK'
  BY <1>1, <1>2, Codes
  DEF CopyInv, PlaceOK, ArgsOK, Early, OutLabels, InLabels, Prepares, Behind, Ends, transferVars
<1>4. CtrlOK'
  BY <1>1, <1>2, Codes DEF CopyInv, CtrlOK, InLabels
<1>5. rc' \in Int /\ ctrl' \in {"off", "reset", "on"} /\ conf' \subseteq Set /\ bridge' \in BOOLEAN
  BY <1>1, <1>2, Codes
  DEF CopyInv, CopyTypeOK, CoprocessorTypeOK, TransferTypeOK, SiphonTypeOK
<1>6. pc' \in Prepares => WellFormed
  BY <1>1, <1>2 DEF CopyInv, DramOK, Prepares
<1>7. QED
  BY <1>1, <1>2, <1>3, <1>4, <1>5, <1>6, StillStep, Codes
  DEF Labels, Early, OutLabels, InLabels, Prepares, Behind, Ends

\* The coprocessor is loaded, or is not (cmd/coprocessor.c).
LEMMA LoadedKeeps ==
  ASSUME CopyInv, Loaded, UNCHANGED kind
  PROVE  CopyInv'
<1>1. /\ pc = "loaded" /\ rc' = rc /\ pc' = IF rc = OK THEN "configure" ELSE "close"
      /\ UNCHANGED <<kind, bridge, siphonVars, transferVars, ctrl, conf>>
  BY DEF Loaded, Goto, Registers, Keep, coprocVars
<1>2. kind = "run" /\ ctrl = "reset"
  BY <1>1 DEF CopyInv, PlaceOK, CtrlOK, Behind
<1>3. PlaceOK' /\ ArgsOK' /\ CtrlOK'
  BY <1>1, <1>2
  DEF CopyInv, PlaceOK, ArgsOK, CtrlOK, Early, OutLabels, InLabels, Prepares, Behind, Ends,
     transferVars
<1>4. rc' \in Int /\ ctrl' \in {"off", "reset", "on"} /\ conf' \subseteq Set /\ bridge' \in BOOLEAN
  BY <1>1 DEF CopyInv, CopyTypeOK, CoprocessorTypeOK, TransferTypeOK, SiphonTypeOK
<1>5. rc' = EINVAL => rc = EINVAL
  BY <1>1
<1>6. QED
  BY <1>1, <1>3, <1>4, <1>5, StillStep DEF Labels, Early, OutLabels, InLabels, Prepares,
     Behind, Ends

\* The registers of the coprocessor are set (cmd/coprocessor.c).
LEMMA ConfigureKeeps ==
  ASSUME CopyInv, Configure, UNCHANGED kind
  PROVE  CopyInv'
<1>1. /\ pc = "configure" /\ UNCHANGED <<kind, bridge, siphonVars, transferVars, ctrl>>
  BY DEF Configure, Keep
<1>2. kind = "run" /\ ctrl = "reset" /\ rc = OK /\ conf \subseteq Set
  BY <1>1 DEF CopyInv, PlaceOK, CtrlOK, Behind, Ends, CopyTypeOK, CoprocessorTypeOK
<1>3. /\ conf' \subseteq Set
      /\ \/ pc' = pc /\ rc' = rc
         \/ pc' = "release" /\ rc' = rc /\ conf' = Set
         \/ pc' = "close" /\ rc' = EIO
  <2>1. ASSUME NEW k \in 1 .. Len(Regs),
               \/ Goto(pc) /\ conf' = conf \union {Regs[k]}
               \/ Fail("close", EIO) /\ conf' \in {conf, conf \union {Regs[k]}}
        PROVE  conf' \subseteq Set /\ ((pc' = pc /\ rc' = rc) \/ (pc' = "close" /\ rc' = EIO))
    <3>1. Regs[k] \in Set
      BY DEF Set
    <3>2. conf' \subseteq Set
      BY <1>2, <2>1, <3>1
    <3>3. CASE Goto(pc) /\ conf' = conf \union {Regs[k]}
      BY <3>2, <3>3 DEF Goto
    <3>4. CASE Fail("close", EIO) /\ conf' \in {conf, conf \union {Regs[k]}}
      BY <3>2, <3>4 DEF Fail
    <3>5. QED BY <2>1, <3>3, <3>4
  <2>2. CASE conf = Set /\ Goto("release") /\ UNCHANGED conf
    BY <2>2 DEF Goto
  <2>3. CASE conf = Set /\ Fail("close", EIO) /\ UNCHANGED conf
    BY <2>3 DEF Fail
  <2>4. QED BY <2>1, <2>2, <2>3 DEF Configure
<1>4. PlaceOK' /\ ArgsOK'
  BY <1>1, <1>2, <1>3, Codes
  DEF CopyInv, PlaceOK, ArgsOK, Early, OutLabels, InLabels, Prepares, Behind, Ends, transferVars
<1>5. CtrlOK'
  BY <1>1, <1>2, <1>3, Codes DEF CtrlOK, InLabels
<1>6. rc' \in Int /\ ctrl' \in {"off", "reset", "on"} /\ bridge' \in BOOLEAN
  BY <1>1, <1>2, <1>3, Codes DEF CopyInv, CopyTypeOK, CoprocessorTypeOK, TransferTypeOK,
     SiphonTypeOK
<1>7. QED
  BY <1>1, <1>2, <1>3, <1>4, <1>5, <1>6, StillStep, Codes
  DEF Labels, Early, OutLabels, InLabels, Prepares, Behind, Ends

-----------------------------------------------------------------------------
\* Every step keeps the invariant: one lemma for each action.
LEMMA CopyKeeps ==
  ASSUME CopyInv, Copy
  PROVE  CopyInv'
<1>1. UNCHANGED <<kind, coprocVars>> /\ kind \in Kinds
  BY DEF Copy, TransferStep
<1>2. CASE Check
  BY <1>1, <1>2, CheckKeeps
<1>3. CASE Open
  BY <1>1, <1>3, OpenKeeps
<1>4. CASE Probe
  BY <1>1, <1>4, ProbeKeeps
<1>5. CASE ReadRange
  BY <1>1, <1>5, ReadRangeKeeps
<1>6. CASE WriteRange
  BY <1>1, <1>6, WriteRangeKeeps
<1>7. CASE ReadFlash
  BY <1>1, <1>7, ReadFlashKeeps
<1>8. CASE Access
  BY <1>1, <1>8, AccessKeeps
<1>9. CASE Siphoning
  <2>1. kind # "run" /\ UNCHANGED <<bridge, transferVars>>
    BY <1>1, <1>9 DEF Siphoning, Kinds
  <2>2. QED
    BY <1>1, <1>9, <2>1, OutReadKeeps, OutWriteKeeps, InReadKeeps, InWriteKeeps
    DEF Siphoning, ahb_siphon_out, ahb_siphon_in
<1>10. CASE Close /\ UNCHANGED transferVars
  BY <1>1, <1>10, CloseKeeps
<1>11. QED
  BY <1>2, <1>3, <1>4, <1>5, <1>6, <1>7, <1>8, <1>9, <1>10 DEF Copy, TransferStep

\* Any step of the coprocessor commands.
LEMMA CoprocessKeeps ==
  ASSUME CopyInv, Coprocess
  PROVE  CopyInv'
<1>1. UNCHANGED kind /\ kind \in {"run", "stop"}
  BY DEF Coprocess, CoprocessorStep
<1>2. CASE (Open \/ Probe) /\ Registers
  BY <1>1, <1>2, OpenKeeps, ProbeKeeps DEF Registers
<1>3. CASE RunRange
  BY <1>1, <1>3, RunRangeKeeps
<1>4. CASE StopRange
  BY <1>1, <1>4, StopRangeKeeps
<1>5. CASE Halt
  BY <1>1, <1>5, ControlKeeps DEF Halt
<1>6. CASE Disable
  BY <1>1, <1>6, ControlKeeps DEF Disable
<1>7. CASE Assert
  BY <1>1, <1>7, ControlKeeps DEF Assert
<1>8. CASE Load
  BY <1>1, <1>8, LoadKeeps
<1>9. CASE ahb_siphon_in("loaded") /\ Registers /\ UNCHANGED <<bridge, transferVars>>
  <2>1. kind = "run"
    <3>1. pc \in InLabels
      BY <1>9 DEF ahb_siphon_in, InRead, InWrite, InLabels
    <3>2. QED BY <1>1, <3>1 DEF CopyInv, PlaceOK, Writes
  <2>2. QED
    BY <1>1, <1>9, <2>1, InReadKeeps, InWriteKeeps DEF ahb_siphon_in, Registers
<1>10. CASE Loaded
  BY <1>1, <1>10, LoadedKeeps
<1>11. CASE Configure
  BY <1>1, <1>11, ConfigureKeeps
<1>12. CASE Release
  BY <1>1, <1>12, ControlKeeps DEF Release
<1>13. CASE Enable
  BY <1>1, <1>13, ControlKeeps DEF Enable
<1>14. CASE Close /\ Registers /\ UNCHANGED transferVars
  BY <1>1, <1>14, CloseKeeps DEF Registers
<1>15. QED
  BY <1>2, <1>3, <1>4, <1>5, <1>6, <1>7, <1>8, <1>9, <1>10, <1>11, <1>12, <1>13, <1>14
  DEF Coprocess, CoprocessorStep

\* A command is one command to its end.
LEMMA KindStays ==
  ASSUME [Next]_vars
  PROVE  kind' = kind
<1>1. CASE UNCHANGED vars
  BY <1>1 DEF vars, ahbVars
<1>2. CASE Copy \/ Coprocess
  BY <1>2 DEF Copy, TransferStep, Coprocess, CoprocessorStep
<1>3. CASE ReplaceRam
  BY <1>3 DEF ReplaceRam, ReplaceStep, Poke, ahbVars
<1>4. CASE TraceBus
  BY <1>4 DEF TraceBus, TraceNext, TraceStep, Recorder, ahbVars
<1>5. CASE Serve \/ Call
  BY <1>5 DEF Serve, Call, JtagStep, Connect, ahbVars
<1>6. QED BY <1>1, <1>2, <1>3, <1>4, <1>5 DEF Next

\* The other commands and their environment do not step a copy.
LEMMA CopyStep ==
  ASSUME kind \in Copies, [Next]_vars
  PROVE  Copy \/ Coprocess \/ UNCHANGED vars
<1>1. kind \notin {"replace", "trace", "jtag"}
  BY DEF Copies, Kinds, Coprocs
<1>2. ~ReplaceRam
  BY <1>1 DEF ReplaceRam, ReplaceStep, Poke
<1>3. ~TraceBus
  BY <1>1 DEF TraceBus, TraceNext, TraceStep, Recorder
<1>4. ~Serve /\ ~Call
  BY <1>1 DEF Serve, Call, JtagStep, Connect
<1>5. QED BY <1>2, <1>3, <1>4 DEF Next

\* A step that changes nothing.
LEMMA IdleKeeps ==
  ASSUME CopyInv, UNCHANGED vars
  PROVE  CopyInv'
<1>1. UNCHANGED <<kind, pc, rc, bridge, at, len, chunk, input, taken, out, mem, wide, dram, asked, base,
                  size, ctrl, conf>>
  BY DEF vars, ahbVars, siphonVars, transferVars, coprocVars
<1>2. Wanted' = Wanted
  BY <1>1 DEF Wanted, Start, Vram
<1>3. CopyTypeOK' /\ PlaceOK' /\ ArgsOK' /\ RefusedOK'
  BY <1>1
  DEF CopyInv, CopyTypeOK, CoprocessorTypeOK, TransferTypeOK, SiphonTypeOK, PlaceOK, ArgsOK,
     RefusedOK,
      Reason, WellFormed, DramWraps, Start
<1>4. OutOK'
  BY <1>1, <1>2 DEF CopyInv, OutOK, OutLoop, OutOf
<1>5. InOK' /\ PokeOK'
  BY <1>1 DEF CopyInv, InOK, InLoop, InTo, Fresh, Off, PokeOK
<1>6. DramOK' /\ CtrlOK'
  BY <1>1 DEF CopyInv, DramOK, WellFormed, ArgsWrap, InDram, Start, CtrlOK
<1>7. QED BY <1>3, <1>4, <1>5, <1>6 DEF CopyInv

\* Any step keeps the invariant.
LEMMA NextIInv ==
  ASSUME IInv, [Next]_vars
  PROVE  IInv'
<1>1. CASE kind \in {"replace", "trace", "jtag"}
  BY <1>1, KindStays DEF IInv
<1>2. CASE CopyInv
  <2>1. kind \in Copies
    BY <1>2 DEF CopyInv, CopyTypeOK
  <2>2. Copy \/ Coprocess \/ UNCHANGED vars
    BY <2>1, CopyStep
  <2>3. CopyInv'
    BY <1>2, <2>2, CopyKeeps, CoprocessKeeps, IdleKeeps
  <2>4. QED BY <2>3 DEF IInv
<1>3. QED BY <1>1, <1>2 DEF IInv

-----------------------------------------------------------------------------
\* What the invariant says of the end is what is promised of a copy.
LEMMA InvCopied == CopyInv => Copied
<1> SUFFICES ASSUME CopyInv PROVE Copied
  OBVIOUS
<1>1. CopyTypeOK
  BY DEF CopyInv
<1>2. ASSUME kind \in Reads PROVE OutOf(Wanted[1], Wanted[2], Done)
  <2>1. pc \in Early \union OutLabels \union Ends
    BY <1>1, <1>2 DEF CopyInv, CopyTypeOK, PlaceOK, Labels, Reads, Writes
  <2>2. CASE pc \in Early
    <3>1. out = <<>> /\ ~Done
      BY <1>2, <2>2 DEF CopyInv, OutOK, Done, Early
    <3>2. Wanted[2] \in Nat
      BY <1>1, WantedOK DEF CopyTypeOK, CoprocessorTypeOK, TransferTypeOK
    <3>3. QED BY <3>1, <3>2 DEF OutOf
  <2>3. CASE pc \in OutLabels
    <3>1. OutLoop /\ ~Done
      BY <1>2, <2>3 DEF CopyInv, OutOK, Done, OutLabels
    <3>2. Len(out) <= size
      BY <1>1, <3>1 DEF OutLoop, CopyTypeOK, CoprocessorTypeOK, TransferTypeOK, SiphonTypeOK
    <3>3. QED BY <3>1, <3>2 DEF OutOf, OutLoop
  <2>4. CASE pc \in Ends
    BY <1>2, <2>4 DEF CopyInv, OutOK, Done, OutOf
  <2>5. QED BY <2>1, <2>2, <2>3, <2>4
<1>3. ASSUME kind = "write_ram" PROVE InTo(asked[1], asked[2], Done)
  <2>1. pc \in Early \union InLabels \union Ends
    BY <1>1, <1>3 DEF CopyInv, CopyTypeOK, PlaceOK, Labels
  <2>2. CASE pc \in Early
    <3>1. Fresh /\ ~Done
      BY <1>3, <2>2 DEF CopyInv, InOK, Writes, Done, Early
    <3>2. QED BY <3>1 DEF Fresh, InTo
  <2>3. CASE pc \in InLabels
    <3>1. InLoop /\ ~Done /\ base = asked[1] /\ size = asked[2]
      BY <1>3, <2>3 DEF CopyInv, InOK, ArgsOK, Writes, Done, InLabels
    <3>2. base \in Addr /\ size \in Nat /\ len \in 0 .. size
      BY <1>1, <3>1 DEF InLoop, CopyTypeOK, CoprocessorTypeOK, TransferTypeOK
    <3>3. \A a \in Addr : mem[a] # 0 => Off(base, a) < size /\ mem[a] = Off(base, a) + 1
      <4>1. \A a \in Addr : Off(base, a) \in Nat
        BY <3>2, OffNat
      <4>2. size - len <= size /\ size - len \in Nat
        BY <3>2
      <4>3. QED BY <3>1, <3>2, <4>1, <4>2 DEF InLoop
    <3>4. QED BY <3>1, <3>3 DEF InTo
  <2>4. CASE pc \in Ends
    <3>1. InTo(asked[1], asked[2], rc = OK)
      BY <1>3, <2>4 DEF CopyInv, InOK, Writes
    <3>2. QED BY <3>1 DEF InTo, Done
  <2>5. QED BY <2>1, <2>2, <2>3, <2>4
<1>4. kind = "poke" => \A a \in Addr : mem[a] # 0 => a = asked[1]
  BY DEF CopyInv, PokeOK
<1>5. QED BY <1>2, <1>3, <1>4 DEF Copied, Reads

\* What the invariant says of DRAM is what is promised of the ranges.
LEMMA InvRangeChecked == CopyInv => RangeChecked
  BY DEF CopyInv, DramOK, RefusedOK, Reason, RangeChecked

\* Of the steps of the coprocessor.
LEMMA StepLetsGo ==
  ASSUME CopyInv, kind \in Coprocs, [Next]_vars, ~UNCHANGED ctrlVars
  PROVE  /\ ctrl = "on" => UNCHANGED <<mem, conf>>
         /\ ctrl' = "on" /\ ctrl # "on" =>
              /\ conf = Set /\ InTo(base, size, TRUE)
              /\ \A a \in Addr : mem[a] # 0 => InDram(a)
         /\ pc' = "end" /\ rc' = OK => ctrl' = IF kind = "run" THEN "on" ELSE "off"
<1> DEFINE Kept == ctrl = "on" => UNCHANGED <<mem, conf>>
           Loads == ctrl' = "on" /\ ctrl # "on" =>
                      /\ conf = Set /\ InTo(base, size, TRUE)
                      /\ \A a \in Addr : mem[a] # 0 => InDram(a)
           Left == pc' = "end" /\ rc' = OK => ctrl' = IF kind = "run" THEN "on" ELSE "off"
<1>1. Coprocess
  <2>1. kind \in Copies /\ kind \notin Kinds
    BY DEF Copies, Coprocs, Kinds
  <2>2. ~Copy /\ ~UNCHANGED vars
    BY <2>1 DEF Copy, TransferStep, vars, ahbVars, siphonVars, ctrlVars, coprocVars
  <2>3. QED BY <2>1, <2>2, CopyStep
<1>2. CASE (Open \/ Probe \/ (Close /\ UNCHANGED transferVars)) /\ Registers
  <2>1. UNCHANGED <<mem, ctrl, conf>>
    BY <1>2 DEF Open, OpenBridge, Probe, Keep, Close, Registers, coprocVars, siphonVars
  <2>2. Left
    BY <1>2, <2>1, Codes
    DEF Open, OpenBridge, Probe, Close, Goto, Fail, CopyInv, CtrlOK
  <2>3. QED BY <2>1, <2>2
<1>3. CASE RunRange \/ StopRange \/ Load \/ Loaded
  <2>1. UNCHANGED <<mem, ctrl, conf>> /\ pc' # "end"
    BY <1>3
    DEF RunRange, StopRange, Load, Loaded, Siphon, Goto, Fail, Registers, Keep, coprocVars,
       siphonVars
  <2>2. QED BY <2>1
<1>4. CASE Halt \/ Disable \/ Assert \/ Release
  <2>1. UNCHANGED <<mem, conf>> /\ pc' # "end" /\ (ctrl' = "on" => ctrl = "on")
    BY <1>4 DEF Halt, Disable, Assert, Release, Control, Goto, Fail, Keep, siphonVars
  <2>2. QED BY <2>1
<1>5. CASE Enable
  <2>1. UNCHANGED <<mem, conf>> /\ pc' # "end" /\ pc = "enable"
    BY <1>5 DEF Enable, Control, Goto, Fail, Keep, siphonVars
  <2>2. kind = "run" /\ conf = Set /\ rc = OK /\ base = asked[1] /\ size = asked[2]
    BY <2>1 DEF CopyInv, PlaceOK, ArgsOK, CtrlOK, Behind
  <2>3. InTo(asked[1], asked[2], TRUE)
    BY <2>1, <2>2 DEF CopyInv, InOK, InTo, Writes, Behind
  <2>4. InTo(base, size, TRUE)
    BY <2>2, <2>3
  <2>5. \A a \in Addr : mem[a] # 0 => InDram(a)
    BY <2>2 DEF CopyInv, DramOK
  <2>6. QED BY <2>1, <2>2, <2>4, <2>5
<1>6. CASE ahb_siphon_in("loaded") /\ Registers
  <2>1. pc \in InLabels /\ pc' # "end" /\ UNCHANGED <<ctrl, conf>>
    BY <1>6 DEF ahb_siphon_in, InRead, InWrite, Goto, Fail, Registers, coprocVars, InLabels
  <2>2. ctrl = "reset"
    BY <2>1 DEF CopyInv, PlaceOK, CtrlOK, Coprocs, Writes
  <2>3. QED BY <2>1, <2>2
<1>7. CASE Configure
  <2>1. UNCHANGED ctrl /\ pc' # "end" /\ pc = "configure"
    BY <1>7 DEF Configure, Goto, Fail
  <2>2. ctrl = "reset"
    BY <2>1 DEF CopyInv, PlaceOK, CtrlOK, Behind
  <2>3. QED BY <2>1, <2>2
<1>8. QED
  BY <1>1, <1>2, <1>3, <1>4, <1>5, <1>6, <1>7 DEF Coprocess, CoprocessorStep

-----------------------------------------------------------------------------
\* The invariant holds in every reachable state.
LEMMA Inductive == Spec => []IInv
  BY InitIInv, NextIInv, PTL DEF Spec

\* A command that copies memory moves the words of its range, each to its own
\* place and in order, however read(), write() and the AHB divide the transfer
\* and wherever they fail, and a success has moved all of them (ahb.c,
\* ahb_siphon_out() and ahb_siphon_in()).
THEOREM CopyCorrect == Spec => []Copied
<1>1. IInv => Copied
  BY InvCopied DEF IInv, Copied
<1>2. QED BY <1>1, Inductive, PTL

\* The RAM commands touch nothing but DRAM and refuse no range of DRAM, but for
\* the sums that wrap (cmd/read.c, cmd/write.c and cmd/coprocessor.c).
THEOREM RangesCorrect == Spec => []RangeChecked
<1>1. IInv => RangeChecked
  <2>1. kind \in {"replace", "trace", "jtag"} => RangeChecked
    BY DEF RangeChecked
  <2>2. QED BY <2>1, InvRangeChecked DEF IInv
<1>2. QED BY <1>1, Inductive, PTL

\* The coprocessor is let go over all of its firmware, inside DRAM, and with its
\* registers set; neither changes while it runs; and a success leaves it as the
\* command was told (cmd/coprocessor.c).
THEOREM LetGoCorrect == Spec => LetsGoLoaded
<1>1. IInv /\ [Next]_vars =>
        [ \/ kind \notin {"run", "stop"}
          \/ /\ ctrl = "on" => UNCHANGED <<mem, conf>>
             /\ ctrl' = "on" /\ ctrl # "on" =>
                  /\ conf = Set /\ InTo(base, size, TRUE)
                  /\ \A a \in Addr : mem[a] # 0 => InDram(a)
             /\ pc' = "end" /\ rc' = OK => ctrl' = IF kind = "run" THEN "on" ELSE "off" ]_ctrlVars
  BY StepLetsGo DEF IInv, Coprocs
<1>2. QED BY <1>1, Inductive, PTL DEF Spec, LetsGoLoaded

-----------------------------------------------------------------------------
(***************************************************************************)
(* The trace.                                                              *)
(***************************************************************************)
Before == {"open", "probe", "init_read", "init_flush", "init_clear", "init_failed", "csr"}
Silent == {"zero", "buf", "style", "go"}
Tracing == {"release", "wait", "stop_read", "stop_flush", "stop_clear"}
Dumping == OutLabels \union {"dump_head"}

TraceTypesOK ==
  /\ pc \in Before \union Silent \union Tracing \union {"dump"} \union Dumping \union Ends
  /\ rc \in Int /\ at \in Nat /\ len \in Nat /\ chunk \in Seq(Nat) /\ out \in Seq(Nat)
  /\ en \in BOOLEAN /\ wrapped \in BOOLEAN /\ ptr \in Word
  /\ seen \in Nat /\ first \in Nat /\ flushed \in Nat /\ stale \in Nat
  /\ phase \in {"none", "tail", "head"}

\* The FIFO holds the last entries that were seen, whosoever trace it is.
FifoOK ==
  /\ fifo \in Seq(Nat) /\ Len(fifo) <= seen
  /\ \A j \in 1 .. Len(fifo) : fifo[j] = seen - Len(fifo) + j

\* The recorder runs while culvert waits, and neither before nor behind that.
PhaseOK ==
  /\ pc \in Silent \union {"dump"} \union Dumping => ~en
  /\ pc \in Tracing => en
  /\ pc \in Dumping => phase # "none"
  /\ pc \notin Dumping \union Ends => phase = "none"
  /\ phase # "none" => ~en
  /\ phase = "tail" => wrapped
  /\ pc = "dump_head" => phase = "tail"
  /\ pc \notin Dumping \union Ends => out = <<>> /\ chunk = <<>>

\* What was in the FIFO at first is in the ring, and behind it every entry of
\* this trace up to those in the FIFO now, unless the ring has wrapped.
Traced == pc \in Tracing \union {"dump"} \/ phase # "none"
StoredOK ==
  /\ pc \in {"style", "go"} => ptr = 0
  /\ Traced /\ ~wrapped =>
       /\ first >= 1 /\ first - 1 <= flushed /\ flushed <= seen - Len(fifo)
       /\ ptr = stale + (seen - Len(fifo)) - (first - 1)
       /\ \A w \in 0 .. ptr - 1 :
            IF w < stale THEN ring[w] < first ELSE ring[w] = first + w - stale

\* The dump of a ring that has not wrapped is a siphon out of its start.
DumpOK ==
  phase = "head" /\ ~wrapped =>
    /\ Len(out) + Len(chunk) + len = ptr
    /\ at = Sram + Len(out) + Len(chunk)
    /\ \A k \in 1 .. Len(out) : out[k] = Sram + k - 1
    /\ \A k \in 1 .. Len(chunk) : chunk[k] = Sram + Len(out) + k - 1
    /\ pc = "out_read" => chunk = <<>>
    /\ pc \in Ends /\ rc = OK => Len(out) = ptr

TraceInv == TraceTypesOK /\ FifoOK /\ PhaseOK /\ StoredOK /\ DumpOK
TraceIInv == kind = "trace" => TraceInv

-----------------------------------------------------------------------------
\* The ring lies in the address space.
LEMMA RingOK ==
  /\ Ring \in Nat /\ Ring > 0 /\ Sram \in Nat /\ Sram + Ring <= Space
  BY TransfersAssumption DEF TraceAssumption, SiphonAssumption

\* Where the ring does not wrap, entries are stored one behind the other.
LEMMA Stores ==
  ASSUME NEW e, e \in Seq(Nat), Store(e), ptr \in Word, wrapped \in BOOLEAN
  PROVE  /\ ptr' \in Word /\ wrapped' \in BOOLEAN /\ (wrapped => wrapped')
         /\ ~wrapped' =>
              /\ ptr' = ptr + Len(e)
              /\ \A w \in 0 .. ptr - 1 : ring'[w] = ring[w]
              /\ \A k \in 1 .. Len(e) : ring'[ptr + k - 1] = e[k]
<1> DEFINE n == Len(e)
           last(w) == {k \in 1 .. n : (ptr + k - 1) % Ring = w}
<1>1. n \in Nat /\ ptr \in Nat /\ ptr < Ring /\ Ring \in Nat
  BY RingOK DEF Word
<1>6. ring' = [w \in Word |-> IF last(w) = {} THEN ring[w]
                             ELSE e[CHOOSE k \in last(w) : \A j \in last(w) : j <= k]]
  BY DEF Store
<1>7. ptr' = (ptr + n) % Ring /\ wrapped' = (wrapped \/ ptr + n >= Ring)
  BY DEF Store
<1>8. wrapped' <=> wrapped \/ ptr + n >= Ring
  BY <1>7, Zenon
<1> HIDE DEF n
<1>2. \A x \in Nat : x % Ring \in Word /\ (x < Ring => x % Ring = x)
  BY RingOK, SMT DEF Word
<1>3. ptr' \in Word /\ wrapped' \in BOOLEAN /\ (wrapped => wrapped')
  <2>1. ptr + n \in Nat
    BY <1>1
  <2>2. wrapped' \in BOOLEAN
    BY <1>7, Zenon
  <2>3. QED BY <1>7, <1>8, <1>2, <2>1, <2>2
<1>4. ASSUME ~wrapped'
      PROVE  /\ ptr' = ptr + n
             /\ \A w \in 0 .. ptr - 1 : ring'[w] = ring[w]
             /\ \A k \in 1 .. n : ring'[ptr + k - 1] = e[k]
  <2>1. ptr + n \in Nat /\ ptr + n < Ring
    BY <1>1, <1>4, <1>8
  <2>2. \A k \in 1 .. n : (ptr + k - 1) % Ring = ptr + k - 1
    <3>1. \A k \in 1 .. n : ptr + k - 1 \in Nat /\ ptr + k - 1 < Ring
      BY <1>1, <2>1
    <3>2. QED BY <1>2, <3>1
  <2>3. ASSUME NEW w \in 0 .. ptr - 1 PROVE ring'[w] = ring[w]
    <3>1. w \in Word
      BY <1>1 DEF Word
    <3>2. \A k \in 1 .. n : (ptr + k - 1) % Ring # w
      <4>1. \A k \in 1 .. n : ptr + k - 1 # w
        BY <1>1
      <4>2. QED BY <2>2, <4>1
    <3>3. last(w) = {}
      BY <3>2, Zenon
    <3>4. QED BY <1>6, <3>1, <3>3
  <2>4. ASSUME NEW k \in 1 .. n PROVE ring'[ptr + k - 1] = e[k]
    <3> DEFINE w == ptr + k - 1
    <3>1. w \in Word
      BY <1>1, <2>1 DEF Word
    <3>2. last(w) = {k}
      <4>1. \A i \in 1 .. n : ptr + i - 1 = w <=> i = k
        BY <1>1
      <4>2. \A i \in 1 .. n : (ptr + i - 1) % Ring = w <=> i = k
        BY <2>2, <4>1
      <4>3. QED BY <4>2, Zenon
    <3> HIDE DEF w
    <3>3. (CHOOSE i \in last(w) : \A j \in last(w) : j <= i) = k
      BY <3>2
    <3>4. ring'[w] = e[k]
      BY <1>6, <3>1, <3>2, <3>3
    <3>5. QED BY <3>4 DEF w
  <2>5. ptr' = ptr + n
    BY <1>2, <1>7, <2>1
  <2>6. QED BY <2>3, <2>4, <2>5
<1>5. QED BY <1>3, <1>4 DEF n

\* The recorder sees an entry, or moves one from the FIFO to the ring.
LEMMA RecorderKeeps ==
  ASSUME TraceInv, Recorder
  PROVE  TraceInv'
<1>1. /\ UNCHANGED <<kind, pc, rc, at, len, chunk, out, phase, first, flushed, stale>>
      /\ en /\ en' = en /\ (Record \/ Drain)
  BY DEF Recorder, Record, Drain, ahbVars, siphonVars, traceHist
<1>2. TraceTypesOK /\ FifoOK /\ PhaseOK /\ StoredOK /\ DumpOK
  BY DEF TraceInv
<1>3. phase = "none" /\ (Traced => pc \in Tracing) /\ (Traced' => Traced)
      /\ pc \notin {"style", "go"}
  BY <1>1, <1>2 DEF PhaseOK, Traced, Silent
<1>4. CASE Record
  <2>1. /\ seen' = seen + 1 /\ fifo' = Append(fifo, seen + 1)
        /\ UNCHANGED <<ptr, wrapped, ring>>
    BY <1>4 DEF Record
  <2>2. /\ fifo' \in Seq(Nat) /\ Len(fifo') = Len(fifo) + 1 /\ Len(fifo) \in Nat
        /\ \A j \in 1 .. Len(fifo) : fifo'[j] = fifo[j]
        /\ fifo'[Len(fifo) + 1] = seen + 1
    BY <1>2, <2>1 DEF FifoOK, TraceTypesOK
  <2>3. FifoOK'
    BY <1>2, <2>1, <2>2 DEF FifoOK, TraceTypesOK
  <2>4. seen' - Len(fifo') = seen - Len(fifo)
    BY <1>2, <2>1, <2>2 DEF TraceTypesOK
  <2>5. TraceTypesOK'
    BY <1>1, <1>2, <2>1 DEF TraceTypesOK
  <2>6. PhaseOK' /\ DumpOK'
    BY <1>1, <1>2, <1>3, <2>1 DEF PhaseOK, DumpOK
  <2>7. StoredOK'
    BY <1>1, <1>2, <1>3, <2>1, <2>4 DEF StoredOK, Traced
  <2>8. QED BY <2>3, <2>5, <2>6, <2>7 DEF TraceInv
<1>5. CASE Drain
  <2>1. fifo # <<>> /\ Store(<<Head(fifo)>>) /\ fifo' = Tail(fifo) /\ seen' = seen
    BY <1>5 DEF Drain
  <2>2. /\ Head(fifo) \in Nat /\ Head(fifo) = seen - Len(fifo) + 1
        /\ fifo' \in Seq(Nat) /\ Len(fifo') = Len(fifo) - 1 /\ Len(fifo) \in Nat /\ Len(fifo) > 0
        /\ \A j \in 1 .. Len(fifo') : fifo'[j] = fifo[j + 1]
    BY <1>2, <2>1 DEF FifoOK, TraceTypesOK
  <2>3. FifoOK'
    BY <1>2, <2>1, <2>2 DEF FifoOK, TraceTypesOK
  <2> DEFINE e == <<Head(fifo)>>
  <2>4. e \in Seq(Nat) /\ Len(e) = 1 /\ e[1] = Head(fifo)
    BY <2>2
  <2>5. Store(e)
    BY <2>1
  <2> HIDE DEF e
  <2>6. /\ ptr' \in Word /\ wrapped' \in BOOLEAN /\ (wrapped => wrapped')
        /\ ~wrapped' =>
             /\ ptr' = ptr + 1
             /\ \A w \in 0 .. ptr - 1 : ring'[w] = ring[w]
             /\ ring'[ptr] = Head(fifo)
    <3>1. ptr \in Nat /\ ptr \in Word /\ wrapped \in BOOLEAN
      BY <1>2, RingOK DEF TraceTypesOK, Word
    <3>2. /\ ptr' \in Word /\ wrapped' \in BOOLEAN /\ (wrapped => wrapped')
          /\ ~wrapped' =>
               /\ ptr' = ptr + Len(e)
               /\ \A w \in 0 .. ptr - 1 : ring'[w] = ring[w]
               /\ \A k \in 1 .. Len(e) : ring'[ptr + k - 1] = e[k]
      BY <2>4, <2>5, <3>1, Stores
    <3>3. 1 \in 1 .. Len(e) /\ ptr + 1 - 1 = ptr
      BY <2>4, <3>1
    <3>4. ~wrapped' => ring'[ptr] = Head(fifo)
      BY <2>4, <3>2, <3>3
    <3>5. QED BY <2>4, <3>2, <3>4
  <2>7. TraceTypesOK'
    BY <1>1, <1>2, <2>1, <2>6 DEF TraceTypesOK
  <2>8. PhaseOK' /\ DumpOK'
    BY <1>1, <1>2, <1>3, <2>1 DEF PhaseOK, DumpOK
  <2>9. StoredOK'
    <3>1. SUFFICES ASSUME Traced', ~wrapped'
                   PROVE  /\ first >= 1 /\ first - 1 <= flushed /\ flushed <= seen - Len(fifo')
                          /\ ptr' = stale + (seen - Len(fifo')) - (first - 1)
                          /\ \A w \in 0 .. ptr' - 1 :
                               IF w < stale THEN ring'[w] < first
                               ELSE ring'[w] = first + w - stale
      BY <1>1, <1>3, <2>1 DEF StoredOK
    <3>2. /\ first >= 1 /\ first - 1 <= flushed /\ flushed <= seen - Len(fifo)
          /\ ptr = stale + (seen - Len(fifo)) - (first - 1)
          /\ \A w \in 0 .. ptr - 1 :
               IF w < stale THEN ring[w] < first ELSE ring[w] = first + w - stale
      BY <1>2, <1>3, <2>6, <3>1 DEF StoredOK, Traced
    <3>3. /\ seen \in Nat /\ Len(fifo) \in Nat /\ first \in Nat /\ flushed \in Nat /\ stale \in Nat /\ ptr \in Nat
          /\ seen - Len(fifo') = seen - Len(fifo) + 1 /\ ptr' = ptr + 1
      BY <1>2, <2>2, <2>6, <3>1, RingOK DEF TraceTypesOK, Word
    <3>4. ptr >= stale /\ ring'[ptr] = first + ptr - stale
      <4>1. ring'[ptr] = seen - Len(fifo) + 1
        BY <2>2, <2>6, <3>1
      <4>2. ptr >= stale /\ first + ptr - stale = seen - Len(fifo) + 1
        BY <3>2, <3>3
      <4>3. QED BY <4>1, <4>2
    <3>5. ASSUME NEW w \in 0 .. ptr' - 1
          PROVE  IF w < stale THEN ring'[w] < first ELSE ring'[w] = first + w - stale
      <4>1. CASE w = ptr
        BY <3>3, <3>4, <4>1
      <4>2. CASE w \in 0 .. ptr - 1
        BY <2>6, <3>1, <3>2, <4>2
      <4>3. w = ptr \/ w \in 0 .. ptr - 1
        BY <3>3
      <4>4. QED BY <4>1, <4>2, <4>3
    <3>6. flushed <= seen - Len(fifo')
      BY <3>2, <3>3
    <3>7. ptr' = stale + (seen - Len(fifo')) - (first - 1)
      <4> DEFINE moved == seen - Len(fifo)
      <4>1. moved \in Int /\ ptr = stale + moved - (first - 1)
        BY <3>2, <3>3
      <4>2. seen - Len(fifo') = moved + 1 /\ ptr' = ptr + 1
        BY <3>3
      <4> HIDE DEF moved
      <4>3. QED BY <3>3, <4>1, <4>2
    <3>8. QED BY <1>1, <2>2, <3>2, <3>5, <3>6, <3>7
  <2>10. QED BY <2>3, <2>7, <2>8, <2>9 DEF TraceInv
<1>6. QED BY <1>1, <1>4, <1>5

AllLabels == Before \union Silent \union Tracing \union {"dump"} \union Dumping \union Ends

\* A step that only goes from one call to the next, or switches the recorder.
LEMMA PlaceKeeps ==
  ASSUME TraceInv,
         UNCHANGED <<at, len, chunk, out, ptr, wrapped, fifo, ring, seen, phase, first, flushed,
                     stale>>,
         pc' \in AllLabels \ Dumping, rc' \in Int, en' \in BOOLEAN,
         pc' \in Silent \union {"dump"} => ~en', pc' \in Tracing => en',
         pc' \in Tracing \union {"dump"} => pc \in Tracing \union {"dump"},
         pc' \in {"style", "go"} => pc = "style",
         pc' \notin Ends => pc \notin Dumping \union Ends,
         phase # "none" => en' = en /\ (rc' = OK => pc \in Ends /\ rc = OK)
  PROVE  TraceInv'
<1>1. TraceTypesOK /\ FifoOK /\ PhaseOK /\ StoredOK /\ DumpOK
  BY DEF TraceInv
<1>2. TraceTypesOK'
  BY <1>1 DEF TraceTypesOK, AllLabels
<1>3. FifoOK'
  BY <1>1 DEF FifoOK
<1>4. PhaseOK'
  BY <1>1 DEF PhaseOK, Dumping
<1>5. (Traced' => Traced) /\ StoredOK'
  BY <1>1 DEF StoredOK, Traced
<1>6. DumpOK'
  BY <1>1 DEF DumpOK, PhaseOK, Dumping, OutLabels
<1>7. QED BY <1>2, <1>3, <1>4, <1>5, <1>6 DEF TraceInv

\* trace_stop() flushes the FIFO into the ring; a flush that failed may have
\* done so, or not.
LEMMA FlushKeeps ==
  ASSUME TraceInv, NEW f \in {"init_flush", "stop_flush"}, NEW c, NEW broken,
         c = IF f = "init_flush" THEN "init_clear" ELSE "stop_clear",
         broken = IF f = "init_flush" THEN "init_failed" ELSE "close",
         StopFlush(f, c, broken), Still
  PROVE  TraceInv'
<1>1. TraceTypesOK /\ FifoOK /\ PhaseOK /\ StoredOK /\ DumpOK
  BY DEF TraceInv
<1>2. /\ UNCHANGED <<at, len, chunk, out, phase, first, stale>>
      /\ pc = f /\ phase = "none" /\ pc' \in {c, broken}
      /\ rc' \in Int /\ (Traced' => pc' = "stop_clear" /\ Traced) /\ pc' \notin {"style", "go"}
      /\ (f = "stop_flush" => en) /\ (pc' = c \/ pc' = broken)
  BY <1>1, Codes
  DEF Still, siphonVars, traceHist, StopFlush, Goto, Fail, TraceTypesOK, PhaseOK, Traced, Dumping,
      OutLabels, Ends, Tracing
<1>3. CASE Store(fifo) /\ fifo' = <<>> /\ flushed' = seen /\ UNCHANGED <<en, seen>>
  <2>1. /\ ptr' \in Word /\ wrapped' \in BOOLEAN /\ (wrapped => wrapped')
        /\ ~wrapped' =>
             /\ ptr' = ptr + Len(fifo)
             /\ \A w \in 0 .. ptr - 1 : ring'[w] = ring[w]
             /\ \A k \in 1 .. Len(fifo) : ring'[ptr + k - 1] = fifo[k]
    BY <1>1, <1>3, Stores DEF TraceTypesOK, FifoOK
  <2>2. TraceTypesOK'
    BY <1>1, <1>2, <1>3, <2>1
    DEF TraceTypesOK, Before, Silent, Tracing, Dumping, OutLabels, Ends
  <2>3. FifoOK'
    BY <1>1, <1>3 DEF FifoOK, TraceTypesOK
  <2>4. PhaseOK' /\ DumpOK'
    BY <1>1, <1>2, <1>3
    DEF PhaseOK, DumpOK, Before, Silent, Tracing, Dumping, OutLabels, Ends
  <2>5. StoredOK'
    <3>1. SUFFICES ASSUME Traced', ~wrapped'
                   PROVE  /\ first >= 1 /\ first - 1 <= seen /\ seen <= seen - 0
                          /\ ptr' = stale + (seen - 0) - (first - 1)
                          /\ \A w \in 0 .. ptr' - 1 :
                               IF w < stale THEN ring'[w] < first
                               ELSE ring'[w] = first + w - stale
      BY <1>2, <1>3 DEF StoredOK
    <3>2. /\ first >= 1 /\ first - 1 <= flushed /\ flushed <= seen - Len(fifo)
          /\ ptr = stale + (seen - Len(fifo)) - (first - 1)
          /\ \A w \in 0 .. ptr - 1 :
               IF w < stale THEN ring[w] < first ELSE ring[w] = first + w - stale
      BY <1>1, <1>2, <2>1, <3>1 DEF StoredOK
    <3>3. /\ seen \in Nat /\ first \in Nat /\ flushed \in Nat /\ stale \in Nat /\ ptr \in Nat
          /\ Len(fifo) \in Nat /\ ptr' = ptr + Len(fifo)
      BY <1>1, <2>1, <3>1, RingOK DEF TraceTypesOK, Word, FifoOK
    <3>4. ptr >= stale
      BY <3>2, <3>3
    <3>5. ASSUME NEW w \in 0 .. ptr' - 1
          PROVE  IF w < stale THEN ring'[w] < first ELSE ring'[w] = first + w - stale
      <4>1. CASE w \in 0 .. ptr - 1
        BY <2>1, <3>1, <3>2, <4>1
      <4>2. CASE w >= ptr
        <5> DEFINE k == w - ptr + 1
        <5>1. k \in 1 .. Len(fifo) /\ ptr + k - 1 = w
          BY <3>3, <4>2
        <5>2. ring'[w] = fifo[k] /\ fifo[k] = seen - Len(fifo) + k
          BY <1>1, <2>1, <3>1, <5>1 DEF FifoOK
        <5>3. first + w - stale = seen - Len(fifo) + k /\ ~(w < stale)
          BY <3>2, <3>3, <3>4, <4>2
        <5>4. QED BY <5>2, <5>3
      <4>3. w \in 0 .. ptr - 1 \/ w >= ptr
        BY <3>3
      <4>4. QED BY <4>1, <4>2, <4>3
    <3>6. QED BY <3>2, <3>3, <3>5
  <2>6. QED BY <2>2, <2>3, <2>4, <2>5 DEF TraceInv
<1>4. CASE UNCHANGED <<recorder, flushed>> /\ Fail(broken, EIO)
  <2>1. UNCHANGED <<at, len, chunk, out, ptr, wrapped, fifo, ring, seen, en, phase, first, flushed,
                    stale>>
    BY <1>2, <1>4 DEF recorder
  <2>2. pc' = broken
    BY <1>4 DEF Fail
  <2>3. QED
    BY <1>1, <1>2, <2>1, <2>2, PlaceKeeps
    DEF TraceTypesOK, AllLabels, Before, Silent, Tracing, Dumping, OutLabels, Ends
<1>5. QED BY <1>3, <1>4 DEF StopFlush

\* The other steps of trace_stop().
LEMMA StopKeeps ==
  ASSUME TraceInv, Still,
         \/ trace_stop("init_read", "init_flush", "init_clear", "csr", "init_failed")
         \/ trace_stop("stop_read", "stop_flush", "stop_clear", "dump", "close")
  PROVE  TraceInv'
<1>1. TraceTypesOK /\ PhaseOK
  BY DEF TraceInv
<1>2. UNCHANGED <<at, len, chunk, out>>
  BY DEF Still, siphonVars
<1>3. CASE \/ StopFlush("init_flush", "init_clear", "init_failed")
           \/ StopFlush("stop_flush", "stop_clear", "close")
  BY <1>3, FlushKeeps
<1>4. CASE \/ StopRead("init_read", "init_flush", "csr", "init_failed")
           \/ StopRead("stop_read", "stop_flush", "dump", "close")
  <2>1. /\ UNCHANGED <<ptr, wrapped, fifo, ring, seen, en, phase, first, flushed, stale>>
        /\ \/ pc = "init_read" /\ pc' \in {"init_flush", "csr", "init_failed"}
           \/ pc = "stop_read" /\ pc' \in {"stop_flush", "close"}
        /\ rc' \in Int /\ phase = "none" /\ (pc = "stop_read" => en)
    BY <1>1, <1>4, Codes
    DEF StopRead, traceVars, recorder, traceHist, Goto, Fail, TraceTypesOK, PhaseOK, Tracing,
        Dumping, OutLabels, Ends
  <2>2. QED
    BY <1>1, <1>2, <2>1, PlaceKeeps
    DEF TraceTypesOK, AllLabels, Before, Silent, Tracing, Dumping, OutLabels, Ends
<1>5. CASE \/ StopClear("init_clear", "csr", "init_failed")
           \/ StopClear("stop_clear", "dump", "close")
  <2>1. /\ UNCHANGED <<ptr, wrapped, fifo, ring, seen, phase, first, flushed, stale>>
        /\ \/ pc = "init_clear" /\ pc' \in {"csr", "init_failed"}
           \/ pc = "stop_clear" /\ (pc' = "close" \/ (pc' = "dump" /\ en' = FALSE))
        /\ rc' \in Int /\ phase = "none" /\ en' \in BOOLEAN
    BY <1>1, <1>5, Codes
    DEF StopClear, traceHist, Goto, Fail, TraceTypesOK, PhaseOK, Tracing, Dumping, OutLabels, Ends
  <2>2. QED
    BY <1>1, <1>2, <2>1, PlaceKeeps
    DEF TraceTypesOK, AllLabels, Before, Silent, Tracing, Dumping, OutLabels, Ends
<1>6. QED BY <1>3, <1>4, <1>5 DEF trace_stop

\* The steps that go on to the next call, or to the end of the command.
LEMMA CallsKeep ==
  ASSUME TraceInv,
         \/ (OpenBridge \/ Close) /\ UNCHANGED traceVars
         \/ (TraceProbe \/ StartCsr \/ StartStyle) /\ Still
         \/ pc = "init_failed" /\ Fail("csr", OK) /\ UNCHANGED traceVars /\ Still
         \/ Released \/ Interrupted \/ Killed
  PROVE  TraceInv'
<1>1. TraceTypesOK /\ PhaseOK
  BY DEF TraceInv
<1>2. UNCHANGED <<at, len, chunk, out, ptr, wrapped, fifo, ring, seen, phase, first, flushed, stale>>
  BY DEF OpenBridge, Close, TraceProbe, StartCsr, StartStyle, Released, Interrupted, Killed, Still,
     siphonVars, traceVars, recorder, traceHist
<1>3. CASE Killed
  <2>1. pc' = "end" /\ rc' = EIO /\ en' = en
    BY <1>3 DEF Killed, traceVars, recorder
  <2>2. QED
    BY <1>1, <1>2, <2>1, PlaceKeeps, Codes
    DEF TraceTypesOK, AllLabels, Before, Silent, Tracing, Dumping, OutLabels, Ends
<1>4. CASE Close /\ UNCHANGED traceVars
  <2>1. pc = "close" /\ pc' = "end" /\ rc' = rc /\ en' = en
    BY <1>4 DEF Close, Goto, traceVars, recorder
  <2>2. QED
    BY <1>1, <1>2, <2>1, PlaceKeeps
    DEF TraceTypesOK, AllLabels, Before, Silent, Tracing, Dumping, OutLabels, Ends
<1>5. CASE \/ OpenBridge /\ UNCHANGED traceVars
           \/ (TraceProbe \/ StartCsr \/ StartStyle) /\ Still
           \/ pc = "init_failed" /\ Fail("csr", OK) /\ UNCHANGED traceVars /\ Still
           \/ Released \/ Interrupted
  <2>1. /\ \/ pc = "open" /\ pc' \in {"probe", "end"} /\ en' = en
           \/ pc = "probe" /\ pc' \in {"init_read", "close"} /\ en' = en
           \/ pc = "init_failed" /\ pc' = "csr" /\ en' = en
           \/ pc = "csr" /\ pc' = "zero" /\ en' = FALSE
           \/ pc = "csr" /\ pc' = "close" /\ (en' = FALSE \/ en' = en)
           \/ pc = "style" /\ pc' \in {"go", "close"} /\ en' = en
           \/ pc = "release" /\ pc' \in {"wait", "close"} /\ en' = en
           \/ pc = "wait" /\ pc' \in {"stop_read", "close"} /\ en' = en
        /\ rc' \in Int
    BY <1>1, <1>5, Codes
    DEF OpenBridge, TraceProbe, StartCsr, StartStyle, Released, Interrupted, traceVars, recorder,
        Goto, Fail, TraceTypesOK, OK
  <2>2. phase = "none"
    BY <1>1, <2>1 DEF PhaseOK, Dumping, OutLabels, Ends
  <2>4. en' \in BOOLEAN /\ (pc' \in Silent => ~en') /\ (pc' \in Tracing => en')
    <3>1. CASE en' = FALSE
      BY <1>1, <2>1, <3>1 DEF PhaseOK, Silent, Tracing
    <3>2. CASE en' = en
      BY <1>1, <2>1, <3>2 DEF TraceTypesOK, PhaseOK, Silent, Tracing
    <3>3. QED BY <2>1, <3>1, <3>2
  <2>3. QED
    BY <1>1, <1>2, <2>1, <2>2, <2>4, PlaceKeeps
    DEF TraceTypesOK, AllLabels, Before, Silent, Tracing, Dumping, OutLabels, Ends
<1>6. QED BY <1>3, <1>4, <1>5

\* The buffer is zeroed, and the pointer set to its start.
LEMMA ZeroKeeps ==
  ASSUME TraceInv, StartZero \/ StartBuf, Still
  PROVE  TraceInv'
<1>1. TraceTypesOK /\ FifoOK /\ PhaseOK /\ StoredOK /\ DumpOK
  BY DEF TraceInv
<1>2. /\ UNCHANGED <<at, len, chunk, out, en, fifo, seen, phase, first, flushed, stale>>
      /\ \/ pc = "zero" /\ pc' = "buf" /\ UNCHANGED <<ptr, wrapped>>
         \/ pc = "buf" /\ pc' \in {"style", "close"} /\ ptr' = 0 /\ wrapped' = FALSE
         \/ pc = "buf" /\ pc' = "close" /\ UNCHANGED <<ptr, wrapped>>
      /\ rc' \in Int /\ phase = "none" /\ ~en
  BY <1>1, Codes
  DEF Still, siphonVars, traceHist, StartZero, StartBuf, Goto, Fail, TraceTypesOK, PhaseOK, Silent,
      Dumping, OutLabels, Ends
<1>3. TraceTypesOK'
  <2>1. 0 \in Word /\ FALSE \in BOOLEAN
    BY RingOK DEF Word
  <2>2. ptr' \in Word /\ wrapped' \in BOOLEAN
    BY <1>1, <1>2, <2>1 DEF TraceTypesOK
  <2>3. QED
    BY <1>1, <1>2, <2>2 DEF TraceTypesOK, Before, Silent, Tracing, Dumping, OutLabels, Ends
<1>4. FifoOK'
  BY <1>1, <1>2 DEF FifoOK
<1>5. PhaseOK' /\ DumpOK'
  BY <1>1, <1>2 DEF PhaseOK, DumpOK, Before, Silent, Tracing, Dumping, OutLabels, Ends
<1>6. StoredOK'
  BY <1>1, <1>2 DEF StoredOK, Traced, Tracing
<1>7. QED BY <1>3, <1>4, <1>5, <1>6 DEF TraceInv

\* The trace starts with what an earlier one has left in the FIFO.
LEMMA GoKeeps ==
  ASSUME TraceInv, StartGo, Still
  PROVE  TraceInv'
<1>1. TraceTypesOK /\ FifoOK /\ PhaseOK /\ StoredOK /\ DumpOK
  BY DEF TraceInv
<1>2. /\ UNCHANGED <<at, len, chunk, out, phase, seen>>
      /\ pc = "go" /\ pc' \in {"release", "close"} /\ rc' \in Int /\ phase = "none" /\ ~en /\ ptr = 0
  BY <1>1, Codes
  DEF Still, siphonVars, StartGo, Goto, Fail, TraceTypesOK, PhaseOK, StoredOK, Silent, Dumping,
      OutLabels, Ends
<1>3. CASE /\ Store(fifo) /\ fifo' = <<>> /\ en' = TRUE /\ stale' = Len(fifo)
           /\ first' = seen + 1 /\ flushed' = seen
  <2>1. /\ ptr' \in Word /\ wrapped' \in BOOLEAN
        /\ ~wrapped' =>
             /\ ptr' = ptr + Len(fifo)
             /\ \A k \in 1 .. Len(fifo) : ring'[ptr + k - 1] = fifo[k]
    BY <1>1, <1>3, Stores DEF TraceTypesOK, FifoOK
  <2>2. Len(fifo) \in Nat /\ seen \in Nat /\ Len(fifo) <= seen
    BY <1>1 DEF FifoOK, TraceTypesOK
  <2>3. TraceTypesOK'
    BY <1>1, <1>2, <1>3, <2>1, <2>2
    DEF TraceTypesOK, Before, Silent, Tracing, Dumping, OutLabels, Ends
  <2>4. FifoOK'
    BY <1>2, <1>3, <2>2 DEF FifoOK
  <2>5. PhaseOK' /\ DumpOK'
    BY <1>1, <1>2, <1>3
    DEF PhaseOK, DumpOK, Before, Silent, Tracing, Dumping, OutLabels, Ends
  <2>6. StoredOK'
    <3>1. SUFFICES ASSUME ~wrapped'
                   PROVE  /\ seen + 1 >= 1 /\ seen + 1 - 1 <= seen /\ seen <= seen - 0
                          /\ ptr' = Len(fifo) + (seen - 0) - (seen + 1 - 1)
                          /\ \A w \in 0 .. ptr' - 1 :
                               IF w < Len(fifo) THEN ring'[w] < seen + 1
                               ELSE ring'[w] = seen + 1 + w - Len(fifo)
      <4>1. Len(fifo') = 0
        BY <1>3
      <4>2. QED BY <1>2, <1>3, <2>2, <4>1 DEF StoredOK
    <3>2. ptr' = Len(fifo)
      BY <1>2, <2>1, <2>2, <3>1
    <3>3. ASSUME NEW w \in 0 .. ptr' - 1 PROVE w < Len(fifo) /\ ring'[w] < seen + 1
      <4>1. w + 1 \in 1 .. Len(fifo) /\ ptr + (w + 1) - 1 = w
        BY <1>2, <2>2, <3>2
      <4>2. ring'[w] = fifo[w + 1]
        BY <2>1, <3>1, <4>1
      <4>3. fifo[w + 1] = seen - Len(fifo) + (w + 1)
        BY <1>1, <4>1 DEF FifoOK
      <4>4. QED BY <2>2, <3>2, <4>2, <4>3
    <3>4. QED BY <2>2, <3>2, <3>3
  <2>7. QED BY <2>3, <2>4, <2>5, <2>6 DEF TraceInv
<1>4. CASE /\ Fail("close", EIO)
           /\ UNCHANGED <<ptr, wrapped, fifo, ring, en, stale, first, flushed>>
  <2>1. pc' = "close"
    BY <1>4 DEF Fail
  <2>2. QED
    BY <1>1, <1>2, <1>4, <2>1, PlaceKeeps
    DEF TraceTypesOK, AllLabels, Before, Silent, Tracing, Dumping, OutLabels, Ends
<1>5. QED BY <1>3, <1>4 DEF StartGo

\* The ring is dumped: the part behind the pointer, if it has wrapped, and the
\* part before it.
LEMMA DumpKeeps ==
  ASSUME TraceInv, Dump \/ DumpHead
  PROVE  TraceInv'
<1>1. TraceTypesOK /\ FifoOK /\ PhaseOK /\ StoredOK /\ DumpOK
  BY DEF TraceInv
<1>2. /\ UNCHANGED <<en, ptr, wrapped, fifo, ring, seen, first, flushed, stale>>
      /\ pc \in {"dump", "dump_head"} /\ ~en
  BY <1>1 DEF Dump, DumpHead, recorder, traceHist, PhaseOK, Dumping
<1>3. ptr \in Nat /\ ptr < Ring /\ Sram \in Nat /\ Ring \in Nat
  BY <1>1, RingOK DEF TraceTypesOK, Word
<1>4. CASE wrapped /\ phase' \in {"tail", "head"} /\ \E b, n : b \in Nat /\ n \in Nat /\ Siphon("out_read", b, n)
  <2>1. /\ pc' = "out_read" /\ at' \in Nat /\ len' \in Nat /\ UNCHANGED <<rc, chunk, out>>
    BY <1>4 DEF Siphon
  <2>2. TraceTypesOK'
    BY <1>1, <1>2, <1>4, <2>1 DEF TraceTypesOK, Dumping, OutLabels
  <2>3. FifoOK'
    BY <1>1, <1>2 DEF FifoOK
  <2>4. PhaseOK' /\ StoredOK' /\ DumpOK'
    BY <1>1, <1>2, <1>4, <2>1
    DEF PhaseOK, StoredOK, DumpOK, Silent, Tracing, Dumping, OutLabels, Ends
  <2>5. QED BY <2>2, <2>3, <2>4 DEF TraceInv
<1>5. CASE pc = "dump" /\ ~wrapped /\ phase' = "head" /\ Siphon("out_read", Sram, ptr)
  <2>1. /\ pc' = "out_read" /\ at' = Sram /\ len' = ptr /\ UNCHANGED <<rc, chunk, out>>
        /\ out = <<>> /\ chunk = <<>>
    BY <1>1, <1>5 DEF Siphon, PhaseOK, Dumping, OutLabels, Ends
  <2>2. TraceTypesOK'
    BY <1>1, <1>2, <1>3, <1>5, <2>1 DEF TraceTypesOK, Dumping, OutLabels
  <2>3. FifoOK'
    BY <1>1, <1>2 DEF FifoOK
  <2>4. PhaseOK'
    BY <1>1, <1>2, <1>5, <2>1 DEF PhaseOK, Silent, Tracing, Dumping, OutLabels, Ends
  <2>5. StoredOK'
    BY <1>1, <1>2, <1>5, <2>1 DEF StoredOK, Traced
  <2>6. DumpOK'
    <3>1. Len(out') = 0 /\ Len(chunk') = 0
      BY <2>1
    <3>2. QED BY <1>2, <1>3, <2>1, <3>1 DEF DumpOK, Ends
  <2>7. QED BY <2>2, <2>3, <2>4, <2>5, <2>6 DEF TraceInv
<1>6. CASE \/ Fail("close", EIO) /\ UNCHANGED <<siphonVars, phase>>
           \/ rc # OK /\ Goto("close") /\ UNCHANGED <<siphonVars, phase>>
  <2>1. /\ pc' = "close" /\ rc' \in Int /\ rc' # OK /\ UNCHANGED <<at, len, chunk, out, phase>>
    BY <1>1, <1>6, Codes DEF Fail, Goto, siphonVars, TraceTypesOK
  <2>2. QED
    BY <1>1, <1>2, <2>1, PlaceKeeps
    DEF TraceTypesOK, AllLabels, Before, Silent, Tracing, Dumping, OutLabels, Ends
<1>7. QED
  <2>1. Sram + ptr \in Nat /\ Sram + Ring - ptr \in Nat
    BY <1>3
  <2>2. CASE Dump
    BY <1>4, <1>5, <1>6, <2>1, <2>2 DEF Dump
  <2>3. CASE DumpHead
    <3>1. wrapped /\ pc = "dump_head"
      BY <1>1, <2>3 DEF DumpHead, PhaseOK
    <3>2. QED BY <1>3, <1>4, <1>6, <2>3, <3>1 DEF DumpHead
  <2>4. QED BY <2>2, <2>3

\* A piece of the dump is read, or written to the file.
LEMMA DumpSiphonKeeps ==
  ASSUME TraceInv, DumpSiphon
  PROVE  TraceInv'
<1> DEFINE next == IF phase = "tail" THEN "dump_head" ELSE "close"
<1>1. TraceTypesOK /\ FifoOK /\ PhaseOK /\ StoredOK /\ DumpOK
  BY DEF TraceInv
<1>2. /\ UNCHANGED <<en, ptr, wrapped, fifo, ring, seen, phase, first, flushed, stale>>
      /\ pc \in OutLabels /\ ~en /\ phase # "none" /\ (OutRead(next) \/ OutWrite(next))
  BY <1>1
  DEF DumpSiphon, ahb_siphon_out, OutRead, OutWrite, traceVars, recorder, traceHist, PhaseOK,
      Dumping, OutLabels
<1>3. /\ ptr \in Nat /\ ptr < Ring /\ Sram \in Nat /\ Ring \in Nat /\ Sram + Ring <= Space
      /\ Space \in Nat /\ Space > 0 /\ Chunk \in Nat /\ Chunk > 0
  BY <1>1, RingOK, Consts DEF TraceTypesOK, Word
<1>4. FifoOK'
  BY <1>1, <1>2 DEF FifoOK
<1>5. ASSUME pc' \in OutLabels \/ pc' = next
      PROVE  PhaseOK' /\ StoredOK'
  BY <1>1, <1>2, <1>5
  DEF PhaseOK, StoredOK, Traced, Silent, Tracing, Dumping, OutLabels, Ends
<1>6. ASSUME pc' = next, rc' \in Int, UNCHANGED <<at, len, chunk, out>>,
             rc' = OK => pc = "out_read" /\ len = 0
      PROVE  TraceInv'
  <2>1. TraceTypesOK'
    BY <1>1, <1>2, <1>6 DEF TraceTypesOK, Dumping, OutLabels, Ends
  <2>2. DumpOK'
    <3>1. SUFFICES ASSUME phase = "head", ~wrapped, rc' = OK
                   PROVE  Len(out) = ptr
      BY <1>1, <1>2, <1>6 DEF DumpOK
    <3>2. chunk = <<>> /\ len = 0 /\ Len(out) + Len(chunk) + len = ptr
      BY <1>1, <1>6, <3>1 DEF DumpOK
    <3>3. Len(chunk) = 0 /\ Len(out) \in Nat
      BY <1>1, <3>2 DEF TraceTypesOK
    <3>4. QED BY <3>2, <3>3
  <2>3. QED BY <1>4, <1>5, <1>6, <2>1, <2>2 DEF TraceInv
<1>7. CASE OutRead(next)
  <2> DEFINE n == Least(len, Chunk)
  <2>1. pc = "out_read" /\ UNCHANGED out
    BY <1>7 DEF OutRead
  <2>2. CASE len = 0 /\ Goto(next) /\ UNCHANGED <<at, len, chunk>>
    BY <1>1, <1>6, <2>1, <2>2 DEF Goto, TraceTypesOK
  <2>3. CASE len > 0 /\ Fail(next, EIO) /\ UNCHANGED <<at, len, chunk>>
    BY <1>6, <2>1, <2>3, Codes DEF Fail
  <2>4. CASE /\ len > 0 /\ Goto("out_write")
             /\ chunk' = [k \in 1 .. n |-> After(k - 1)]
             /\ at' = After(n) /\ len' = len - n
    <3>1. n \in Nat /\ n > 0 /\ n <= len /\ len \in Nat /\ at \in Nat
      BY <1>1, <1>3, <2>4 DEF Least, TraceTypesOK
    <3> HIDE DEF n
    <3>2. \A k \in Nat : After(k) \in Nat
      BY <1>3, <3>1, ModAddr DEF After, Addr
    <3>3. chunk' \in Seq(Nat) /\ Len(chunk') = n
      <4>1. \A k \in 1 .. n : After(k - 1) \in Nat
        BY <3>1, <3>2
      <4>2. QED BY <2>4, <3>1, <4>1
    <3>4. TraceTypesOK'
      BY <1>1, <1>2, <2>1, <2>4, <3>1, <3>2, <3>3 DEF Goto, TraceTypesOK, Dumping, OutLabels
    <3>5. DumpOK'
      <4>1. SUFFICES ASSUME phase = "head", ~wrapped
                     PROVE  /\ Len(out) + n + (len - n) = ptr
                            /\ at' = Sram + Len(out) + n
                            /\ \A k \in 1 .. Len(out) : out[k] = Sram + k - 1
                            /\ \A k \in 1 .. n : chunk'[k] = Sram + Len(out) + k - 1
        BY <1>2, <2>1, <2>4, <3>3 DEF DumpOK, Goto, Ends
      <4>2. /\ Len(out) + Len(chunk) + len = ptr /\ at = Sram + Len(out) + Len(chunk)
            /\ chunk = <<>> /\ \A k \in 1 .. Len(out) : out[k] = Sram + k - 1
        BY <1>1, <2>1, <4>1 DEF DumpOK
      <4>3. Len(chunk) = 0 /\ Len(out) \in Nat
        BY <1>1, <4>2 DEF TraceTypesOK
      <4>4. at = Sram + Len(out) /\ Len(out) + len = ptr
        BY <1>3, <3>1, <4>2, <4>3
      <4>5. ASSUME NEW k \in 0 .. n PROVE After(k) = at + k
        <5>1. at + k \in Nat /\ at + k < Space
          BY <1>3, <3>1, <4>3, <4>4
        <5>2. QED BY <1>3, <5>1, Wrap DEF After
      <4>6. at' = at + n
        BY <2>4, <3>1, <4>5
      <4>7. ASSUME NEW k \in 1 .. n PROVE chunk'[k] = Sram + Len(out) + k - 1
        <5>1. k - 1 \in 0 .. n /\ chunk'[k] = After(k - 1)
          BY <2>4, <3>1
        <5>2. QED BY <1>3, <3>1, <4>3, <4>4, <4>5, <5>1
      <4>8. QED BY <1>3, <3>1, <4>2, <4>3, <4>4, <4>6, <4>7
    <3>6. PhaseOK' /\ StoredOK'
      BY <1>5, <2>4 DEF Goto, OutLabels
    <3>7. QED BY <1>4, <3>4, <3>5, <3>6 DEF TraceInv
  <2>5. QED BY <1>7, <2>2, <2>3, <2>4 DEF OutRead
<1>8. CASE OutWrite(next)
  <2>1. pc = "out_write" /\ UNCHANGED <<at, len>>
    BY <1>8 DEF OutWrite
  <2>2. CASE Fail(next, EPIPE) /\ UNCHANGED <<chunk, out>>
    BY <1>6, <2>1, <2>2, Codes DEF Fail
  <2>3. ASSUME NEW n \in 1 .. Len(chunk),
               out' = out \o SubSeq(chunk, 1, n), chunk' = SubSeq(chunk, n + 1, Len(chunk)),
               Goto(IF n = Len(chunk) THEN "out_read" ELSE "out_write")
        PROVE  TraceInv'
    <3>1. out \in Seq(Nat) /\ chunk \in Seq(Nat) /\ len \in Nat /\ at \in Nat
      BY <1>1 DEF TraceTypesOK
    <3>2. /\ out' \in Seq(Nat) /\ Len(out') = Len(out) + n
          /\ \A k \in 1 .. Len(out) : out'[k] = out[k]
          /\ \A k \in 1 .. n : out'[Len(out) + k] = chunk[k]
          /\ chunk' \in Seq(Nat) /\ Len(chunk') = Len(chunk) - n
          /\ \A k \in 1 .. Len(chunk) - n : chunk'[k] = chunk[n + k]
          /\ n = Len(chunk) => chunk' = <<>>
      <4> HIDE DEF next
      <4>1. n \in 1 .. Len(chunk)
        OBVIOUS
      <4> DEFINE head == out \o SubSeq(chunk, 1, n)
                 rest == SubSeq(chunk, n + 1, Len(chunk))
      <4>2. /\ head \in Seq(Nat) /\ Len(head) = Len(out) + n
            /\ \A k \in 1 .. Len(out) : head[k] = out[k]
            /\ \A k \in 1 .. n : head[Len(out) + k] = chunk[k]
            /\ rest \in Seq(Nat) /\ Len(rest) = Len(chunk) - n
            /\ \A k \in 1 .. Len(chunk) - n : rest[k] = chunk[n + k]
            /\ n = Len(chunk) => rest = <<>>
        BY <3>1, <4>1, Taken
      <4>3. out' = head /\ chunk' = rest
        BY <2>3
      <4> HIDE DEF head, rest
      <4>4. QED BY <4>2, <4>3
    <3>3. Len(out) \in Nat /\ Len(chunk) \in Nat /\ n \in Nat /\ n <= Len(chunk)
      BY <3>1
    <3>4. pc' \in OutLabels /\ (pc' = "out_read" => n = Len(chunk)) /\ rc' = rc
      BY <2>3 DEF Goto, OutLabels
    <3>5. TraceTypesOK'
      BY <1>1, <1>2, <2>1, <3>2, <3>4 DEF TraceTypesOK, Dumping
    <3>6. DumpOK'
      <4>1. SUFFICES ASSUME phase = "head", ~wrapped
                     PROVE  /\ Len(out') + Len(chunk') + len = ptr
                            /\ at = Sram + Len(out') + Len(chunk')
                            /\ \A k \in 1 .. Len(out') : out'[k] = Sram + k - 1
                            /\ \A k \in 1 .. Len(chunk') : chunk'[k] = Sram + Len(out') + k - 1
        BY <1>2, <2>1, <3>2, <3>4 DEF DumpOK, OutLabels, Ends
      <4>2. /\ Len(out) + Len(chunk) + len = ptr /\ at = Sram + Len(out) + Len(chunk)
            /\ \A k \in 1 .. Len(out) : out[k] = Sram + k - 1
            /\ \A k \in 1 .. Len(chunk) : chunk[k] = Sram + Len(out) + k - 1
        BY <1>1, <4>1 DEF DumpOK
      <4>3. ASSUME NEW k \in 1 .. Len(out') PROVE out'[k] = Sram + k - 1
        <5>1. CASE k <= Len(out)
          BY <3>2, <3>3, <4>2, <5>1
        <5>2. CASE k > Len(out)
          <6> DEFINE j == k - Len(out)
          <6>1. j \in 1 .. n /\ j \in 1 .. Len(chunk) /\ Len(out) + j = k
            BY <3>2, <3>3, <5>2
          <6>2. out'[k] = chunk[j] /\ chunk[j] = Sram + Len(out) + j - 1
            BY <3>2, <4>2, <6>1
          <6>3. QED BY <1>3, <3>3, <6>1, <6>2
        <5>3. QED BY <3>2, <3>3, <5>1, <5>2
      <4>4. ASSUME NEW k \in 1 .. Len(chunk') PROVE chunk'[k] = Sram + Len(out') + k - 1
        <5>1. n + k \in 1 .. Len(chunk) /\ chunk'[k] = chunk[n + k]
          BY <3>2, <3>3
        <5>2. chunk[n + k] = Sram + Len(out) + (n + k) - 1
          BY <4>2, <5>1
        <5>3. QED BY <1>3, <3>2, <3>3, <5>1, <5>2
      <4>5. Len(out') = Len(out) + n /\ Len(chunk') = Len(chunk) - n
        BY <3>2
      <4>6. Len(out') + Len(chunk') = Len(out) + Len(chunk)
        BY <3>3, <4>5
      <4>7. Len(out') + Len(chunk') + len = ptr
        BY <4>2, <4>6
      <4>8. at = Sram + Len(out') + Len(chunk')
        <5>1. Sram \in Nat /\ Len(out') \in Nat /\ Len(chunk') \in Nat
          BY <1>3, <3>2
        <5>2. Sram + Len(out') + Len(chunk') = Sram + (Len(out') + Len(chunk'))
              /\ Sram + Len(out) + Len(chunk) = Sram + (Len(out) + Len(chunk))
          BY <3>3, <5>1
        <5>3. QED BY <4>2, <4>6, <5>2
      <4>9. QED BY <4>3, <4>4, <4>7, <4>8
    <3>7. PhaseOK' /\ StoredOK'
      BY <1>5, <3>4
    <3>8. QED BY <1>4, <3>5, <3>6, <3>7 DEF TraceInv
  <2>4. QED BY <1>8, <2>2, <2>3 DEF OutWrite
<1>9. QED BY <1>2, <1>7, <1>8

\* The command is run again, over what the trace before it has left behind.
LEMMA AgainKeeps ==
  ASSUME TraceInv, RunAgain
  PROVE  TraceInv'
<1>1. TraceTypesOK /\ FifoOK
  BY DEF TraceInv
<1>2. /\ UNCHANGED <<en, ptr, wrapped, fifo, ring, seen, first, flushed, stale>>
      /\ pc' = "open" /\ rc' = OK /\ phase' = "none"
      /\ at' = 0 /\ len' = 0 /\ chunk' = <<>> /\ out' = <<>>
  BY DEF RunAgain, recorder
<1>3. TraceTypesOK'
  BY <1>1, <1>2, Codes DEF TraceTypesOK, Before
<1>4. FifoOK'
  BY <1>1, <1>2 DEF FifoOK
<1>5. PhaseOK' /\ StoredOK' /\ DumpOK'
  BY <1>2
  DEF PhaseOK, StoredOK, DumpOK, Traced, Silent, Tracing, Dumping, OutLabels, Ends
<1>6. QED BY <1>3, <1>4, <1>5 DEF TraceInv

\* Every step of the command and of the recorder.
LEMMA TraceKeeps ==
  ASSUME TraceInv, TraceNext
  PROVE  TraceInv'
<1>1. CASE Recorder
  BY <1>1, RecorderKeeps
<1>2. CASE TraceStep
  <2>1. CASE \/ (OpenBridge \/ Close) /\ UNCHANGED traceVars
             \/ TraceProbe /\ Still
             \/ Released \/ Interrupted \/ Killed
    BY <2>1, CallsKeep
  <2>2. CASE InitStop /\ Still
    BY <2>2, StopKeeps, CallsKeep DEF InitStop
  <2>3. CASE trace_start /\ Still
    BY <2>3, CallsKeep, ZeroKeeps, GoKeeps DEF trace_start
  <2>4. CASE trace_stop("stop_read", "stop_flush", "stop_clear", "dump", "close") /\ Still
    BY <2>4, StopKeeps
  <2>5. CASE Dump \/ DumpHead \/ DumpSiphon \/ RunAgain
    BY <2>5, DumpKeeps, DumpSiphonKeeps, AgainKeeps
  <2>6. QED BY <1>2, <2>1, <2>2, <2>3, <2>4, <2>5 DEF TraceStep
<1>3. QED BY <1>1, <1>2 DEF TraceNext

\* A trace starts with a recorder at rest.
LEMMA InitTrace == Init => TraceIInv
<1> SUFFICES ASSUME Init, kind = "trace" PROVE TraceInv
  BY DEF TraceIInv
<1>1. SiphonInit /\ TraceIdle
  BY DEF Init, TransferInit, CoprocessorInit, ReplaceInit, TraceInit, JtagInit, ArgsInit, Kinds
<1>2. TraceTypesOK
  BY <1>1, RingOK, Codes DEF SiphonInit, TraceIdle, TraceTypesOK, Before, Word
<1>3. FifoOK /\ PhaseOK /\ StoredOK /\ DumpOK
  BY <1>1
  DEF SiphonInit, TraceIdle, FifoOK, PhaseOK, StoredOK, DumpOK, Traced, Silent, Tracing, Dumping,
      OutLabels, Ends
<1>4. QED BY <1>2, <1>3 DEF TraceInv

\* Any step keeps the invariant of the trace.
LEMMA NextTrace ==
  ASSUME TraceIInv, [Next]_vars
  PROVE  TraceIInv'
<1> SUFFICES ASSUME kind = "trace", TraceInv PROVE TraceInv'
  BY KindStays DEF TraceIInv
<1>1. CASE UNCHANGED vars
  <2>1. UNCHANGED <<kind, pc, rc, at, len, chunk, out, en, ptr, wrapped, fifo, ring, seen, phase,
                    first, flushed, stale>>
    BY <1>1 DEF vars, ahbVars, siphonVars, traceVars, recorder, traceHist
  <2>2. QED
    BY <2>1 DEF TraceInv, TraceTypesOK, FifoOK, PhaseOK, StoredOK, Traced, DumpOK
<1>2. CASE TraceBus
  BY <1>2, TraceKeeps DEF TraceBus
<1>3. ~Copy /\ ~Coprocess /\ ~ReplaceRam /\ ~Serve /\ ~Call
  BY DEF Copy, TransferStep, Kinds, Coprocess, CoprocessorStep, ReplaceRam, ReplaceStep, Poke,
     Serve, Call, JtagStep, Connect
<1>4. QED BY <1>1, <1>2, <1>3 DEF Next

\* What is dumped of a trace that has ended well is what the recorder saw from
\* its start to its stop, behind what a trace before it had left in the FIFO,
\* unless the ring has wrapped (soc/trace.c, trace_start() and trace_stop()).
THEOREM TraceCorrect == Spec => []Recorded
<1>1. Spec => []TraceIInv
  BY InitTrace, NextTrace, PTL DEF Spec
<1>2. TraceIInv => Recorded
  <2>1. SUFFICES ASSUME TraceInv, kind = "trace", pc = "end", rc = OK, phase = "head", ~wrapped
                 PROVE  /\ ~en /\ Len(out) >= stale + flushed - first + 1
                        /\ \A k \in 1 .. Len(out) :
                             LET entry == ring[out[k] - Sram]
                             IN  IF k <= stale THEN entry < first
                                 ELSE entry = first + k - stale - 1
    BY DEF TraceIInv, Recorded
  <2>2. TraceTypesOK /\ FifoOK /\ PhaseOK /\ StoredOK /\ DumpOK /\ Traced
    BY <2>1 DEF TraceInv, Traced
  <2>3. ~en /\ Len(out) = ptr /\ \A k \in 1 .. Len(out) : out[k] = Sram + k - 1
    BY <2>1, <2>2 DEF PhaseOK, DumpOK, Ends
  <2>4. /\ first >= 1 /\ first - 1 <= flushed /\ flushed <= seen - Len(fifo)
        /\ ptr = stale + (seen - Len(fifo)) - (first - 1)
        /\ \A w \in 0 .. ptr - 1 :
             IF w < stale THEN ring[w] < first ELSE ring[w] = first + w - stale
    BY <2>1, <2>2 DEF StoredOK
  <2>5. /\ seen \in Nat /\ first \in Nat /\ flushed \in Nat /\ stale \in Nat /\ ptr \in Nat
        /\ Len(fifo) \in Nat /\ Sram \in Nat
    BY <2>2, RingOK DEF TraceTypesOK, Word, FifoOK
  <2>6. Len(out) >= stale + flushed - first + 1
    BY <2>3, <2>4, <2>5
  <2>7. ASSUME NEW k \in 1 .. Len(out)
        PROVE  LET entry == ring[out[k] - Sram]
               IN  IF k <= stale THEN entry < first ELSE entry = first + k - stale - 1
    <3>1. k - 1 \in 0 .. ptr - 1 /\ out[k] - Sram = k - 1
      BY <2>3, <2>5
    <3>2. IF k - 1 < stale THEN ring[k - 1] < first ELSE ring[k - 1] = first + (k - 1) - stale
      BY <2>4, <3>1
    <3>3. QED BY <2>5, <3>1, <3>2
  <2>8. QED BY <2>3, <2>6, <2>7
<1>3. QED BY <1>1, <1>2, PTL

-----------------------------------------------------------------------------
(***************************************************************************)
(* The replacement in RAM                                                  *)
(***************************************************************************)
Byte == {0, 1}

ReplaceTypesOK ==
  /\ pc \in {"open", "probe", "scan", "search", "close", "end"}
  /\ ReplaceTypeOK /\ read \in Seq(Byte)
  /\ Match \in Seq(Byte) /\ Replacement \in Seq(Byte)
  /\ 0 < Len(Match) /\ Len(Replacement) <= Len(Match) /\ Len(Match) <= Win
  /\ Len(ram) % Win = 0 /\ cursor % Win = 0
  /\ pc = "search" => cursor < Len(ram) /\ win = Window(cursor)

\* The window in progress is replaced up to where the search goes on, and no
\* match reaches behind that.
InProgress(M) ==
  ReplacedTo(cursor, needle, M) /\ \A m \in M : m + Len(Match) <= needle

\* What has been done of each window: all, all up to the write that failed, the
\* matches up to the needle, and nothing.
WindowsOK ==
  \A s \in Starts :
    /\ s < cursor /\ s \notin lost => \E M \in SUBSET (0 .. Win - 1) : ReplacedTo(s, Win, M)
    /\ s < cursor => \E n \in 0 .. Win : \E M \in SUBSET (0 .. n - 1) : ReplacedTo(s, n, M)
    /\ s = cursor /\ pc = "search" => \E M \in SUBSET (0 .. needle - 1) : InProgress(M)
    /\ s >= cursor /\ ~(s = cursor /\ pc = "search") => ReplacedTo(s, 0, {})

ReplaceInv == ReplaceTypesOK /\ WindowsOK
ReplaceIInv == kind = "replace" => ReplaceInv

-----------------------------------------------------------------------------
\* A set of numbers has a least one.
LEMMA Leasts ==
  ASSUME NEW S, S \subseteq Nat, S # {}
  PROVE  \E m \in S : \A n \in S : m <= n
<1> DEFINE R == OpToRel(<, Nat)
<1>1. IsWellFoundedOn(R, Nat)
  BY NatLessThanWellFounded
<1>2. \A n, m \in Nat : n < m => <<n, m>> \in R
  BY DEF OpToRel
<1> HIDE DEF R
<1>3. PICK m \in S : \A n \in S : ~ (<<n, m>> \in R)
  BY <1>1, WFMin, Zenon
<1>4. \A n \in S : m <= n
  <2> SUFFICES ASSUME NEW n \in S PROVE m <= n
    OBVIOUS
  <2>1. ~ (<<n, m>> \in R)
    BY <1>3
  <2>2. n \in Nat /\ m \in Nat
    OBVIOUS
  <2>3. ~ (n < m)
    BY <1>2, <2>1, <2>2, Zenon
  <2>4. QED BY <2>2, <2>3
<1>5. QED BY <1>4

\* What the assumptions say of the window, of a RAM and of the arguments.
LEMMA ReplaceConsts ==
  /\ Win \in Nat /\ Win > 0
  /\ \A r \in Rams : r \in Seq(Byte) /\ Len(r) % Win = 0
  /\ \A s \in Strings :
       /\ s[1] \in Seq(Byte) /\ s[2] \in Seq(Byte)
       /\ 0 < Len(s[1]) /\ Len(s[2]) <= Len(s[1]) /\ Len(s[1]) <= Win
  BY TransfersAssumption DEF ReplaceAssumption, Byte

\* Windows do not overlap: from one offset to a later one it is a window at
\* least.
LEMMA Apart ==
  ASSUME NEW w \in Nat \ {0}, NEW x \in Nat, NEW y \in Nat, x % w = 0, y % w = 0, x < y
  PROVE  x + w <= y
<1> DEFINE p == x \div w  q == y \div w  d == q - p
<1>1. /\ x = w * p /\ y = w * q /\ p \in Int /\ q \in Int
  OBVIOUS
<1>2. d \in Int /\ y - x = w * d
  BY <1>1
<1> HIDE DEF p, q, d
<1>3. d >= 1
  <2>1. CASE d <= 0
    <3>1. w * d <= 0
      BY <1>2, <2>1
    <3>2. QED BY <1>2, <3>1
  <2>2. QED BY <1>2, <2>1
<1>4. w * d >= w
  BY <1>2, <1>3
<1>5. QED BY <1>2, <1>4

\* The next offset is one of a window.
LEMMA NextStart ==
  ASSUME NEW w \in Nat \ {0}, NEW x \in Nat, x % w = 0
  PROVE  (x + w) % w = 0
<1> DEFINE q == x \div w  p == (x + w) \div w  r == (x + w) % w  k == (q + 1) - p
<1>1. /\ x = w * q /\ x + w = w * p + r /\ r \in 0 .. w - 1 /\ q \in Int /\ p \in Int
  OBVIOUS
<1>2. k \in Int /\ r = w * k
  BY <1>1
<1> HIDE DEF p, q, k, r
<1>3. r \in Int /\ r >= 0 /\ r < w
  BY <1>1
<1>4. k < 1
  <2>1. CASE k >= 1
    <3>1. w * k >= w
      BY <1>2, <2>1
    <3>2. QED BY <1>2, <1>3, <3>1
  <2>2. QED BY <1>2, <2>1
<1>5. k >= 0
  <2>1. CASE k <= -1
    <3>1. w * k <= -w
      BY <1>2, <2>1
    <3>2. QED BY <1>2, <1>3, <3>1
  <2>2. QED BY <1>2, <2>1
<1>6. r = 0
  BY <1>2, <1>4, <1>5
<1>7. QED BY <1>6 DEF r

\* What Over() writes, and what it leaves.
LEMMA OverIs ==
  ASSUME NEW r \in Seq(Byte), NEW s \in Seq(Byte), NEW o \in Nat, NEW n \in 0 .. Len(s),
         o + n <= Len(r)
  PROVE  /\ Over(r, o, s, n) \in Seq(Byte) /\ Len(Over(r, o, s, n)) = Len(r)
         /\ \A a \in 1 .. Len(r) :
              Over(r, o, s, n)[a] = IF a \in o + 1 .. o + n THEN s[a - o] ELSE r[a]
<1>1. \A a \in 1 .. Len(r) : (IF a \in o + 1 .. o + n THEN s[a - o] ELSE r[a]) \in Byte
  OBVIOUS
<1>2. QED BY <1>1 DEF Over

\* A window lies in the RAM, and is the part of it that was read.
LEMMA WindowIs ==
  ASSUME ReplaceTypesOK, NEW s \in Starts
  PROVE  /\ s \in Nat /\ s + Win <= Len(ram) /\ Len(ram) = Len(read) /\ Len(read) \in Nat
         /\ Window(s) = [k \in 1 .. Win |-> read[s + k]]
<1>1. s \in Nat /\ s < Len(ram) /\ s % Win = 0 /\ Len(ram) = Len(read) /\ Len(ram) \in Nat /\ Len(ram) % Win = 0
  BY DEF ReplaceTypesOK, ReplaceTypeOK, Starts
<1>2. s + Win <= Len(ram)
  <2>1. Win \in Nat \ {0}
    BY ReplaceConsts
  <2>2. QED BY <1>1, <2>1, Apart
<1>3. Window(s) = [k \in 1 .. Win |-> read[s + k]]
  BY <1>1, <1>2, ReplaceConsts DEF Window, ReplaceTypesOK
<1>4. QED BY <1>1, <1>2, <1>3

\* A step that leaves a window as it was read, and its bytes as they are but
\* for those the BMC writes to, leaves what has been done of it.
LEMMA Frame ==
  ASSUME NEW s, NEW n, NEW M, ReplacedTo(s, n, M), strings' = strings, Window(s)' = Window(s),
         \A i \in 0 .. Win - 1 : s + i + 1 \in pokes => s + i + 1 \in pokes',
         \A i \in 0 .. Win - 1 : ram'[s + i + 1] = ram[s + i + 1] \/ s + i + 1 \in pokes'
  PROVE  ReplacedTo(s, n, M)'
<1>1. Found(Window(s), M, n)'
  BY DEF ReplacedTo, Found, At, Match, Covers
<1>2. ASSUME NEW i \in 0 .. Win - 1
      PROVE  \/ s + i + 1 \in pokes'
             \/ Becomes(Window(s), M, i, ram[s + i + 1])' /\ i < n
             \/ ram'[s + i + 1] = Window(s)'[i + 1] /\ i >= n
  <2>1. CASE s + i + 1 \in pokes'
    BY <2>1
  <2>2. CASE s + i + 1 \notin pokes'
    <3>1. s + i + 1 \notin pokes /\ ram'[s + i + 1] = ram[s + i + 1]
      BY <2>2
    <3>2. \/ Becomes(Window(s), M, i, ram[s + i + 1]) /\ i < n
          \/ ram[s + i + 1] = Window(s)[i + 1] /\ i >= n
      BY <3>1 DEF ReplacedTo
    <3>3. Becomes(Window(s), M, i, ram[s + i + 1]) => Becomes(Window(s), M, i, ram[s + i + 1])'
      BY <3>1 DEF Becomes, Replacement
    <3>4. QED BY <3>1, <3>2, <3>3
  <2>3. QED BY <2>1, <2>2
<1>3. QED BY <1>1, <1>2 DEF ReplacedTo


\* A match is found behind the last one: up to it nothing else matches, and it
\* becomes one of the matches of the window once its first byte has been
\* written, or passed.
LEMMA FoundNext ==
  ASSUME NEW w, NEW M, NEW f \in Nat, NEW o \in Nat, NEW n \in Nat, Match \in Seq(Byte), Len(Match) > 0,
         Found(w, M, f), \A m \in M : m + Len(Match) <= f,
         f <= o, At(w, o), \A x \in f .. o - 1 : ~At(w, x), o <= n, n <= o + Len(Match)
  PROVE  Found(w, IF n = o THEN M ELSE M \union {o}, n)
<1> DEFINE N == IF n = o THEN M ELSE M \union {o}
<1>1. M \subseteq 0 .. f - 1 /\ \A m \in M : At(w, m)
  BY DEF Found
<1>2. Len(Match) \in Nat
  OBVIOUS
<1>3. N \subseteq {x \in 0 .. n - 1 : At(w, x)}
  BY <1>1
<1>4. ASSUME NEW x \in N, NEW m \in N \ {x} PROVE ~Covers(m, x, Len(Match))
  <2>1. CASE x \in M /\ m \in M
    BY <2>1, <1>4 DEF Found
  <2>2. CASE x = o /\ m \in M
    BY <2>2, <1>1, <1>2 DEF Covers
  <2>3. CASE x \in M /\ m = o
    BY <2>3, <1>1, <1>2 DEF Covers
  <2>4. QED BY <2>1, <2>2, <2>3, <1>4
<1>5. ASSUME NEW x \in 0 .. n - 1, At(w, x), x \notin N
      PROVE  \E m \in N : Covers(m, x, Len(Match))
  <2>1. CASE x < f
    <3>1. \E m \in M : Covers(m, x, Len(Match))
      BY <1>5, <2>1 DEF Found
    <3>2. QED BY <3>1
  <2>2. CASE x >= f
    <3>1. x >= o
      BY <1>5, <2>2
    <3>2. o \in N
      BY <1>5, <3>1
    <3>3. Covers(o, x, Len(Match))
      BY <1>2, <1>5, <3>1 DEF Covers
    <3>4. QED BY <3>2, <3>3
  <2>3. QED BY <2>1, <2>2
<1> HIDE DEF N
<1>6. Found(w, N, n)
  BY <1>3, <1>4, <1>5 DEF Found
<1>7. QED BY <1>6 DEF N

\* The match at o is overwritten, as far as the write gets.
LEMMA Overwritten ==
  ASSUME ReplaceTypesOK, NEW s, s \in Starts, NEW M, NEW f, f = needle, ReplacedTo(s, f, M),
         \A m \in M : m + Len(Match) <= f, NEW o \in f .. Win - 1,
         At(Window(s), o), \A x \in f .. o - 1 : ~At(Window(s), x),
         NEW k \in 0 .. Len(Replacement), ram' = Over(ram, s + o, Replacement, k),
         pokes' = pokes \ (s + o + 1 .. s + o + k), UNCHANGED <<strings, read>>, NEW n \in Nat,
         n = o + k \/ (k = Len(Replacement) /\ n = o + Len(Match))
  PROVE  ReplacedTo(s, n, IF n = o THEN M ELSE M \union {o})'
<1> DEFINE N == IF n = o THEN M ELSE M \union {o}
<1>1. /\ Len(Match) \in Nat /\ Len(Replacement) \in Nat /\ Len(Match) > 0
      /\ Len(Replacement) <= Len(Match) /\ f \in Nat /\ Win \in Nat
      /\ s \in Nat /\ s + Win <= Len(ram) /\ Len(ram) \in Nat
      /\ Match \in Seq(Byte) /\ Replacement \in Seq(Byte) /\ ram \in Seq(Byte)
  BY WindowIs, ReplaceConsts DEF ReplaceTypesOK, ReplaceTypeOK, Byte
<1>2. o + Len(Match) <= Win /\ o \in Nat /\ k \in Nat
  BY <1>1 DEF At
<1>3. Window(s)' = Window(s) /\ Match' = Match /\ Replacement' = Replacement
  BY DEF Window, Match, Replacement
<1>4. Found(Window(s), N, n)
  <2>1. Found(Window(s), M, f)
    BY DEF ReplacedTo
  <2>2. f <= o /\ o <= n /\ n <= o + Len(Match)
    BY <1>1, <1>2
  <2>3. QED BY <1>1, <1>2, <2>1, <2>2, FoundNext
<1>5. Found(Window(s), N, n)'
  BY <1>3, <1>4 DEF Found, At, Covers
<1>6. M \subseteq 0 .. f - 1
  BY DEF ReplacedTo, Found
<1>7. \A a \in 1 .. Len(ram) :
        ram'[a] = IF a \in s + o + 1 .. s + o + k THEN Replacement[a - (s + o)] ELSE ram[a]
  <2>1. s + o \in Nat /\ s + o + k <= Len(ram)
    BY <1>1, <1>2
  <2>2. QED BY <1>1, <2>1, OverIs
<1>8. ASSUME NEW i \in 0 .. Win - 1, s + i + 1 \notin pokes'
      PROVE  \/ Becomes(Window(s), N, i, ram'[s + i + 1]) /\ i < n
             \/ ram'[s + i + 1] = Window(s)[i + 1] /\ i >= n
  <2>1. i \notin o .. o + k - 1 =>
          \/ Becomes(Window(s), M, i, ram[s + i + 1]) /\ i < f
          \/ ram[s + i + 1] = Window(s)[i + 1] /\ i >= f
    <3>1. i \notin o .. o + k - 1 => s + i + 1 \notin s + o + 1 .. s + o + k
      BY <1>1, <1>2
    <3>2. QED BY <1>8, <3>1 DEF ReplacedTo
  <2>2. /\ s + i + 1 \in 1 .. Len(ram)
        /\ i \in o .. o + k - 1 => ram'[s + i + 1] = Replacement[i - o + 1]
        /\ i \notin o .. o + k - 1 => ram'[s + i + 1] = ram[s + i + 1]
    <3>1. s + i + 1 \in 1 .. Len(ram)
      BY <1>1
    <3>2. s + i + 1 \in s + o + 1 .. s + o + k <=> i \in o .. o + k - 1
      BY <1>1, <1>2
    <3>3. (s + i + 1) - (s + o) = i - o + 1
      BY <1>1, <1>2
    <3>4. QED BY <1>7, <3>1, <3>2, <3>3
  <2>3. i >= f => \A m \in M : ~Covers(m, i, Len(Replacement))
    BY <1>1, <1>6 DEF Covers
  <2>4. i < o => ~Covers(o, i, Len(Replacement))
    BY <1>1, <1>2 DEF Covers
  <2>5. CASE i < f
    <3>1. Becomes(Window(s), M, i, ram'[s + i + 1]) /\ i < o
      <4>1. i < o /\ i \notin o .. o + k - 1
        BY <1>1, <1>2, <2>5
      <4>2. QED BY <1>1, <2>1, <2>2, <2>5, <4>1
    <3>2. Becomes(Window(s), N, i, ram'[s + i + 1])
      BY <2>4, <3>1 DEF Becomes
    <3>3. QED BY <1>1, <1>2, <3>1, <3>2
  <2>6. CASE f <= i /\ i < o
    <3>1. ram'[s + i + 1] = Window(s)[i + 1]
      BY <1>1, <1>2, <2>1, <2>2, <2>6
    <3>2. Becomes(Window(s), N, i, ram'[s + i + 1])
      BY <2>3, <2>4, <2>6, <3>1 DEF Becomes
    <3>3. QED BY <1>1, <1>2, <2>6, <3>2
  <2>7. CASE i \in o .. o + k - 1
    <3>1. n > o /\ o \in N /\ i < n
      BY <1>1, <1>2, <2>7
    <3>2. Covers(o, i, Len(Replacement)) /\ ram'[s + i + 1] = Replacement[i - o + 1]
      BY <1>1, <1>2, <2>2, <2>7 DEF Covers
    <3> HIDE DEF N
    <3>3. QED BY <3>1, <3>2 DEF Becomes
  <2>8. CASE i >= o + k
    <3>1. ram'[s + i + 1] = Window(s)[i + 1] /\ i >= f
      BY <1>1, <1>2, <2>1, <2>2, <2>8
    <3>2. CASE i < n
      <4>1. k = Len(Replacement) /\ ~Covers(o, i, Len(Replacement))
        BY <1>1, <1>2, <2>8, <3>2 DEF Covers
      <4>2. Becomes(Window(s), N, i, ram'[s + i + 1])
        BY <2>3, <3>1, <4>1 DEF Becomes
      <4>3. QED BY <3>2, <4>2
    <3>3. QED BY <1>1, <3>1, <3>2
  <2>9. QED BY <1>1, <1>2, <2>5, <2>6, <2>7, <2>8
<1> HIDE DEF N
<1>9. ReplacedTo(s, n, N)'
  <2>1. \A i \in 0 .. Win - 1 :
          \/ s + i + 1 \in pokes'
          \/ Becomes(Window(s), N, i, ram[s + i + 1])' /\ i < n
          \/ ram'[s + i + 1] = Window(s)'[i + 1] /\ i >= n
    <3>1. ASSUME NEW i \in 0 .. Win - 1, Becomes(Window(s), N, i, ram'[s + i + 1])
          PROVE  Becomes(Window(s), N, i, ram[s + i + 1])'
      BY <1>3, <3>1 DEF Becomes
    <3>2. QED BY <1>3, <1>8, <3>1
  <2>2. QED BY <1>5, <2>1 DEF ReplacedTo
<1>10. QED BY <1>9 DEF N

\* A window that is left alone, as the pc and the pokes go on, and one of a
\* window that nothing has been done of.
LEMMA OthersKeep ==
  ASSUME ReplaceInv, UNCHANGED <<strings, pokes>>, NEW s \in Starts, NEW n, NEW M, ReplacedTo(s, n, M),
         Window(s)' = Window(s), \A i \in 0 .. Win - 1 : ram'[s + i + 1] = ram[s + i + 1]
  PROVE  ReplacedTo(s, n, M)'
  BY Frame

\* A step that leaves the replacement alone.
LEMMA QuietKeeps ==
  ASSUME ReplaceInv, UNCHANGED replaceVars, pc' = "search" <=> pc = "search",
         pc' \in {"open", "probe", "scan", "search", "close", "end"}
  PROVE  ReplaceInv'
<1>1. /\ UNCHANGED <<strings, ram, cursor, win, needle, pokes, read, lost>>
      /\ UNCHANGED <<Match, Replacement, Starts>>
  BY DEF replaceVars, Match, Replacement, Starts
<1>2. \A s : Window(s)' = Window(s)
  BY <1>1 DEF Window
<1>3. ReplaceTypesOK'
  BY <1>1, <1>2 DEF ReplaceInv, ReplaceTypesOK, ReplaceTypeOK
<1>4. \A s, n, M : ReplacedTo(s, n, M) => ReplacedTo(s, n, M)'
  BY <1>1, <1>2, Frame
<1>5. WindowsOK'
  BY <1>1, <1>4 DEF ReplaceInv, WindowsOK, InProgress
<1>6. QED BY <1>3, <1>5 DEF ReplaceInv

\* The BMC writes to its memory.
LEMMA PokeKeeps ==
  ASSUME ReplaceInv, Poke
  PROVE  ReplaceInv'
<1>1. PICK a \in 1 .. Len(ram), b \in Byte : ram' = [ram EXCEPT ![a] = b] /\ pokes' = pokes \union {a}
  BY DEF Poke, Byte
<1>2. UNCHANGED <<pc, strings, cursor, win, needle, read, lost>>
  BY DEF Poke, ahbVars
<1>3. ram \in Seq(Byte) /\ ram' \in Seq(Byte) /\ Len(ram') = Len(ram)
      /\ \A c \in 1 .. Len(ram) : c # a => ram'[c] = ram[c]
  <2>1. ram \in Seq(Byte)
    BY DEF ReplaceInv, ReplaceTypesOK, ReplaceTypeOK, Byte
  <2>2. QED BY <1>1, <2>1
<1>4. Starts' = Starts /\ Match' = Match /\ Replacement' = Replacement
  BY <1>2, <1>3 DEF Starts, Match, Replacement
<1>5. \A s : Window(s)' = Window(s)
  BY <1>2 DEF Window
<1>6. ReplaceTypesOK'
  <2>1. ram' \in Seq({0, 1}) /\ pokes' \subseteq 1 .. Len(ram')
    BY <1>1, <1>3 DEF Byte, ReplaceInv, ReplaceTypesOK, ReplaceTypeOK
  <2>2. QED BY <1>2, <1>3, <1>4, <1>5, <2>1 DEF ReplaceInv, ReplaceTypesOK, ReplaceTypeOK
<1>7. ASSUME NEW s \in Starts, NEW n, NEW M, ReplacedTo(s, n, M) PROVE ReplacedTo(s, n, M)'
  <2>1. \A i \in 0 .. Win - 1 : s + i + 1 \in 1 .. Len(ram)
    BY WindowIs, ReplaceConsts DEF ReplaceInv
  <2>2. \A i \in 0 .. Win - 1 : ram'[s + i + 1] = ram[s + i + 1] \/ s + i + 1 \in pokes'
    BY <1>1, <1>3, <2>1
  <2>3. \A i \in 0 .. Win - 1 : s + i + 1 \in pokes => s + i + 1 \in pokes'
    BY <1>1
  <2>4. QED BY <1>2, <1>5, <1>7, <2>2, <2>3, Frame
<1>8. ASSUME NEW s \in Starts', NEW M, s = cursor, InProgress(M) PROVE InProgress(M)'
  <2>1. ReplacedTo(s, needle, M)
    BY <1>8 DEF InProgress
  <2>2. ReplacedTo(s, needle, M)'
    BY <1>2, <1>4, <1>7, <2>1
  <2>3. QED BY <1>2, <1>4, <1>8, <2>2 DEF InProgress
<1>9. WindowsOK'
  <2> SUFFICES ASSUME NEW s \in Starts'
               PROVE  /\ s < cursor' /\ s \notin lost' => \E M \in SUBSET (0 .. Win - 1) : ReplacedTo(s, Win, M)'
                      /\ s < cursor' => \E n \in 0 .. Win : \E M \in SUBSET (0 .. n - 1) : ReplacedTo(s, n, M)'
                      /\ s = cursor' /\ pc' = "search" => \E M \in SUBSET (0 .. needle' - 1) : InProgress(M)'
                      /\ s >= cursor' /\ ~(s = cursor' /\ pc' = "search") => ReplacedTo(s, 0, {})'
    BY DEF WindowsOK
  <2>1. QED BY <1>2, <1>4, <1>7, <1>8 DEF ReplaceInv, WindowsOK
<1>10. QED BY <1>6, <1>9 DEF ReplaceInv

\* The next window is read, as it now is.
LEMMA ScanKeeps ==
  ASSUME ReplaceInv, Scan
  PROVE  ReplaceInv'
<1>1. CASE pc' = "close" /\ UNCHANGED replaceVars
  BY <1>1, QuietKeeps DEF Scan
<1>2. CASE /\ cursor < Len(ram) /\ pc' = "search" /\ needle' = 0
           /\ win' = SubSeq(ram, cursor + 1, cursor + Win)
           /\ read' = Over(read, cursor, win', Win)
           /\ pokes' = pokes \ (cursor + 1 .. cursor + Win)
           /\ UNCHANGED <<strings, ram, cursor, lost>>
  <2>1. /\ ram \in Seq(Byte) /\ read \in Seq(Byte) /\ Len(read) = Len(ram) /\ Len(ram) \in Nat
        /\ cursor \in Starts /\ cursor \in Nat
    BY <1>2 DEF ReplaceInv, ReplaceTypesOK, ReplaceTypeOK, Byte, Starts
  <2>2. cursor + Win <= Len(ram) /\ Win \in Nat /\ Win > 0
    BY <2>1, WindowIs, ReplaceConsts DEF ReplaceInv
  <2>3. win' \in Seq(Byte) /\ win' = [k \in 1 .. Win |-> ram[cursor + k]] /\ Len(win') = Win
    BY <1>2, <2>1, <2>2
  <2>4. /\ read' \in Seq(Byte) /\ Len(read') = Len(ram)
        /\ \A a \in 1 .. Len(ram) :
             read'[a] = IF a \in cursor + 1 .. cursor + Win THEN ram[a] ELSE read[a]
    <3>1. /\ read' \in Seq(Byte) /\ Len(read') = Len(read)
          /\ \A a \in 1 .. Len(read) :
               read'[a] = IF a \in cursor + 1 .. cursor + Win THEN win'[a - cursor] ELSE read[a]
      <4>1. Win \in 0 .. Len(win') /\ cursor + Win <= Len(read) /\ win' \in Seq(Byte)
        BY <2>1, <2>2, <2>3
      <4> DEFINE seq == win'  done == read'
      <4>2. seq \in Seq(Byte) /\ Win \in 0 .. Len(seq) /\ done = Over(read, cursor, seq, Win)
        BY <1>2, <4>1
      <4> HIDE DEF seq, done
      <4>3. /\ done \in Seq(Byte) /\ Len(done) = Len(read)
            /\ \A a \in 1 .. Len(read) :
                 done[a] = IF a \in cursor + 1 .. cursor + Win THEN seq[a - cursor] ELSE read[a]
        BY <2>1, <4>1, <4>2, OverIs
      <4>4. QED BY <4>3 DEF seq, done
    <3>2. \A a \in cursor + 1 .. cursor + Win : win'[a - cursor] = ram[a]
      <4>1. ASSUME NEW a \in cursor + 1 .. cursor + Win PROVE win'[a - cursor] = ram[a]
        <5>1. a - cursor \in 1 .. Win /\ cursor + (a - cursor) = a
          BY <2>1, <2>2
        <5>2. QED BY <2>3, <5>1
      <4>2. QED BY <4>1
    <3>3. QED BY <2>1, <3>1, <3>2
  <2>5. Starts' = Starts /\ Match' = Match /\ Replacement' = Replacement
    BY <1>2 DEF Starts, Match, Replacement
  <2>6. \A s \in Starts : Window(s)' = [k \in 1 .. Win |-> read'[s + k]]
    <3>1. \A s \in Starts : s \in Nat /\ s + Win <= Len(ram)
      BY WindowIs DEF ReplaceInv
    <3>2. \A s \in Starts : Window(s)' = SubSeq(read', s + 1, s + Win)
      BY DEF Window
    <3>3. Len(read') = Len(ram) /\ Len(ram) \in Nat /\ read' \in Seq(Byte)
      BY <2>1, <2>4
    <3>4. ASSUME NEW s \in Starts
          PROVE  SubSeq(read', s + 1, s + Win) = [k \in 1 .. Win |-> read'[s + k]]
      BY <2>2, <3>1, <3>3
    <3>5. QED BY <3>2, <3>4
  <2>7. Window(cursor)' = win'
    <3>1. (Window(cursor))' = SubSeq(read', cursor + 1, cursor + Win)
      BY <1>2 DEF Window
    <3>2. SubSeq(read', cursor + 1, cursor + Win) = [k \in 1 .. Win |-> read'[cursor + k]]
      BY <2>1, <2>2, <2>4
    <3>3. QED BY <2>1, <2>2, <2>3, <2>4, <3>1, <3>2
  <2>8. ReplaceTypesOK'
    <3>1. win' \in Seq({0, 1}) /\ needle' \in 0 .. Win
      BY <1>2, <2>2, <2>3 DEF Byte
    <3>2. QED BY <1>2, <2>4, <2>5, <2>7, <3>1 DEF ReplaceInv, ReplaceTypesOK, ReplaceTypeOK
  <2>9. ASSUME NEW s \in Starts, s # cursor, NEW n, NEW M, ReplacedTo(s, n, M)
        PROVE  ReplacedTo(s, n, M)'
    <3>1. s \in Nat /\ s + Win <= Len(ram) /\ Window(s) = [k \in 1 .. Win |-> read[s + k]]
      BY WindowIs DEF ReplaceInv
    <3>2. s % Win = 0 /\ cursor % Win = 0
      BY <2>1 DEF Starts
    <3>3. s + Win <= cursor \/ cursor + Win <= s
      BY <2>1, <2>2, <2>9, <3>1, <3>2, Apart
    <3>4. ASSUME NEW k \in 1 .. Win PROVE read'[s + k] = read[s + k]
      <4>1. s + k \in 1 .. Len(ram) /\ s + k \notin cursor + 1 .. cursor + Win
        BY <2>1, <2>2, <3>1, <3>3
      <4>2. QED BY <2>4, <4>1
    <3>5. Window(s)' = Window(s)
      BY <2>6, <3>1, <3>4
    <3>6. \A i \in 0 .. Win - 1 : s + i + 1 \notin cursor + 1 .. cursor + Win
      BY <2>1, <2>2, <3>1, <3>3
    <3>7. \A i \in 0 .. Win - 1 : s + i + 1 \in pokes => s + i + 1 \in pokes'
      BY <1>2, <3>6
    <3>8. QED BY <1>2, <2>9, <3>5, <3>7, Frame
  <2>10. ASSUME NEW s \in Starts, s = cursor PROVE ReplacedTo(s, 0, {})'
    <3>1. Window(s)' = [k \in 1 .. Win |-> ram[s + k]]
      <4>1. Window(s)' = win'
        BY <1>2, <2>7, <2>10 DEF Window
      <4>2. QED BY <2>3, <2>10, <4>1
    <3>2. \A i \in 0 .. Win - 1 : ram'[s + i + 1] = Window(s)'[i + 1]
      BY <1>2, <2>1, <2>2, <2>10, <3>1
    <3>3. Found(Window(s), {}, 0)'
      BY DEF Found
    <3>4. QED BY <2>2, <3>2, <3>3 DEF ReplacedTo
  <2>11. WindowsOK'
    <3> SUFFICES ASSUME NEW s \in Starts'
                 PROVE  /\ s < cursor' /\ s \notin lost' => \E M \in SUBSET (0 .. Win - 1) : ReplacedTo(s, Win, M)'
                        /\ s < cursor' => \E n \in 0 .. Win : \E M \in SUBSET (0 .. n - 1) : ReplacedTo(s, n, M)'
                        /\ s = cursor' /\ pc' = "search" => \E M \in SUBSET (0 .. needle' - 1) : InProgress(M)'
                        /\ s >= cursor' /\ ~(s = cursor' /\ pc' = "search") => ReplacedTo(s, 0, {})'
      BY DEF WindowsOK
    <3>1. CASE s # cursor
      BY <1>2, <2>1, <2>5, <2>9, <3>1 DEF ReplaceInv, WindowsOK
    <3>2. CASE s = cursor
      <4>1. ReplacedTo(s, 0, {})'
        BY <2>5, <2>10, <3>2
      <4>2. ReplacedTo(cursor, needle, {})'
        BY <1>2, <3>2, <4>1
      <4>3. InProgress({})'
        BY <4>2 DEF InProgress
      <4>4. QED BY <1>2, <2>1, <3>2, <4>3
    <3>3. QED BY <3>1, <3>2
  <2>12. QED BY <2>8, <2>11 DEF ReplaceInv
<1>3. QED
  BY <1>1, <1>2 DEF Scan, Goto, Fail, replaceVars, ReplaceInv, ReplaceTypesOK, ReplaceTypeOK

\* The next window's offset: no other lies in between.
LEMMA Onwards ==
  ASSUME ReplaceTypesOK, cursor \in Starts
  PROVE  /\ cursor + Win \in 0 .. Len(ram) /\ (cursor + Win) % Win = 0 /\ cursor < cursor + Win
         /\ \A s \in Starts : s < cursor + Win => s <= cursor
<1>1. /\ cursor \in Nat /\ cursor + Win <= Len(ram) /\ Len(ram) \in Nat /\ Win \in Nat \ {0}
      /\ cursor % Win = 0
  BY WindowIs, ReplaceConsts DEF ReplaceTypesOK
<1>2. (cursor + Win) % Win = 0
  BY <1>1, NextStart
<1>3. ASSUME NEW s \in Starts, s < cursor + Win PROVE s <= cursor
  <2>1. s \in Nat /\ s % Win = 0
    BY <1>1 DEF Starts
  <2>2. ASSUME cursor < s PROVE FALSE
    <3>1. cursor + Win <= s
      BY <1>1, <2>1, <2>2, Apart
    <3>2. QED BY <1>1, <1>3, <2>1, <3>1
  <2>3. QED BY <1>1, <2>1, <2>2
<1>4. QED BY <1>1, <1>2, <1>3

\* Nothing more is found in the window: it is done.
LEMMA PassedKeeps ==
  ASSUME ReplaceInv, pc = "search", \A o \in needle .. Win - 1 : ~At(win, o),
         pc' = "scan", cursor' = cursor + Win, UNCHANGED <<strings, ram, win, needle, pokes, read, lost>>
  PROVE  ReplaceInv'
<1>1. /\ ReplaceTypesOK /\ cursor \in Starts /\ cursor \in Nat /\ win = Window(cursor)
      /\ needle \in 0 .. Win /\ Win \in Nat
  BY ReplaceConsts DEF ReplaceInv, ReplaceTypesOK, ReplaceTypeOK, Starts
<1>2. /\ Starts' = Starts /\ Match' = Match /\ Replacement' = Replacement
      /\ \A s : Window(s)' = Window(s)
  BY DEF Starts, Match, Replacement, Window
<1>3. ReplaceTypesOK'
  BY <1>1, <1>2, Onwards DEF ReplaceTypesOK, ReplaceTypeOK
<1>4. \A s, n, M : ReplacedTo(s, n, M) => ReplacedTo(s, n, M)'
  BY <1>2, Frame
<1>5. ASSUME NEW s \in Starts, s = cursor PROVE \E M \in SUBSET (0 .. Win - 1) : ReplacedTo(s, Win, M)
  <2>1. PICK M \in SUBSET (0 .. needle - 1) : InProgress(M)
    BY <1>5 DEF ReplaceInv, WindowsOK
  <2>2. PICK f \in 0 .. Win : f = needle
    BY <1>1
  <2>3. ReplacedTo(s, f, M) /\ \A m \in M : m + Len(Match) <= f
    BY <1>5, <2>1, <2>2 DEF InProgress
  <2>4. M \subseteq 0 .. f - 1
    BY <2>1, <2>2
  <2>5. \A o \in f .. Win - 1 : ~At(Window(s), o)
    BY <1>1, <1>5, <2>2
  <2>6. Found(Window(s), M, Win)
    <3>1. Found(Window(s), M, f)
      BY <2>3 DEF ReplacedTo
    <3>2. M \subseteq {o \in 0 .. Win - 1 : At(Window(s), o)}
      BY <1>1, <3>1 DEF Found
    <3>3. \A o \in 0 .. Win - 1 : At(Window(s), o) => o \in 0 .. f - 1
      BY <1>1, <2>5
    <3>4. QED BY <3>1, <3>2, <3>3 DEF Found
  <2>7. ASSUME NEW i \in 0 .. Win - 1, s + i + 1 \notin pokes
        PROVE  Becomes(Window(s), M, i, ram[s + i + 1])
    <3>1. CASE i < f
      BY <2>3, <2>7, <3>1 DEF ReplacedTo
    <3>2. CASE i >= f
      <4>1. ram[s + i + 1] = Window(s)[i + 1]
        BY <2>3, <2>7, <3>2 DEF ReplacedTo
      <4>2. \A m \in M : ~Covers(m, i, Len(Replacement))
        <5>1. /\ Len(Match) \in Nat /\ Len(Replacement) \in Nat
              /\ Len(Replacement) <= Len(Match)
          BY <1>1 DEF ReplaceTypesOK
        <5>2. QED BY <2>3, <2>4, <3>2, <5>1 DEF Covers
      <4>3. QED BY <4>1, <4>2 DEF Becomes
    <3>3. QED BY <3>1, <3>2
  <2>8. ReplacedTo(s, Win, M)
    <3>1. \A i \in 0 .. Win - 1 : i < Win
      BY <1>1
    <3>2. QED BY <2>6, <2>7, <3>1 DEF ReplacedTo
  <2>9. M \in SUBSET (0 .. Win - 1)
    BY <1>1, <2>4
  <2>10. QED BY <2>8, <2>9
<1>6. WindowsOK'
  <2> SUFFICES ASSUME NEW s \in Starts'
               PROVE  /\ s < cursor' /\ s \notin lost' => \E M \in SUBSET (0 .. Win - 1) : ReplacedTo(s, Win, M)'
                      /\ s < cursor' => \E n \in 0 .. Win : \E M \in SUBSET (0 .. n - 1) : ReplacedTo(s, n, M)'
                      /\ s = cursor' /\ pc' = "search" => \E M \in SUBSET (0 .. needle' - 1) : InProgress(M)'
                      /\ s >= cursor' /\ ~(s = cursor' /\ pc' = "search") => ReplacedTo(s, 0, {})'
    BY DEF WindowsOK
  <2>1. s \in Starts /\ s \in Nat
    BY <1>2 DEF Starts
  <2>2. CASE s = cursor
    <3>1. PICK M \in SUBSET (0 .. Win - 1) : ReplacedTo(s, Win, M)'
      BY <1>4, <1>5, <2>1, <2>2
    <3>2. Win \in 0 .. Win
      BY <1>1
    <3>3. s < cursor'
      BY <1>1, <2>2, Onwards
    <3>4. QED BY <1>1, <2>1, <3>1, <3>2, <3>3
  <2>3. CASE s < cursor
    <3>1. /\ s \notin lost => \E M \in SUBSET (0 .. Win - 1) : ReplacedTo(s, Win, M)'
          /\ \E n \in 0 .. Win : \E M \in SUBSET (0 .. n - 1) : ReplacedTo(s, n, M)'
      BY <1>4, <2>1, <2>3 DEF ReplaceInv, WindowsOK
    <3>2. s < cursor'
      BY <1>1, <2>1, <2>3
    <3>3. QED BY <1>1, <2>1, <3>1, <3>2
  <2>4. CASE s > cursor
    <3>1. ReplacedTo(s, 0, {})'
      BY <1>1, <1>4, <2>1, <2>4 DEF ReplaceInv, WindowsOK
    <3>2. ~(s < cursor')
      BY <1>1, <2>1, <2>4, Onwards
    <3>3. QED BY <3>1, <3>2
  <2>5. QED BY <1>1, <2>1, <2>2, <2>3, <2>4
<1>7. QED BY <1>3, <1>6 DEF ReplaceInv

\* A match is overwritten, or the write fails and this window is left.
LEMMA HitKeeps ==
  ASSUME ReplaceInv, pc = "search", NEW o \in needle .. Win - 1, At(win, o),
         \A x \in needle .. o - 1 : ~At(win, x),
         NEW k \in 0 .. Len(Replacement), ram' = Over(ram, cursor + o, Replacement, k),
         pokes' = pokes \ (cursor + o + 1 .. cursor + o + k), UNCHANGED <<strings, win, read>>,
         \/ /\ pc' = "search" /\ k = Len(Replacement) /\ needle' = o + Len(Match)
            /\ UNCHANGED <<cursor, lost>>
         \/ /\ pc' = "scan" /\ cursor' = cursor + Win /\ lost' = lost \union {cursor}
            /\ UNCHANGED needle
  PROVE  ReplaceInv'
<1>1. /\ ReplaceTypesOK /\ cursor \in Starts /\ cursor \in Nat /\ win = Window(cursor)
      /\ needle \in 0 .. Win /\ Win \in Nat /\ ram \in Seq(Byte) /\ Len(ram) \in Nat
      /\ Match \in Seq(Byte) /\ Replacement \in Seq(Byte)
  BY ReplaceConsts DEF ReplaceInv, ReplaceTypesOK, ReplaceTypeOK, Starts, Byte
<1>2. /\ Len(Match) \in Nat /\ Len(Replacement) \in Nat /\ Len(Match) > 0
      /\ Len(Replacement) <= Len(Match) /\ o \in Nat /\ k \in Nat /\ cursor + Win <= Len(ram)
  BY <1>1, WindowIs DEF ReplaceTypesOK
<1>3. o + Len(Match) <= Win
  BY DEF At
<1>4. /\ ram' \in Seq(Byte) /\ Len(ram') = Len(ram)
      /\ \A a \in 1 .. Len(ram) : a \notin cursor + o + 1 .. cursor + o + k => ram'[a] = ram[a]
  <2>1. cursor + o \in Nat /\ cursor + o + k <= Len(ram)
    BY <1>1, <1>2, <1>3
  <2>2. /\ ram' \in Seq(Byte) /\ Len(ram') = Len(ram)
        /\ \A a \in 1 .. Len(ram) :
             ram'[a] = IF a \in cursor + o + 1 .. cursor + o + k THEN Replacement[a - (cursor + o)] ELSE ram[a]
    BY <1>1, <2>1, OverIs
  <2>3. QED BY <2>2
<1>5. /\ Starts' = Starts /\ Match' = Match /\ Replacement' = Replacement
      /\ \A s : Window(s)' = Window(s)
  BY <1>4 DEF Starts, Match, Replacement, Window
<1>6. ReplaceTypesOK'
  <2>1. needle' \in 0 .. Win
    BY <1>1, <1>2, <1>3
  <2>2. ram' \in Seq({0, 1}) /\ pokes' \subseteq 1 .. Len(ram') /\ Len(read') = Len(ram')
    BY <1>1, <1>4 DEF Byte, ReplaceTypesOK, ReplaceTypeOK
  <2>3. cursor' \in 0 .. Len(ram') /\ cursor' % Win = 0
    BY <1>1, <1>4, Onwards DEF ReplaceTypesOK, ReplaceTypeOK
  <2>4. Len(ram') % Win = 0 /\ pc' \in {"search", "scan"} /\ win' \in Seq({0, 1}) /\ read' \in Seq(Byte)
    BY <1>1, <1>4 DEF ReplaceTypesOK, ReplaceTypeOK
  <2>5. pc' = "search" => cursor' < Len(ram') /\ win' = Window(cursor)'
    <3>1. pc' = "search" => cursor' = cursor
      OBVIOUS
    <3>2. cursor < Len(ram)
      BY DEF ReplaceInv, ReplaceTypesOK
    <3>3. QED BY <1>1, <1>4, <3>1, <3>2 DEF Window
  <2>6. QED BY <1>1, <1>5, <2>1, <2>2, <2>3, <2>4, <2>5 DEF ReplaceTypesOK, ReplaceTypeOK
<1>7. ASSUME NEW s \in Starts, s # cursor, NEW n, NEW M, ReplacedTo(s, n, M)
      PROVE  ReplacedTo(s, n, M)'
  <2>1. s \in Nat /\ s + Win <= Len(ram) /\ s % Win = 0 /\ cursor % Win = 0
    BY <1>1, WindowIs DEF Starts
  <2>2. s + Win <= cursor \/ cursor + Win <= s
    <3>1. Win \in Nat \ {0}
      BY ReplaceConsts
    <3>2. cursor \in Nat /\ (s < cursor \/ cursor < s)
      BY <1>1, <1>7, <2>1
    <3>3. QED BY <2>1, <3>1, <3>2, Apart
  <2>3. ASSUME NEW i \in 0 .. Win - 1 PROVE ram'[s + i + 1] = ram[s + i + 1]
    <3>1. s + i + 1 \in 1 .. Len(ram) /\ s + i + 1 \notin cursor + o + 1 .. cursor + o + k
      BY <1>1, <1>2, <1>3, <2>1, <2>2
    <3>2. QED BY <1>4, <3>1
  <2>4. \A i \in 0 .. Win - 1 : s + i + 1 \in pokes => s + i + 1 \in pokes'
    BY <1>1, <1>2, <1>3, <2>1, <2>2
  <2>5. QED BY <1>5, <1>7, <2>3, <2>4, Frame
<1>8. ASSUME NEW s \in Starts, s = cursor, NEW n \in Nat,
             n = o + k \/ (k = Len(Replacement) /\ n = o + Len(Match))
      PROVE  \E M \in SUBSET (0 .. n - 1) :
               ReplacedTo(s, n, M)' /\ \A m \in M : m + Len(Match) <= o + Len(Match)
  <2>1. PICK M \in SUBSET (0 .. needle - 1) : InProgress(M)
    BY <1>8 DEF ReplaceInv, WindowsOK
  <2>2. PICK f \in 0 .. Win : f = needle
    BY <1>1
  <2>3. ReplacedTo(s, f, M) /\ \A m \in M : m + Len(Match) <= f
    BY <1>8, <2>1, <2>2 DEF InProgress
  <2> DEFINE N == IF n = o THEN M ELSE M \union {o}
  <2>4. ReplacedTo(s, n, N)'
    <3>1. /\ o \in f .. Win - 1 /\ At(Window(s), o) /\ \A x \in f .. o - 1 : ~At(Window(s), x)
          /\ ram' = Over(ram, s + o, Replacement, k) /\ pokes' = pokes \ (s + o + 1 .. s + o + k)
      BY <1>1, <1>8, <2>2
    <3>2. QED BY <1>1, <1>8, <2>2, <2>3, <3>1, Overwritten
  <2>5. N \in SUBSET (0 .. n - 1) /\ \A m \in N : m + Len(Match) <= o + Len(Match)
    BY <1>1, <1>2, <1>8, <2>1, <2>2, <2>3
  <2> HIDE DEF N
  <2>6. QED BY <2>4, <2>5
<1>9. WindowsOK'
  <2> SUFFICES ASSUME NEW s \in Starts'
               PROVE  /\ s < cursor' /\ s \notin lost' => \E M \in SUBSET (0 .. Win - 1) : ReplacedTo(s, Win, M)'
                      /\ s < cursor' => \E n \in 0 .. Win : \E M \in SUBSET (0 .. n - 1) : ReplacedTo(s, n, M)'
                      /\ s = cursor' /\ pc' = "search" => \E M \in SUBSET (0 .. needle' - 1) : InProgress(M)'
                      /\ s >= cursor' /\ ~(s = cursor' /\ pc' = "search") => ReplacedTo(s, 0, {})'
    BY DEF WindowsOK
  <2>1. s \in Starts /\ s \in Nat
    BY <1>5 DEF Starts
  <2>2. CASE s = cursor /\ cursor' = cursor
    <3>1. pc' = "search" /\ k = Len(Replacement) /\ needle' = o + Len(Match) /\ o + Len(Match) \in Nat
      BY <1>1, <1>2, <2>2
    <3>2. PICK M \in SUBSET (0 .. needle' - 1) :
            ReplacedTo(s, o + Len(Match), M)' /\ \A m \in M : m + Len(Match) <= o + Len(Match)
      <4>1. PICK n \in Nat : n = o + Len(Match)
        BY <3>1
      <4>2. PICK M \in SUBSET (0 .. n - 1) :
              ReplacedTo(s, n, M)' /\ \A m \in M : m + Len(Match) <= o + Len(Match)
        BY <1>8, <2>1, <2>2, <3>1, <4>1
      <4>3. (ReplacedTo(s, n, M))' => (ReplacedTo(s, o + Len(Match), M))'
        BY <1>5, <4>1 DEF ReplacedTo, Found
      <4>4. QED BY <3>1, <4>1, <4>2, <4>3
    <3>3. ReplacedTo(cursor, needle, M)'
      BY <1>5, <2>2, <3>1, <3>2 DEF ReplacedTo, Found, Window
    <3>4. InProgress(M)'
      BY <1>5, <3>1, <3>2, <3>3 DEF InProgress
    <3>5. QED BY <1>1, <2>1, <2>2, <3>1, <3>4
  <2>3. CASE s = cursor /\ cursor' # cursor
    <3>1. cursor' = cursor + Win /\ lost' = lost \union {cursor} /\ pc' = "scan" /\ s < cursor'
      BY <1>1, <2>3, Onwards
    <3>2. PICK n \in 0 .. Win : n = o + k
      BY <1>1, <1>2, <1>3
    <3>3. \E M \in SUBSET (0 .. n - 1) : ReplacedTo(s, n, M)'
      BY <1>8, <2>1, <2>3, <3>2
    <3>4. QED BY <1>1, <2>1, <2>3, <3>1, <3>3
  <2>4. CASE s < cursor
    <3>1. /\ s \notin lost => \E M \in SUBSET (0 .. Win - 1) : ReplacedTo(s, Win, M)'
          /\ \E n \in 0 .. Win : \E M \in SUBSET (0 .. n - 1) : ReplacedTo(s, n, M)'
      BY <1>1, <1>7, <2>1, <2>4 DEF ReplaceInv, WindowsOK
    <3>2. s < cursor'
      BY <1>1, <2>1, <2>4
    <3>3. QED BY <1>1, <2>1, <3>1, <3>2
  <2>5. CASE s > cursor
    <3>1. ReplacedTo(s, 0, {})'
      BY <1>1, <1>7, <2>1, <2>5 DEF ReplaceInv, WindowsOK
    <3>2. ~(s < cursor') /\ ~(s = cursor' /\ pc' = "search")
      <4>1. s >= cursor + Win /\ cursor < cursor + Win
        BY <1>1, <2>1, <2>5, Onwards
      <4>2. cursor' = cursor \/ (cursor' = cursor + Win /\ pc' = "scan")
        OBVIOUS
      <4>3. QED BY <1>1, <2>1, <2>5, <4>1, <4>2
    <3>3. QED BY <3>1, <3>2
  <2>6. QED BY <1>1, <2>1, <2>2, <2>3, <2>4, <2>5
<1>10. QED BY <1>6, <1>9 DEF ReplaceInv

\* A step of the search: nothing is found, or the first match behind the
\* needle is.
LEMMA SearchKeeps ==
  ASSUME ReplaceInv, Search
  PROVE  ReplaceInv'
<1> DEFINE hits == {h \in needle .. Win - 1 : At(win, h)}
           first_hit == CHOOSE h \in hits : \A g \in hits : h <= g
<1>1. needle \in Nat /\ Win \in Nat /\ pc = "search"
  BY ReplaceConsts DEF ReplaceInv, ReplaceTypesOK, ReplaceTypeOK, Search
<1>2. UNCHANGED <<strings, win, read>>
  BY DEF Search
<1>3. CASE hits = {}
  <2>1. pc' = "scan" /\ cursor' = cursor + Win /\ UNCHANGED <<ram, needle, pokes, lost>>
    BY <1>3 DEF Search, NextWindow
  <2>2. QED BY <1>1, <1>2, <1>3, <2>1, PassedKeeps
<1>4. CASE hits # {}
  <2>1. PICK o \in hits : o = first_hit /\ \A g \in hits : o <= g
    <3>1. hits \subseteq Nat
      BY <1>1
    <3>2. \E h \in hits : \A g \in hits : h <= g
      BY <1>4, <3>1, Leasts
    <3>3. first_hit \in hits /\ \A g \in hits : first_hit <= g
      BY <3>2
    <3>4. QED BY <3>3
  <2>2. PICK k \in 0 .. Len(Replacement) :
          /\ ram' = Over(ram, cursor + o, Replacement, k)
          /\ pokes' = pokes \ (cursor + o + 1 .. cursor + o + k)
          /\ \/ /\ pc' = "search" /\ k = Len(Replacement) /\ needle' = o + Len(Match)
                /\ UNCHANGED <<cursor, lost>>
             \/ /\ pc' = "scan" /\ cursor' = cursor + Win /\ lost' = lost \union {cursor}
                /\ UNCHANGED needle
    <3>1. Len(Replacement) \in 0 .. Len(Replacement)
      BY DEF ReplaceInv, ReplaceTypesOK
    <3>2. QED BY <1>4, <2>1, <3>1 DEF Search, Fail, NextWindow, Written
  <2>3. o \in needle .. Win - 1 /\ At(win, o)
    BY <2>1
  <2>4. \A x \in needle .. o - 1 : ~At(win, x)
    <3>1. ASSUME NEW x \in needle .. o - 1, At(win, x) PROVE FALSE
      <4>1. x \in hits /\ x < o /\ o \in Nat /\ x \in Nat
        BY <1>1, <2>3, <3>1
      <4>2. QED BY <2>1, <4>1
    <3>2. QED BY <3>1
  <2> HIDE DEF hits, first_hit
  <2>5. QED BY <1>1, <1>2, <2>2, <2>3, <2>4, HitKeeps
<1>5. QED BY <1>3, <1>4

\* Any step of the command keeps the invariant.
LEMMA ReplaceStepKeeps ==
  ASSUME ReplaceInv, ReplaceStep \/ Poke
  PROVE  ReplaceInv'
<1>1. CASE (OpenBridge \/ Close) /\ UNCHANGED replaceVars
  BY <1>1, QuietKeeps DEF OpenBridge, Close, Goto, Fail
<1>2. CASE ReplaceProbe
  BY <1>2, QuietKeeps DEF ReplaceProbe, Goto, Fail
<1>3. CASE Scan \/ Search \/ Poke
  BY <1>3, ScanKeeps, SearchKeeps, PokeKeeps
<1>4. QED BY <1>1, <1>2, <1>3 DEF ReplaceStep

\* Nothing has been replaced before the first window.
LEMMA InitReplace == Init => ReplaceIInv
<1> SUFFICES ASSUME Init, kind = "replace" PROVE ReplaceInv
  BY DEF ReplaceIInv
<1>1. SiphonInit /\ ReplaceInit
  BY DEF Init, TransferInit, CoprocessorInit, ReplaceInit, TraceInit, JtagInit, ArgsInit, Kinds
<1>2. /\ ram \in Rams /\ strings \in Strings /\ read = ram /\ pc = "open" /\ cursor = 0 /\ needle = 0
      /\ win = <<>> /\ pokes = {}
  BY <1>1 DEF SiphonInit, ReplaceInit
<1>3. ram \in Seq(Byte) /\ Len(ram) % Win = 0 /\ Len(ram) \in Nat /\ Win \in Nat \ {0}
  BY <1>2, ReplaceConsts
<1>4. ReplaceTypesOK
  <2>1. /\ Match \in Seq(Byte) /\ Replacement \in Seq(Byte)
        /\ 0 < Len(Match) /\ Len(Replacement) <= Len(Match) /\ Len(Match) <= Win
    BY <1>2, ReplaceConsts DEF Match, Replacement
  <2>2. 0 % Win = 0
    BY <1>3
  <2>3. win \in Seq({0, 1}) /\ ram \in Seq({0, 1})
    BY <1>2, <1>3 DEF Byte
  <2>4. QED BY <1>2, <1>3, <2>1, <2>2, <2>3 DEF ReplaceTypesOK, ReplaceTypeOK
<1>5. ASSUME NEW s \in Starts PROVE ReplacedTo(s, 0, {})
  <2>1. s \in Nat /\ s + Win <= Len(ram) /\ Window(s) = [k \in 1 .. Win |-> ram[s + k]]
    BY <1>2, <1>4, WindowIs
  <2>2. \A i \in 0 .. Win - 1 : ram[s + i + 1] = Window(s)[i + 1] /\ i >= 0
    BY <1>3, <2>1
  <2>3. Found(Window(s), {}, 0)
    BY DEF Found
  <2>4. QED BY <2>2, <2>3 DEF ReplacedTo
<1>6. WindowsOK
  BY <1>2, <1>5 DEF WindowsOK, Starts
<1>7. QED BY <1>4, <1>6 DEF ReplaceInv

\* Any step keeps the invariant of the replacement.
LEMMA NextReplace ==
  ASSUME ReplaceIInv, [Next]_vars
  PROVE  ReplaceIInv'
<1> SUFFICES ASSUME kind = "replace", ReplaceInv PROVE ReplaceInv'
  BY KindStays DEF ReplaceIInv
<1>1. CASE UNCHANGED vars
  <2>1. UNCHANGED <<pc, replaceVars>>
    BY <1>1 DEF vars, ahbVars
  <2>2. QED BY <2>1, QuietKeeps DEF ReplaceInv, ReplaceTypesOK
<1>2. CASE ReplaceRam
  BY <1>2, ReplaceStepKeeps DEF ReplaceRam
<1>3. ~Copy /\ ~Coprocess /\ ~TraceBus /\ ~Serve /\ ~Call
  BY DEF Copy, TransferStep, Kinds, Coprocess, CoprocessorStep, TraceBus, TraceNext, TraceStep, Recorder,
     Serve, Call, JtagStep, Connect
<1>4. QED BY <1>1, <1>2, <1>3 DEF Next

\* In each window that has been searched, and in which no write failed, the
\* matches have been replaced from the left, in the others up to some byte, and
\* nothing else has changed but what the BMC wrote (cmd/replace.c, do_replace()).
THEOREM ReplacesCorrect == Spec => []Replaces
<1>1. Spec => []ReplaceIInv
  BY InitReplace, NextReplace, PTL DEF Spec
<1>2. ReplaceIInv => Replaces
  <2>1. SUFFICES ASSUME ReplaceInv, NEW s \in Starts
                 PROVE  \E n \in 0 .. Win : \E M \in SUBSET (0 .. n - 1) :
                          ReplacedTo(s, n, M) /\ (s < cursor /\ s \notin lost => n = Win)
    BY DEF ReplaceIInv, Replaces
  <2>2. 0 \in 0 .. Win /\ Win \in 0 .. Win /\ needle \in 0 .. Win /\ cursor \in Nat /\ s \in Nat
    BY <2>1, ReplaceConsts DEF ReplaceInv, ReplaceTypesOK, ReplaceTypeOK, Starts
  <2>3. CASE s < cursor /\ s \notin lost
    BY <2>1, <2>2, <2>3 DEF ReplaceInv, WindowsOK
  <2>4. CASE s < cursor /\ s \in lost
    BY <2>1, <2>2, <2>4 DEF ReplaceInv, WindowsOK
  <2>5. CASE s = cursor /\ pc = "search"
    <3>1. PICK M \in SUBSET (0 .. needle - 1) : InProgress(M)
      BY <2>1, <2>5 DEF ReplaceInv, WindowsOK
    <3>2. ReplacedTo(s, needle, M)
      BY <2>5, <3>1 DEF InProgress
    <3>3. ~(s < cursor)
      BY <2>2, <2>5
    <3>4. QED BY <2>2, <3>1, <3>2, <3>3
  <2>6. CASE s >= cursor /\ ~(s = cursor /\ pc = "search")
    <3>1. ReplacedTo(s, 0, {}) /\ ~(s < cursor)
      BY <2>1, <2>2, <2>6 DEF ReplaceInv, WindowsOK
    <3>2. QED BY <2>2, <3>1
  <2>7. QED BY <2>2, <2>3, <2>4, <2>5, <2>6
<1>3. QED BY <1>1, <1>2, PTL

=============================================================================
