------------------------------ MODULE Transfer ------------------------------
(***************************************************************************)
(* The commands that copy memory through a siphon: `culvert read ram` and  *)
(* `read firmware` (cmd/read.c), `culvert write ram` (cmd/write.c), and    *)
(* the commands that make a single access through one bridge (ast.c).      *)
(* The arguments are numbers below 2^32 kept in an unsigned long, the      *)
(* regions of memory are uint32_t.                                         *)
(***************************************************************************)
EXTENDS Siphon

CONSTANTS
  Drams,  \* the <<start, length, video memory>> of the SoCs
  Flash,  \* <<flash.start, chip->info.size>>, which is in the address space
  Ranges  \* the <<mem_base, mem_size>> the user asks for

TransferAssumption ==
  /\ SiphonAssumption /\ Flash \in Addr \X Nat /\ Flash[1] + Flash[2] <= Space
  /\ Drams \subseteq Addr \X Nat \X Nat /\ Ranges \subseteq Addr \X Addr
  /\ \A d \in Drams : d[3] <= d[2] /\ d[1] + d[2] <= Space

Kinds == {"read_ram", "read_firmware", "write_ram", "peek", "poke"}

VARIABLES
  wide,          \* unsigned long has 64 bits, and not 32
  dram,          \* of the SoC
  asked,         \* the range of the arguments
  base, size     \* arguments->mem_base and mem_size

transferVars == <<wide, dram, asked, base, size>>

ArgsInit ==
  /\ SiphonInit
  /\ wide \in BOOLEAN /\ dram \in Drams /\ asked \in Ranges
  /\ base = asked[1] /\ size = asked[2]

TransferInit == ArgsInit /\ kind \in Kinds

Start == dram[1]
\* sdmc_get_vram(): where the video memory starts.
Vram == dram[1] + dram[2] - dram[3]

\* mem_base + mem_size, and dram.start + dram.length.
ArgEnd == IF wide THEN base + size ELSE (base + size) % Space
DramEnd == (dram[1] + dram[2]) % Space

Keep == UNCHANGED <<bridge, siphonVars, transferVars>>

\* cmd_read_ram() looks at its arguments before it opens a bridge.
Overflows == kind = "read_ram" /\ Space - 1 - size < base
Check == pc = "open" /\ Overflows /\ Fail("end", EINVAL) /\ Keep
Open == ~Overflows /\ OpenBridge /\ UNCHANGED transferVars

\* soc_probe(), then the drivers the command needs and what they are asked:
\* any of it fails.
Probe ==
  /\ pc = "probe" /\ Keep
  /\ IF kind \in {"peek", "poke"} THEN Goto("access")
     ELSE Goto("range") \/ Fail("close", EIO)

Refused == Fail("close", EINVAL) /\ Keep

(* Mutated: only the start of the range is compared.                        *)
ReadRange_start ==
  /\ kind = "read_ram" /\ pc = "range"
  /\ IF base # 0 /\ size # 0
       THEN IF base < Start THEN Refused
            ELSE Siphon("out_read", base, size) /\ UNCHANGED <<bridge, transferVars>>
       ELSE \/ /\ base' = Start /\ size' = Vram - Start
               /\ Siphon("out_read", Start, Vram - Start)
               /\ UNCHANGED <<bridge, wide, dram, asked>>
            \/ Fail("close", EIO) /\ Keep

\* cmd_read_ram(): a range in DRAM, or all of it but the video memory.
ReadRange ==
  /\ kind = "read_ram" /\ pc = "range"
  /\ IF base # 0 /\ size # 0
       THEN IF base < Start \/ ArgEnd > DramEnd THEN Refused
            ELSE Siphon("out_read", base, size) /\ UNCHANGED <<bridge, transferVars>>
       ELSE \/ /\ base' = Start /\ size' = Vram - Start
               /\ Siphon("out_read", Start, Vram - Start)
               /\ UNCHANGED <<bridge, wide, dram, asked>>
            \/ Fail("close", EIO) /\ Keep

\* cmd_write_ram().  A size beyond SSIZE_MAX returns at once.
WriteRange ==
  /\ kind = "write_ram" /\ pc = "range"
  /\ IF base < Start \/ ArgEnd > DramEnd THEN Refused
     ELSE IF ~wide /\ size > Space \div 2 - 1 THEN Fail("end", EINVAL) /\ Keep
     ELSE Siphon("in_read", base, size) /\ UNCHANGED <<bridge, transferVars>>

\* cmd_read_firmware(): the flash window, once its chip is write-protected
\* and sfc_get_flash() has found it.
ReadFlash ==
  /\ kind = "read_firmware" /\ pc = "range"
  /\ base' = Flash[1] /\ size' = Flash[2]
  /\ Siphon("out_read", Flash[1], Flash[2])
  /\ UNCHANGED <<bridge, wide, dram, asked>>

\* ast_ahb_access(): one ahb_readl() or ahb_writel().  A failure is an exit().
Access ==
  /\ pc = "access" /\ UNCHANGED <<bridge, transferVars>>
  /\ \/ /\ kind = "peek" /\ Goto("close") /\ out' = <<base>>
        /\ UNCHANGED <<at, len, chunk, input, taken, mem>>
     \/ /\ kind = "poke" /\ Goto("close") /\ mem' = [mem EXCEPT ![base] = 1]
        /\ UNCHANGED <<at, len, chunk, input, taken, out>>
     \/ Fail("end", EIO) /\ UNCHANGED siphonVars
     \/ /\ kind = "poke" /\ Fail("end", EIO) /\ mem' = [mem EXCEPT ![base] = 1]
        /\ UNCHANGED <<at, len, chunk, input, taken, out>>

Siphoning ==
  /\ ahb_siphon_out("close") \/ ahb_siphon_in("close")
  /\ UNCHANGED <<bridge, transferVars>>

TransferStep ==
  /\ kind \in Kinds /\ UNCHANGED kind
  /\ \/ Check \/ Open \/ Probe \/ ReadRange \/ WriteRange
     \/ ReadFlash \/ Access \/ Siphoning
     \/ Close /\ UNCHANGED transferVars

-----------------------------------------------------------------------------
TransferTypeOK ==
  /\ SiphonTypeOK /\ wide \in BOOLEAN
  /\ dram \in Drams /\ asked \in Ranges /\ base \in Addr /\ size \in Nat

Done == pc = "end" /\ rc = OK

\* The range a command is to move.
Wanted ==
  CASE kind = "read_firmware" -> Flash
    [] kind = "read_ram" /\ 0 \in {asked[1], asked[2]} -> <<Start, Vram - Start>>
    [] kind = "peek" -> <<asked[1], 1>>
    [] OTHER -> asked

\* Whatever chunks the bridge, read() and write() make of it, the output is
\* the start of the range asked for, in order, and what has changed of memory
\* is the start of that range, with the input in order; all of it behind a
\* success.
Copied ==
  /\ kind \in {"read_ram", "read_firmware", "peek"} => OutOf(Wanted[1], Wanted[2], Done)
  /\ kind = "write_ram" => InTo(asked[1], asked[2], Done)
  /\ kind = "poke" => \A a \in Addr : mem[a] # 0 => a = asked[1]

InDram(a) == Start <= a /\ a < Start + dram[2]
WellFormed == Start <= asked[1] /\ asked[1] + asked[2] <= Start + dram[2]

\* Sums that the code makes modulo 2^32: of the arguments where unsigned long
\* has 32 bits, and of a DRAM that ends the address space.
ArgsWrap == ~wide /\ asked[1] + asked[2] >= Space
DramWraps == Start + dram[2] = Space

\* A RAM command only ever touches DRAM, and it refuses no range of DRAM,
\* except where one of its sums wraps (cmd/read.c and cmd/write.c, "Ill-formed
\* RAM region").
RangeChecked ==
  /\ kind = "read_ram" => \A k \in 1 .. Len(out) : InDram(out[k])
  /\ kind = "run" \/ (kind = "write_ram" /\ ~ArgsWrap) =>
       \A a \in Addr : mem[a] # 0 => InDram(a)
  /\ kind \in {"read_ram", "write_ram", "run"} /\ rc = EINVAL =>
       ~WellFormed \/ DramWraps \/ (~wide /\ asked[2] >= Space \div 2)

-----------------------------------------------------------------------------
(***************************************************************************)
(* Said of the program, and not what it does: see "Known divergences" in   *)
(* README.md.                                                              *)
(***************************************************************************)

\* cmd/write.c, cmd/read.c: "Ill-formed RAM region provided for write".  Only
\* an ill-formed region is refused, and every one is.
OnlyIllFormed ==
  /\ kind = "write_ram" => \A a \in Addr : mem[a] # 0 => InDram(a)
  /\ kind \in {"read_ram", "write_ram", "run"} /\ rc = EINVAL => ~WellFormed

=============================================================================
