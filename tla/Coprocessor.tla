---------------------------- MODULE Coprocessor ----------------------------
(***************************************************************************)
(* `culvert coprocessor run` and `stop`, cmd/coprocessor.c: the secondary  *)
(* service processor of an AST2600 is disabled and put into reset, its     *)
(* firmware goes to DRAM through a siphon, five registers of the SCU are   *)
(* set, and it is let go.  It may be running when the command starts.      *)
(***************************************************************************)
EXTENDS Transfer

VARIABLES
  ctrl,  \* SCU_COPROC_CTRL: "off", RESET_ASSERT or EN
  conf   \* which of the five registers this command has set

coprocVars == <<ctrl, conf>>

\* In the order of the steps 4 to 8 of the code.
Regs == <<"MEM_BASE", "IMEM_LIMIT", "DMEM_LIMIT", "CACHE_RANGE", "CACHE_FUNC">>
Set == {Regs[k] : k \in 1 .. Len(Regs)}

CoprocessorIdle == ctrl = "off" /\ conf = {}

CoprocessorInit ==
  /\ ArgsInit /\ kind \in {"run", "stop"}
  /\ ctrl \in {"off", "reset", "on"} /\ conf = {}

Registers == UNCHANGED coprocVars
ctrlVars == <<pc, rc, mem, coprocVars>>

\* Both masks of the sum and its comparison with DRAM.
RunRange ==
  /\ kind = "run" /\ pc = "range" /\ Registers /\ Keep
  /\ IF (base + size) % Space < base \/ base < Start \/ ArgEnd > DramEnd
       THEN Fail("close", EINVAL) ELSE Goto("disable")

\* scu_writel(scu, SCU_COPROC_CTRL, ...): a failed write may have landed.
Control(from, value, to) ==
  /\ pc = from /\ UNCHANGED conf /\ Keep
  /\ \/ Goto(to) /\ ctrl' = value
     \/ Fail("close", EIO) /\ ctrl' \in {ctrl, value}

StopRange == kind = "stop" /\ pc = "range" /\ Goto("halt") /\ Registers /\ Keep

Halt == Control("halt", "off", "close")
Disable == Control("disable", "off", "assert")
Assert == Control("assert", "reset", "load")
Release == Control("release", "off", "enable")
Enable == Control("enable", "on", "close")

Load ==
  pc = "load" /\ Siphon("in_read", base, size) /\ Registers /\ UNCHANGED <<bridge, transferVars>>

(* Mutated: the result of the siphon is not looked at.                      *)
Loaded_anyway ==
  /\ pc = "loaded" /\ Registers /\ Keep /\ pc' = "configure" /\ rc' = OK

Loaded ==
  /\ pc = "loaded" /\ Registers /\ Keep
  /\ Goto(IF rc = OK THEN "configure" ELSE "close")

\* The registers, one after the other, then usleep(), which may fail too.
Configure ==
  /\ pc = "configure" /\ UNCHANGED ctrl /\ Keep
  /\ \/ \E k \in 1 .. Len(Regs) :
          /\ conf = {Regs[j] : j \in 1 .. k - 1}
          /\ \/ Goto(pc) /\ conf' = conf \union {Regs[k]}
             \/ Fail("close", EIO) /\ conf' \in {conf, conf \union {Regs[k]}}
     \/ conf = Set /\ Goto("release") /\ UNCHANGED conf
     \/ conf = Set /\ Fail("close", EIO) /\ UNCHANGED conf

CoprocessorStep ==
  /\ kind \in {"run", "stop"} /\ UNCHANGED kind
  /\ \/ (Open \/ Probe) /\ Registers
     \/ RunRange \/ StopRange \/ Halt \/ Disable \/ Assert \/ Load
     \/ ahb_siphon_in("loaded") /\ Registers /\ UNCHANGED <<bridge, transferVars>>
     \/ Loaded \/ Configure \/ Release \/ Enable
     \/ Close /\ Registers /\ UNCHANGED transferVars

-----------------------------------------------------------------------------
CoprocessorTypeOK ==
  TransferTypeOK /\ ctrl \in {"off", "reset", "on"} /\ conf \subseteq Set

\* Neither the memory nor the registers of a coprocessor change while it runs;
\* it is only let go over its whole firmware, inside DRAM, with all of its
\* registers set; and a command that succeeds leaves it running or stopped, as
\* it was told.
LetsGoLoaded ==
  [][ \/ kind \notin {"run", "stop"}
      \/ /\ ctrl = "on" => UNCHANGED <<mem, conf>>
         /\ ctrl' = "on" /\ ctrl # "on" =>
              /\ conf = Set /\ InTo(base, size, TRUE)
              /\ \A a \in Addr : mem[a] # 0 => InDram(a)
         /\ pc' = "end" /\ rc' = OK => ctrl' = IF kind = "run" THEN "on" ELSE "off" ]_ctrlVars

=============================================================================
