----------------------------- MODULE BridgeCtl ------------------------------
(***************************************************************************)
(* The bridge controllers: soc/pciectl.c (P2A and X-DMA), soc/ilpcctl.c    *)
(* and soc/debugctl.c, over the gates of soc/bridges.c, the SuperIO decode *)
(* of soc/sioctl.c and soc/strap.c, and the X-DMA constraint of            *)
(* soc/sdmc.c.  enforce() puts a bridge into a mode with a sequence of     *)
(* register writes and status() works the mode out from the registers.     *)
(*                                                                         *)
(* Every access may fail, and a failed write may have landed; a strap that *)
(* is protected (-EPERM) is a failed write that has not.  The SCU is       *)
(* unlocked: ilpcctl holds it through sioctl and strap.                    *)
(***************************************************************************)
EXTENDS Integers, Sequences, FiniteSetsExt

CONSTANTS
  Requests,  \* the <<generation, controller, mode>> of the callers
  Regions,   \* the RO bits of the P2A's regions
  GmpMask,   \* gmp_xdma_mask: one bit, two for the AST2600
  Boots,     \* what the BMC's software has left in the registers: see below
  MaxCalls   \* how many calls of enforce() one behaviour makes

bm_permissive == 0
bm_restricted == 1
bm_disabled == 2
Modes == {bm_permissive, bm_restricted, bm_disabled}

Gens == {"g4", "g5", "g6"}
Ctls == {"p2a", "xdma", "ilpc", "debug"}

\* The endpoints of pciectl's tables, which list the BMC before the VGA
\* device for both of the functions.
Devices == <<"BMC", "VGA">>
Function(c) == IF c = "p2a" THEN "mmio" ELSE "xdma"

Gates == {"p2a", "xdma", "xdma-vga", "ilpc", "debug"}
Gate(c, d) == IF c = "xdma" /\ d = "VGA" THEN "xdma-vga" ELSE c

\* Whether the controller has a gate in soc/bridges.c.
Gated(g, c) == g = "g6" \/ (g = "g5" /\ c = "debug")

\* The registers that the controllers use, as they may be found.
AllBoots ==
  [dev : SUBSET {"BMC", "VGA"}, fn : SUBSET ({"BMC", "VGA"} \X {"mmio", "xdma"}),
   ro : SUBSET Regions, gated : SUBSET Gates, sio : {"2e", "4e", "off"},
   hicrb : SUBSET {"RO", "DIS"}, gmp : SUBSET GmpMask]

ASSUME BridgeAssumption ==
  /\ Requests \subseteq Gens \X Ctls \X Modes
  /\ Regions # {} /\ GmpMask # {} /\ MaxCalls \in Nat
  /\ Boots \subseteq AllBoots
  /\ <<"g4", "debug">> \notin {<<r[1], r[2]>> : r \in Requests}

VARIABLES
  gen,    \* the SoC's generation
  dev,    \* PCIE_CONFIG: the devices that are enabled ...
  fn,     \* ... and their functions
  ro,     \* SCU_MISC: regions that the P2A may only read
  gated,  \* the gates' bits, which close them
  sio,    \* strap: the address SuperIO decodes, or "off"
  hicrb,  \* LPC_HICRB: the iLPC bits that are set
  gmp,    \* MCR_GMP: the bits that constrain X-DMA
  pc,     \* where enforce() is
  ctl, mode,  \* its arguments
  ep,     \* the endpoint at which pciectl_enforce() is
  rc,     \* its result: 0, or negative
  was,    \* history: the mode before the call
  calls

regs == <<dev, fn, ro, gated, sio, hicrb, gmp>>
vars == <<gen, regs, pc, ctl, mode, ep, rc, was, calls>>

Init ==
  /\ gen \in {r[1] : r \in Requests}
  /\ \E b \in Boots :
       /\ dev = b.dev /\ fn = b.fn /\ ro = b.ro /\ gated = b.gated
       /\ sio = b.sio /\ hicrb = b.hicrb /\ gmp = b.gmp
  /\ gen # "g6" => hicrb \subseteq {"RO"}
  /\ gated \subseteq {Gate(c, d) : c \in {x \in Ctls : Gated(gen, x)}, d \in {"BMC", "VGA"}}
  /\ pc = "idle" /\ ctl = "none" /\ mode = bm_disabled /\ ep = 1 /\ rc = 0
  /\ was = bm_disabled /\ calls = 0

-----------------------------------------------------------------------------
\* pciectl_device_status(), up to the region filters.
DeviceOpen(c, d) ==
  /\ Gated(gen, c) => Gate(c, d) \notin gated
  /\ d \in dev /\ <<d, Function(c)>> \in fn

pciectl_device_status(c, d) ==
  IF ~DeviceOpen(c, d) THEN bm_disabled
  ELSE IF c = "p2a" /\ Regions \subseteq ro THEN bm_restricted
  ELSE bm_permissive

pciectl_status(c) == Min({pciectl_device_status(c, d) : d \in {"BMC", "VGA"}})

xdmactl_status ==
  IF pciectl_status("xdma") = bm_permissive /\ gmp # {} THEN bm_restricted
  ELSE pciectl_status("xdma")

ilpcctl_status ==
  IF sio = "off" \/ (gen = "g6" /\ ("ilpc" \in gated \/ "DIS" \in hicrb))
    THEN bm_disabled
  ELSE IF "RO" \in hicrb THEN bm_restricted
  ELSE bm_permissive

debugctl_status == IF "debug" \in gated THEN bm_disabled ELSE bm_permissive

bridgectl_status(c) ==
  CASE c = "p2a" -> pciectl_status(c)
    [] c = "xdma" -> xdmactl_status
    [] c = "ilpc" -> ilpcctl_status
    [] c = "debug" -> debugctl_status

-----------------------------------------------------------------------------
Args == UNCHANGED <<gen, ctl, mode, was, calls>>
Goto(l) == pc' = l /\ UNCHANGED <<ep, rc>>
Return(n) == pc' = "idle" /\ rc' = n /\ UNCHANGED ep

\* A read-modify-write whose failure, of the read or of the write, makes the
\* caller go on with otherwise.
Access(update, keep, then, otherwise) ==
  (update /\ then) \/ ((keep \/ update) /\ otherwise)

Fails == Return(-1)

enforce(r) ==
  /\ pc = "idle" /\ calls < MaxCalls /\ gen = r[1]
  /\ ctl' = r[2] /\ mode' = r[3] /\ was' = bridgectl_status(r[2])
  /\ calls' = calls + 1 /\ ep' = 1 /\ rc' = 0
  /\ pc' = CASE r[2] = "debug" -> "gate"
             [] r[2] = "ilpc" -> IF gen = "g6" \/ r[3] # bm_disabled THEN "hicrb" ELSE "sio_off"
             [] r[2] = "p2a" -> "device"
             [] r[2] = "xdma" -> "gmp"
  /\ UNCHANGED <<gen, regs>>

\* bridges_configure() for the current device.
Configure(close, g) == gated' = IF close THEN gated \union {g} ELSE gated \ {g}

\* debugctl_enforce(): a restricted bridge is a permissive one.
debugctl_enforce ==
  /\ pc = "gate" /\ ctl = "debug"
  /\ Access(Configure(mode = bm_disabled, "debug"), UNCHANGED gated, Return(0), Fails)
  /\ Args /\ UNCHANGED <<dev, fn, ro, sio, hicrb, gmp>>

-----------------------------------------------------------------------------
\* ast2400_ilpcctl_enforce() and ast2600_ilpcctl_enforce(): HICRB first ...
HicrbBits ==
  CASE mode = bm_permissive -> {}
    [] mode = bm_restricted -> {"RO"}
    [] mode = bm_disabled -> hicrb \union {"DIS"}

(* Mutated: SuperIO is decoded before the write filter is set.              *)
IlpcHicrb_late ==
  /\ pc = "hicrb"
  /\ IF sio = "off" THEN sio' = "2e" /\ UNCHANGED <<hicrb, ep, rc, pc>>
     ELSE /\ hicrb' = HicrbBits /\ UNCHANGED sio
          /\ IF mode = bm_disabled THEN Return(0)
             ELSE Goto(IF gen = "g6" THEN "gate" ELSE "sio_2e")
  /\ Args /\ UNCHANGED <<dev, fn, ro, gated, gmp>>

IlpcHicrb ==
  /\ pc = "hicrb"
  /\ Access(hicrb' = HicrbBits, UNCHANGED hicrb,
            IF mode = bm_disabled THEN Return(0)
            ELSE Goto(IF gen = "g6" THEN "gate" ELSE "sio_2e"),
            Fails)
  /\ Args /\ UNCHANGED <<dev, fn, ro, gated, sio, gmp>>

\* ... then the gate of the AST2600 ...
IlpcGate ==
  /\ pc = "gate" /\ ctl = "ilpc"
  /\ Access(Configure(FALSE, "ilpc"), UNCHANGED gated, Goto("sio_2e"), Fails)
  /\ Args /\ UNCHANGED <<dev, fn, ro, sio, hicrb, gmp>>

\* ... then sioctl_decode_configure(): the address, and then the decode bit,
\* which hides the address in this model while it is set.
SioSelect ==
  /\ pc = "sio_2e"
  /\ Access(sio' = IF sio = "4e" THEN "2e" ELSE sio, UNCHANGED sio, Goto("sio_on"), Fails)
  /\ Args /\ UNCHANGED <<dev, fn, ro, gated, hicrb, gmp>>

SioEnable ==
  /\ pc = "sio_on"
  /\ Access(sio' = "2e", UNCHANGED sio, Return(0), Fails)
  /\ Args /\ UNCHANGED <<dev, fn, ro, gated, hicrb, gmp>>

SioDisable ==
  /\ pc = "sio_off"
  /\ Access(sio' = "off", UNCHANGED sio, Return(0), Fails)
  /\ Args /\ UNCHANGED <<dev, fn, ro, gated, hicrb, gmp>>

-----------------------------------------------------------------------------
\* xdmactl_enforce(): sdmc_configure_xdma() constrains a permissive bridge.
XdmaConstrain ==
  /\ pc = "gmp"
  /\ Access(gmp' = IF mode = bm_permissive THEN GmpMask ELSE {}, UNCHANGED gmp,
            Goto("device"), Fails)
  /\ Args /\ UNCHANGED <<dev, fn, ro, gated, sio, hicrb>>

Dev == Devices[ep]

(* Mutated: pciectl_enforce() stops behind the first endpoint.              *)
NextEndpoint_first == Return(0)

\* pciectl_enforce() moves on to the next endpoint.
NextEndpoint ==
  IF ep = Len(Devices) THEN Return(0) ELSE pc' = "device" /\ ep' = ep + 1 /\ UNCHANGED rc

\* pciectl_device_enforce(): the function is switched off ...
DeviceDisable ==
  /\ pc = "device" /\ mode = bm_disabled
  /\ Access(fn' = fn \ {<<Dev, Function(ctl)>>}, UNCHANGED fn, NextEndpoint, Fails)
  /\ Args /\ UNCHANGED <<dev, ro, gated, sio, hicrb, gmp>>

\* ... or, unless there are no region filters, ...
DeviceNoRegions ==
  /\ pc = "device" /\ mode # bm_disabled /\ ctl = "xdma"
  /\ NextEndpoint \/ Fails
  /\ Args /\ UNCHANGED regs

\* ... they are set ...
DeviceRegions ==
  /\ pc = "device" /\ mode # bm_disabled /\ ctl = "p2a"
  /\ Access(ro' = IF mode = bm_restricted THEN Regions ELSE {}, UNCHANGED ro,
            Goto("config"), Fails)
  /\ Args /\ UNCHANGED <<dev, fn, gated, sio, hicrb, gmp>>

\* ... and the device and its function switched on.  The gate, if there is
\* one, is opened even though this failed, and with that rc is lost.
DeviceEnable ==
  /\ pc = "config"
  /\ LET on == dev' = dev \union {Dev} /\ fn' = fn \union {<<Dev, "mmio">>}
     IN IF gen = "g6" THEN Access(on, UNCHANGED <<dev, fn>>, Goto("gate"), Goto("gate"))
        ELSE Access(on, UNCHANGED <<dev, fn>>, NextEndpoint, Fails)
  /\ Args /\ UNCHANGED <<ro, gated, sio, hicrb, gmp>>

\* bridges_enable(), whose result nobody looks at.
DeviceGate ==
  /\ pc = "gate" /\ ctl = "p2a"
  /\ Access(Configure(FALSE, "p2a"), UNCHANGED gated, NextEndpoint, NextEndpoint)
  /\ Args /\ UNCHANGED <<dev, fn, ro, sio, hicrb, gmp>>

Next ==
  \/ \E r \in Requests : enforce(r)
  \/ debugctl_enforce
  \/ IlpcHicrb \/ IlpcGate \/ SioSelect \/ SioEnable \/ SioDisable
  \/ XdmaConstrain \/ DeviceDisable \/ DeviceNoRegions \/ DeviceRegions
  \/ DeviceEnable \/ DeviceGate

Spec == Init /\ [][Next]_vars

-----------------------------------------------------------------------------
(* The registers hold bits that exist, and enforce() is somewhere.          *)
TypeOK ==
  /\ gen \in Gens /\ dev \subseteq {"BMC", "VGA"} /\ ro \subseteq Regions
  /\ fn \subseteq {"BMC", "VGA"} \X {"mmio", "xdma"}
  /\ gated \subseteq Gates /\ sio \in {"2e", "4e", "off"}
  /\ hicrb \subseteq {"RO", "DIS"} /\ gmp \subseteq GmpMask
  /\ pc \in {"idle", "gate", "hicrb", "sio_2e", "sio_on", "sio_off", "gmp", "device", "config"}
  /\ ctl \in Ctls \union {"none"} /\ {mode, was} \subseteq Modes
  /\ ep \in 1 .. Len(Devices) /\ rc \in {0, -1} /\ calls \in 0 .. MaxCalls

Returned == pc = "idle" /\ calls > 0 /\ rc = 0

\* Where an enforce() that returns 0 has not done what it was asked to do:
\* pciectl_device_enforce() does not switch on an X-DMA, and on the AST2600
\* DeviceEnable and DeviceGate lose their errors, so that the P2A may be
\* closed still.
Excused ==
  \/ ctl = "xdma"
  \/ ctl = "p2a" /\ gen = "g6" /\ bridgectl_status(ctl) = bm_disabled

(* An enforce() that returns 0 has put its bridge into the mode it was      *)
(* asked for, as status() of the same controller sees it.  One that         *)
(* disables has closed every endpoint, whichever the generation and the     *)
(* controller; one that enables has done so, or is Excused.                 *)
EnforceTakes ==
  Returned => \/ bridgectl_status(ctl) = mode
              \/ mode # bm_disabled /\ Excused

(* At no step of enforce(), and not behind one that failed half way, is the *)
(* bridge more open than it was before and than it was asked to be: the     *)
(* filters are in place before anything is switched on.  X-DMA is excepted: *)
(* XdmaConstrain lifts the constraint that it was asked for.                *)
NeverLooser ==
  calls > 0 /\ ctl # "xdma" => bridgectl_status(ctl) >= Min({was, mode})

=============================================================================
