-------------------------- MODULE BridgeCtlProofs ---------------------------
(***************************************************************************)
(* Proofs about the bridge controllers, for every generation, whatever the *)
(* BMC's software has left in the registers, for every sequence of calls   *)
(* of enforce() and every failure of an access.                            *)
(***************************************************************************)
EXTENDS BridgeCtl, TLAPS

\* "The debug UART doesn't support restricted mode": nobody asks for it.
NoRestrictedDebug == \A r \in Requests : r[2] = "debug" => r[3] # bm_restricted

Pcs == {"idle", "gate", "hicrb", "sio_2e", "sio_on", "sio_off", "gmp", "device", "config"}

TypesOK ==
  /\ gen \in Gens /\ mode \in Modes /\ was \in Modes /\ ep \in {1, 2}
  /\ ctl \in Ctls \union {"none"} /\ pc \in Pcs /\ sio \in {"2e", "4e", "off"}
  /\ calls \in Nat /\ (calls > 0 => ctl \in Ctls) /\ (pc # "idle" => calls > 0)
  /\ ctl = "debug" => mode # bm_restricted

\* Which controller is at which step, and with which mode.
PlaceOK ==
  /\ pc = "hicrb" => ctl = "ilpc" /\ (gen = "g6" \/ mode # bm_disabled)
  /\ pc = "gate" => ctl \in {"debug", "ilpc", "p2a"}
  /\ pc = "gate" /\ ctl # "debug" => gen = "g6" /\ mode # bm_disabled
  /\ pc \in {"sio_2e", "sio_on"} => ctl = "ilpc" /\ mode # bm_disabled
  /\ pc = "sio_off" => ctl = "ilpc" /\ mode = bm_disabled /\ gen # "g6"
  /\ pc = "gmp" => ctl = "xdma" /\ ep = 1
  /\ pc = "device" => ctl \in {"p2a", "xdma"}
  /\ pc = "config" => ctl = "p2a" /\ mode # bm_disabled

\* The write filter of the iLPC bridge is set before anything is decoded, and
\* the gate of the AST2600 is open before SuperIO is.
Filtered == pc \in {"sio_2e", "sio_on"} \/ (pc = "gate" /\ ctl = "ilpc")
IlpcOK ==
  /\ Filtered => hicrb = IF mode = bm_permissive THEN {} ELSE {"RO"}
  /\ pc \in {"sio_2e", "sio_on"} /\ gen = "g6" => "ilpc" \notin gated

\* The region filters of the P2A are set before its device is switched on, and
\* the endpoint behind pciectl_enforce() is switched off where it disables.
Guarded == pc = "config" \/ (pc = "gate" /\ ctl = "p2a")
PcieOK ==
  /\ Guarded => ro = IF mode = bm_restricted THEN Regions ELSE {}
  /\ pc = "device" /\ mode = bm_disabled /\ ep = 2 => <<"BMC", Function(ctl)>> \notin fn

BInv == TypesOK /\ PlaceOK /\ IlpcOK /\ PcieOK /\ NeverLooser /\ EnforceTakes

-----------------------------------------------------------------------------
\* Of two modes, the less strict one.
LEMMA MinPair ==
  ASSUME NEW a \in Int, NEW b \in Int
  PROVE  Min({a, b}) = IF a <= b THEN a ELSE b
<1> DEFINE m == IF a <= b THEN a ELSE b
<1>1. m \in {a, b} /\ \A y \in {a, b} : m <= y
  OBVIOUS
<1>2. \A x \in {a, b} : (\A y \in {a, b} : x <= y) => x = m
  OBVIOUS
<1> HIDE DEF m
<1>3. Min({a, b}) = m
  BY <1>1, <1>2 DEF Min
<1>4. QED BY <1>3 DEF m

\* The mode that pciectl_status() finds: that of any endpoint that is open, for
\* the filters are the same for both.
Opened(c) == DeviceOpen(c, "BMC") \/ DeviceOpen(c, "VGA")
Filter(c) == IF c = "p2a" /\ Regions \subseteq ro THEN bm_restricted ELSE bm_permissive

\* pciectl_status() finds that mode, and bm_disabled where no endpoint is open.
LEMMA PcieStatus ==
  ASSUME NEW c
  PROVE  pciectl_status(c) = IF Opened(c) THEN Filter(c) ELSE bm_disabled
<1> DEFINE of(d) == pciectl_device_status(c, d)
<1>1. \A d : of(d) = IF DeviceOpen(c, d) THEN Filter(c) ELSE bm_disabled
  BY DEF pciectl_device_status, Filter
<1>2. Filter(c) \in {bm_permissive, bm_restricted}
  BY DEF Filter
<1>3. of("BMC") \in Int /\ of("VGA") \in Int
  BY <1>1, <1>2 DEF bm_permissive, bm_restricted, bm_disabled
<1>4. {of(d) : d \in {"BMC", "VGA"}} = {of("BMC"), of("VGA")}
  OBVIOUS
<1>5. pciectl_status(c) = IF of("BMC") <= of("VGA") THEN of("BMC") ELSE of("VGA")
  <2> HIDE DEF of
  <2>1. Min({of("BMC"), of("VGA")}) = IF of("BMC") <= of("VGA") THEN of("BMC") ELSE of("VGA")
    BY <1>3, MinPair
  <2>2. pciectl_status(c) = Min({of(d) : d \in {"BMC", "VGA"}})
    BY DEF pciectl_status, of
  <2>3. QED BY <1>4, <2>1, <2>2
<1> HIDE DEF of
<1>6. QED
  BY <1>1, <1>2, <1>5 DEF Opened, bm_permissive, bm_restricted, bm_disabled

\* What status() finds, in terms of the registers.
IlpcOpen == ~(sio = "off" \/ (gen = "g6" /\ ("ilpc" \in gated \/ "DIS" \in hicrb)))
StatusOK ==
  /\ bridgectl_status("p2a") =
       IF Opened("p2a") THEN IF Regions \subseteq ro THEN bm_restricted ELSE bm_permissive
       ELSE bm_disabled
  /\ ~Opened("xdma") => bridgectl_status("xdma") = bm_disabled
  /\ bridgectl_status("ilpc") =
       IF IlpcOpen THEN IF "RO" \in hicrb THEN bm_restricted ELSE bm_permissive
       ELSE bm_disabled
  /\ bridgectl_status("debug") = IF "debug" \in gated THEN bm_disabled ELSE bm_permissive
  /\ \A c \in Ctls : bridgectl_status(c) \in Modes

\* status() finds no other.
LEMMA Status == StatusOK
<1>1. bridgectl_status("p2a") =
       IF Opened("p2a") THEN IF Regions \subseteq ro THEN bm_restricted ELSE bm_permissive
       ELSE bm_disabled
  BY PcieStatus DEF bridgectl_status, Filter
<1>2. /\ ~Opened("xdma") => bridgectl_status("xdma") = bm_disabled
      /\ bridgectl_status("xdma") \in Modes
  <2>1. pciectl_status("xdma") = IF Opened("xdma") THEN bm_permissive ELSE bm_disabled
    BY PcieStatus DEF Filter
  <2>2. bridgectl_status("xdma") = xdmactl_status
    BY DEF bridgectl_status
  <2> HIDE DEF bm_permissive
  <2>3. QED
    BY <2>1, <2>2 DEF xdmactl_status, Modes, bm_permissive, bm_restricted, bm_disabled
<1>3. bridgectl_status("ilpc") =
       IF IlpcOpen THEN IF "RO" \in hicrb THEN bm_restricted ELSE bm_permissive
       ELSE bm_disabled
  BY DEF bridgectl_status, ilpcctl_status, IlpcOpen
<1>4. bridgectl_status("debug") = IF "debug" \in gated THEN bm_disabled ELSE bm_permissive
  BY DEF bridgectl_status, debugctl_status
<1>5. \A c \in Ctls : bridgectl_status(c) \in Modes
  BY <1>1, <1>2, <1>3, <1>4 DEF Ctls, Modes
<1>6. QED BY <1>1, <1>2, <1>3, <1>4, <1>5 DEF StatusOK

\* Nor behind a step.
LEMMA StatusNext == StatusOK'
  BY Status, PTL

-----------------------------------------------------------------------------
\* A mode is not looser than both of two modes if it is not looser than one.
LEMMA MinModes ==
  ASSUME NEW x \in Modes, NEW y \in Modes, NEW z \in Modes
  PROVE  x >= Min({y, z}) <=> x >= y \/ x >= z
<1>1. x \in Int /\ y \in Int /\ z \in Int
  BY DEF Modes, bm_permissive, bm_restricted, bm_disabled
<1>2. Min({y, z}) = IF y <= z THEN y ELSE z
  BY <1>1, MinPair
<1>3. QED BY <1>1, <1>2

\* A step that makes the bridge no looser than it is, or than it is asked to be,
\* is no step that exposes it.
LEMMA StaysTight ==
  ASSUME TypesOK, NeverLooser, calls > 0, Args,
         \/ ctl = "xdma"
         \/ bridgectl_status(ctl)' >= bridgectl_status(ctl)
         \/ bridgectl_status(ctl)' >= mode
  PROVE  NeverLooser'
<1>1. ctl \in Ctls /\ mode \in Modes /\ was \in Modes
      /\ mode' = mode /\ was' = was /\ ctl' = ctl
  BY DEF TypesOK, Args
<1> DEFINE old == bridgectl_status(ctl)
           new == bridgectl_status(ctl)'
<1>2. old \in Modes /\ new \in Modes
  BY <1>1, Status, StatusNext DEF StatusOK
<1>3. ctl # "xdma" => old >= Min({was, mode})
  BY DEF NeverLooser
<1>4. ctl # "xdma" => new >= Min({was, mode})
  <2> SUFFICES ASSUME ctl # "xdma" PROVE new >= Min({was, mode})
    OBVIOUS
  <2>1. new >= old \/ new >= mode
    OBVIOUS
  <2> HIDE DEF old, new
  <2>2. old >= was \/ old >= mode
    BY <1>1, <1>2, <1>3, MinModes
  <2>3. new >= was \/ new >= mode
    BY <1>1, <1>2, <2>1, <2>2 DEF Modes, bm_permissive, bm_restricted, bm_disabled
  <2>4. QED BY <1>1, <1>2, <2>3, MinModes
<1>5. QED BY <1>1, <1>4 DEF NeverLooser

\* A call begins: the registers are as they are, and so is the mode.
LEMMA EnforceKeeps ==
  ASSUME BInv, BridgeAssumption, NoRestrictedDebug, NEW r \in Requests, enforce(r)
  PROVE  BInv'
<1>1. TypesOK /\ r[1] \in Gens /\ r[2] \in Ctls /\ r[3] \in Modes
      /\ (r[2] = "debug" => r[3] # bm_restricted)
  BY DEF BInv, BridgeAssumption, NoRestrictedDebug
<1>2. /\ UNCHANGED <<gen, dev, fn, ro, gated, sio, hicrb, gmp>>
      /\ ctl' = r[2] /\ mode' = r[3] /\ was' = bridgectl_status(r[2])
      /\ calls' = calls + 1 /\ ep' = 1 /\ pc' # "idle"
      /\ pc' = CASE r[2] = "debug" -> "gate"
                 [] r[2] = "ilpc" -> IF gen = "g6" \/ r[3] # bm_disabled THEN "hicrb" ELSE "sio_off"
                 [] r[2] = "p2a" -> "device"
                 [] r[2] = "xdma" -> "gmp"
  BY <1>1 DEF enforce, regs, Ctls
<1>3. was' \in Modes
  BY <1>1, <1>2, Status DEF StatusOK
<1>4. TypesOK'
  BY <1>1, <1>2, <1>3 DEF TypesOK, Ctls, Pcs
<1>5. PlaceOK' /\ IlpcOK' /\ PcieOK'
  BY <1>1, <1>2 DEF PlaceOK, IlpcOK, PcieOK, Filtered, Guarded, Ctls
<1>6. ctl' # "xdma" => bridgectl_status(ctl)' = was'
  BY <1>1, <1>2, Status, StatusNext
  DEF StatusOK, Opened, DeviceOpen, IlpcOpen, Gated, Gate, Function, Ctls
<1>7. NeverLooser'
  <2>1. was' >= was'
    BY <1>3 DEF Modes, bm_permissive, bm_restricted, bm_disabled
  <2>2. was' >= Min({was', mode'})
    BY <1>1, <1>2, <1>3, <2>1, MinModes
  <2>3. QED BY <1>6, <2>2 DEF NeverLooser
<1>8. EnforceTakes'
  BY <1>2 DEF EnforceTakes, Returned
<1>9. QED BY <1>4, <1>5, <1>7, <1>8 DEF BInv

\* A step of a call leaves its arguments alone.
LEMMA StepTypes ==
  ASSUME TypesOK, Args, pc # "idle", pc' \in Pcs, ep' \in {1, 2}, sio' \in {"2e", "4e", "off"}
  PROVE  TypesOK' /\ calls > 0 /\ ctl' = ctl /\ mode' = mode /\ gen' = gen
BY DEF TypesOK, Args

\* The gate of the debug UART: one access, and the call is over.
LEMMA DebugKeeps ==
  ASSUME BInv, debugctl_enforce
  PROVE  BInv'
<1>1. /\ TypesOK /\ NeverLooser /\ Args /\ pc = "gate" /\ ctl = "debug"
      /\ pc' = "idle" /\ ep' = ep /\ UNCHANGED <<dev, fn, ro, sio, hicrb, gmp>>
  BY DEF BInv, debugctl_enforce, Access, Return, Fails
<1>2. TypesOK' /\ calls > 0 /\ ctl' = ctl /\ mode' = mode /\ gen' = gen
  BY <1>1, StepTypes DEF TypesOK, Pcs
<1>3. PlaceOK' /\ IlpcOK' /\ PcieOK'
  BY <1>1 DEF PlaceOK, IlpcOK, PcieOK, Filtered, Guarded
<1>4. mode \in {bm_permissive, bm_disabled}
  BY <1>1 DEF TypesOK, Modes
<1>5. CASE gated' = gated /\ rc' # 0
  <2>1. bridgectl_status(ctl)' = bridgectl_status(ctl) /\ bridgectl_status(ctl) \in Modes
    BY <1>1, <1>2, <1>5, Status, StatusNext DEF StatusOK, Ctls
  <2>2. bridgectl_status(ctl)' >= bridgectl_status(ctl)
    BY <2>1 DEF Modes, bm_permissive, bm_restricted, bm_disabled
  <2>3. NeverLooser'
    BY <1>1, <1>2, <2>2, StaysTight
  <2>4. EnforceTakes'
    BY <1>5 DEF EnforceTakes, Returned
  <2>5. QED BY <1>2, <1>3, <2>3, <2>4 DEF BInv
<1>6. CASE gated' = IF mode = bm_disabled THEN gated \union {"debug"} ELSE gated \ {"debug"}
  <2>1. bridgectl_status(ctl)' = mode
    BY <1>1, <1>2, <1>4, <1>6, StatusNext DEF StatusOK, bm_permissive, bm_disabled
  <2>2. bridgectl_status(ctl)' >= mode
    BY <1>4, <2>1 DEF bm_permissive, bm_disabled
  <2>3. NeverLooser'
    BY <1>1, <1>2, <2>2, StaysTight
  <2>4. EnforceTakes'
    BY <1>2, <2>1 DEF EnforceTakes
  <2>5. QED BY <1>2, <1>3, <2>3, <2>4 DEF BInv
<1>7. QED
  BY <1>5, <1>6, <1>1 DEF debugctl_enforce, Access, Configure, Return, Fails

\* The steps of the iLPC controller: the mode is none looser than the one asked
\* for as soon as the filter is set, and the one asked for at the end.
LEMMA HicrbKeeps ==
  ASSUME BInv, IlpcHicrb
  PROVE  BInv'
<1>1. /\ TypesOK /\ PlaceOK /\ NeverLooser /\ Args /\ pc = "hicrb" /\ ctl = "ilpc" /\ ep' = ep
      /\ UNCHANGED <<dev, fn, ro, gated, sio, gmp>>
      /\ \/ hicrb' = hicrb /\ pc' = "idle" /\ rc' = -1
         \/ hicrb' = HicrbBits /\ pc' = "idle" /\ rc' = -1
         \/ hicrb' = HicrbBits /\ mode = bm_disabled /\ pc' = "idle" /\ rc' = 0
         \/ /\ hicrb' = HicrbBits /\ mode # bm_disabled
            /\ pc' = IF gen = "g6" THEN "gate" ELSE "sio_2e"
  BY DEF BInv, IlpcHicrb, Access, Return, Fails, Goto, PlaceOK
<1>2. TypesOK' /\ calls > 0 /\ ctl' = ctl /\ mode' = mode /\ gen' = gen
  BY <1>1, StepTypes DEF TypesOK, Pcs
<1>3. PlaceOK'
  BY <1>1, <1>2 DEF PlaceOK
<1>4. PcieOK'
  BY <1>1, <1>2 DEF PcieOK, Guarded
<1>5. mode \in {bm_permissive, bm_restricted, bm_disabled}
  BY <1>1 DEF TypesOK, Modes
<1>6. IlpcOK'
  BY <1>1, <1>2, <1>5
  DEF IlpcOK, Filtered, HicrbBits, bm_permissive, bm_restricted, bm_disabled
<1>7. CASE hicrb' = hicrb /\ pc' = "idle" /\ rc' = -1
  <2>1. bridgectl_status(ctl)' = bridgectl_status(ctl) /\ bridgectl_status(ctl) \in Modes
    BY <1>1, <1>2, <1>7, Status, StatusNext DEF StatusOK, IlpcOpen, Ctls
  <2>2. bridgectl_status(ctl)' >= bridgectl_status(ctl)
    BY <2>1 DEF Modes, bm_permissive, bm_restricted, bm_disabled
  <2>3. NeverLooser'
    BY <1>1, <1>2, <2>2, StaysTight
  <2>4. EnforceTakes'
    BY <1>7 DEF EnforceTakes, Returned
  <2>5. QED BY <1>2, <1>3, <1>4, <1>6, <2>3, <2>4 DEF BInv
<1>8. CASE hicrb' = HicrbBits
  <2>1. mode = bm_disabled => gen = "g6" /\ "DIS" \in hicrb'
    BY <1>1, <1>8 DEF PlaceOK, HicrbBits, bm_permissive, bm_restricted, bm_disabled
  <2>2. bridgectl_status(ctl)' >= mode \/ bridgectl_status(ctl)' >= bridgectl_status(ctl)
    <3>1. CASE mode = bm_permissive
      BY <1>1, <1>2, <3>1, StatusNext
      DEF StatusOK, bm_permissive, bm_restricted, bm_disabled
    <3>2. CASE mode = bm_restricted
      BY <1>1, <1>2, <1>8, <3>2, StatusNext
      DEF StatusOK, HicrbBits, bm_permissive, bm_restricted, bm_disabled
    <3>3. CASE mode = bm_disabled
      BY <1>1, <1>2, <2>1, <3>3, Status, StatusNext
      DEF StatusOK, IlpcOpen, bm_permissive, bm_restricted, bm_disabled
    <3>4. QED BY <1>5, <3>1, <3>2, <3>3
  <2>3. NeverLooser'
    BY <1>1, <1>2, <2>2, StaysTight
  <2>4. EnforceTakes'
    <3>1. SUFFICES ASSUME pc' = "idle", rc' = 0 PROVE bridgectl_status(ctl)' = mode'
      BY DEF EnforceTakes, Returned
    <3>2. mode = bm_disabled
      BY <1>1, <3>1
    <3>3. QED BY <1>1, <1>2, <2>1, <3>2, StatusNext DEF StatusOK, IlpcOpen
  <2>5. QED BY <1>2, <1>3, <1>4, <1>6, <2>3, <2>4 DEF BInv
<1>9. QED BY <1>1, <1>7, <1>8

\* The gate of the AST2600 is opened.
LEMMA IlpcGateKeeps ==
  ASSUME BInv, IlpcGate
  PROVE  BInv'
<1>1. /\ TypesOK /\ PlaceOK /\ IlpcOK /\ NeverLooser /\ Args /\ pc = "gate" /\ ctl = "ilpc"
      /\ ep' = ep /\ UNCHANGED <<dev, fn, ro, sio, hicrb, gmp>>
      /\ mode # bm_disabled /\ hicrb = IF mode = bm_permissive THEN {} ELSE {"RO"}
      /\ \/ pc' = "idle" /\ rc' = -1
         \/ pc' = "sio_2e" /\ gated' = gated \ {"ilpc"}
  BY DEF BInv, IlpcGate, Access, Configure, Return, Fails, Goto, PlaceOK, IlpcOK, Filtered
<1>2. TypesOK' /\ calls > 0 /\ ctl' = ctl /\ mode' = mode /\ gen' = gen
  BY <1>1, StepTypes DEF TypesOK, Pcs
<1>3. PlaceOK' /\ IlpcOK' /\ PcieOK'
  BY <1>1, <1>2 DEF PlaceOK, IlpcOK, PcieOK, Filtered, Guarded
<1>4. bridgectl_status(ctl)' >= mode
  BY <1>1, <1>2, StatusNext
  DEF TypesOK, Modes, StatusOK, bm_permissive, bm_restricted, bm_disabled
<1>5. NeverLooser'
  BY <1>1, <1>2, <1>4, StaysTight
<1>6. EnforceTakes'
  BY <1>1 DEF EnforceTakes, Returned
<1>7. QED BY <1>2, <1>3, <1>5, <1>6 DEF BInv

\* SuperIO is decoded, at the address that the controller wants.
LEMMA SioKeeps ==
  ASSUME BInv, SioSelect \/ SioEnable
  PROVE  BInv'
<1>1. /\ TypesOK /\ PlaceOK /\ IlpcOK /\ NeverLooser /\ Args /\ pc \in {"sio_2e", "sio_on"}
      /\ ctl = "ilpc" /\ ep' = ep /\ UNCHANGED <<dev, fn, ro, gated, hicrb, gmp>>
      /\ mode # bm_disabled /\ hicrb = IF mode = bm_permissive THEN {} ELSE {"RO"}
      /\ (gen = "g6" => "ilpc" \notin gated) /\ sio' \in {"2e", "4e", "off"}
      /\ \/ pc' = "idle" /\ rc' = -1
         \/ pc' = "sio_on"
         \/ pc' = "idle" /\ sio' = "2e"
  BY DEF BInv, SioSelect, SioEnable, Access, Return, Fails, Goto, PlaceOK, IlpcOK, Filtered, TypesOK
<1>2. TypesOK' /\ calls > 0 /\ ctl' = ctl /\ mode' = mode /\ gen' = gen
  BY <1>1, StepTypes DEF TypesOK, Pcs
<1>3. PlaceOK' /\ IlpcOK' /\ PcieOK'
  BY <1>1, <1>2 DEF PlaceOK, IlpcOK, PcieOK, Filtered, Guarded
<1>4. bridgectl_status(ctl)' >= mode
  BY <1>1, <1>2, StatusNext
  DEF TypesOK, Modes, StatusOK, bm_permissive, bm_restricted, bm_disabled
<1>5. NeverLooser'
  BY <1>1, <1>2, <1>4, StaysTight
<1>6. EnforceTakes'
  <2>1. SUFFICES ASSUME pc' = "idle", rc' = 0 PROVE bridgectl_status(ctl)' = mode'
    BY DEF EnforceTakes, Returned
  <2>2. IlpcOpen'
    BY <1>1, <1>2, <2>1 DEF IlpcOpen
  <2>3. QED
    BY <1>1, <1>2, <2>2, StatusNext
    DEF TypesOK, Modes, StatusOK, bm_permissive, bm_restricted, bm_disabled
<1>7. QED BY <1>2, <1>3, <1>5, <1>6 DEF BInv

\* SuperIO is not decoded any more, which disables the bridge.
LEMMA SioDisableKeeps ==
  ASSUME BInv, SioDisable
  PROVE  BInv'
<1>1. /\ TypesOK /\ PlaceOK /\ NeverLooser /\ Args /\ pc = "sio_off" /\ ctl = "ilpc"
      /\ ep' = ep /\ UNCHANGED <<dev, fn, ro, gated, hicrb, gmp>>
      /\ mode = bm_disabled /\ sio' \in {"2e", "4e", "off"} /\ pc' = "idle"
      /\ \/ sio' = sio /\ rc' = -1
         \/ sio' = "off"
  BY DEF BInv, SioDisable, Access, Return, Fails, Goto, PlaceOK, TypesOK
<1>2. TypesOK' /\ calls > 0 /\ ctl' = ctl /\ mode' = mode /\ gen' = gen
  BY <1>1, StepTypes DEF TypesOK, Pcs
<1>3. PlaceOK' /\ IlpcOK' /\ PcieOK'
  BY <1>1, <1>2 DEF PlaceOK, IlpcOK, PcieOK, Filtered, Guarded
<1>4. CASE sio' = sio /\ rc' = -1
  <2>1. bridgectl_status(ctl)' = bridgectl_status(ctl) /\ bridgectl_status(ctl) \in Modes
    BY <1>1, <1>2, <1>4, Status, StatusNext DEF StatusOK, IlpcOpen, Ctls
  <2>2. bridgectl_status(ctl)' >= bridgectl_status(ctl)
    BY <2>1 DEF Modes, bm_permissive, bm_restricted, bm_disabled
  <2>3. NeverLooser'
    BY <1>1, <1>2, <2>2, StaysTight
  <2>4. EnforceTakes'
    BY <1>4 DEF EnforceTakes, Returned
  <2>5. QED BY <1>2, <1>3, <2>3, <2>4 DEF BInv
<1>5. CASE sio' = "off"
  <2>1. bridgectl_status(ctl)' = mode'
    BY <1>1, <1>2, <1>5, StatusNext DEF StatusOK, IlpcOpen
  <2>2. bridgectl_status(ctl)' >= mode
    BY <1>1, <1>2, <2>1 DEF bm_disabled
  <2>3. NeverLooser'
    BY <1>1, <1>2, <2>2, StaysTight
  <2>4. EnforceTakes'
    BY <2>1 DEF EnforceTakes
  <2>5. QED BY <1>2, <1>3, <2>3, <2>4 DEF BInv
<1>6. QED BY <1>1, <1>4, <1>5

-----------------------------------------------------------------------------
\* The endpoints, and where pciectl_enforce() goes behind each of them.
LEMMA Endpoints ==
  ASSUME TypesOK
  PROVE  /\ ep = 1 => Dev = "BMC"
         /\ ep = 2 => Dev = "VGA"
         /\ NextEndpoint => \/ ep = 2 /\ pc' = "idle" /\ rc' = 0 /\ ep' = ep
                            \/ ep = 1 /\ pc' = "device" /\ ep' = 2
BY DEF TypesOK, Dev, Devices, NextEndpoint, Return

\* The constraint on X-DMA: its bridge is excepted from NeverLooser.
LEMMA ConstrainKeeps ==
  ASSUME BInv, XdmaConstrain
  PROVE  BInv'
<1>1. /\ TypesOK /\ PlaceOK /\ NeverLooser /\ Args /\ pc = "gmp" /\ ctl = "xdma" /\ ep = 1
      /\ ep' = ep /\ sio' = sio
      /\ (pc' = "idle" /\ rc' = -1) \/ pc' = "device"
  BY DEF BInv, XdmaConstrain, Access, Return, Fails, Goto, PlaceOK
<1>2. TypesOK' /\ calls > 0 /\ ctl' = ctl /\ mode' = mode /\ gen' = gen
  BY <1>1, StepTypes DEF TypesOK, Pcs
<1>3. PlaceOK' /\ IlpcOK' /\ PcieOK'
  BY <1>1, <1>2 DEF PlaceOK, IlpcOK, PcieOK, Filtered, Guarded
<1>4. NeverLooser' /\ EnforceTakes'
  BY <1>1, <1>2 DEF NeverLooser, EnforceTakes, Returned
<1>5. QED BY <1>2, <1>3, <1>4 DEF BInv

\* An endpoint is switched off, and behind the last of them both are.
LEMMA DisableKeeps ==
  ASSUME BInv, DeviceDisable
  PROVE  BInv'
<1>1. /\ TypesOK /\ PlaceOK /\ PcieOK /\ NeverLooser /\ Args /\ pc = "device"
      /\ ctl \in {"p2a", "xdma"} /\ mode = bm_disabled
      /\ UNCHANGED <<dev, ro, gated, sio, hicrb, gmp>>
      /\ \/ (fn' = fn \/ fn' = fn \ {<<Dev, Function(ctl)>>}) /\ pc' = "idle" /\ rc' = -1 /\ ep' = ep
         \/ fn' = fn \ {<<Dev, Function(ctl)>>} /\ NextEndpoint
  BY DEF BInv, DeviceDisable, Access, Return, Fails, PlaceOK
<1>2. pc' \in {"idle", "device"} /\ ep' \in {1, 2}
  BY <1>1, Endpoints DEF TypesOK
<1>3. TypesOK' /\ calls > 0 /\ ctl' = ctl /\ mode' = mode /\ gen' = gen
  BY <1>1, <1>2, StepTypes DEF TypesOK, Pcs
<1>4. PlaceOK' /\ IlpcOK'
  BY <1>1, <1>2, <1>3 DEF PlaceOK, IlpcOK, Filtered
<1>5. PcieOK'
  <2>1. pc' # "config" /\ pc' # "gate"
    BY <1>2
  <2>2. pc' = "device" => <<"BMC", Function(ctl)>> \notin fn'
    BY <1>1, Endpoints
  <2>3. QED BY <1>3, <2>1, <2>2 DEF PcieOK, Guarded, Function
<1>6. fn' \subseteq fn
  BY <1>1
<1>7. ctl = "xdma" \/ bridgectl_status(ctl)' >= bridgectl_status(ctl)
  <2> SUFFICES ASSUME ctl = "p2a" PROVE bridgectl_status(ctl)' >= bridgectl_status(ctl)
    BY <1>1
  <2>1. Opened("p2a")' => Opened("p2a")
    BY <1>1, <1>3, <1>6 DEF Opened, DeviceOpen, Gated, Gate, Function
  <2>2. QED
    BY <1>1, <1>3, <2>1, Status, StatusNext
    DEF StatusOK, bm_permissive, bm_restricted, bm_disabled
<1>8. NeverLooser'
  BY <1>1, <1>3, <1>7, StaysTight
<1>9. EnforceTakes'
  <2>1. SUFFICES ASSUME pc' = "idle", rc' = 0 PROVE bridgectl_status(ctl)' = mode'
    BY DEF EnforceTakes, Returned
  <2>2. ep = 2 /\ fn' = fn \ {<<"VGA", Function(ctl)>>} /\ <<"BMC", Function(ctl)>> \notin fn
    BY <1>1, <2>1, Endpoints DEF PcieOK
  <2>3. ~Opened(ctl)'
    BY <1>1, <1>3, <2>2 DEF Opened, DeviceOpen, Function
  <2>4. QED BY <1>1, <1>3, <2>3, StatusNext DEF StatusOK
<1>10. QED BY <1>3, <1>4, <1>5, <1>8, <1>9 DEF BInv

\* X-DMA has no region filters, and is not switched on: see Excused.
LEMMA NoRegionsKeeps ==
  ASSUME BInv, DeviceNoRegions
  PROVE  BInv'
<1>1. /\ TypesOK /\ PlaceOK /\ NeverLooser /\ Args /\ pc = "device" /\ ctl = "xdma"
      /\ mode # bm_disabled /\ sio' = sio
      /\ (pc' = "idle" /\ rc' = -1 /\ ep' = ep) \/ NextEndpoint
  BY DEF BInv, DeviceNoRegions, Return, Fails, regs
<1>2. pc' \in {"idle", "device"} /\ ep' \in {1, 2}
  BY <1>1, Endpoints DEF TypesOK
<1>3. TypesOK' /\ calls > 0 /\ ctl' = ctl /\ mode' = mode /\ gen' = gen
  BY <1>1, <1>2, StepTypes DEF TypesOK, Pcs
<1>4. PlaceOK' /\ IlpcOK' /\ PcieOK'
  BY <1>1, <1>2, <1>3 DEF PlaceOK, IlpcOK, Filtered, PcieOK, Guarded
<1>5. NeverLooser' /\ EnforceTakes'
  BY <1>1, <1>3 DEF NeverLooser, EnforceTakes, Excused
<1>6. QED BY <1>3, <1>4, <1>5 DEF BInv

\* The region filters of the P2A are set, or lifted if they may be.
LEMMA RegionsKeep ==
  ASSUME BInv, DeviceRegions
  PROVE  BInv'
<1>1. /\ TypesOK /\ PlaceOK /\ NeverLooser /\ Args /\ pc = "device" /\ ctl = "p2a"
      /\ mode # bm_disabled /\ ep' = ep /\ UNCHANGED <<dev, fn, gated, sio, hicrb, gmp>>
      /\ \/ ro' = ro /\ pc' = "idle" /\ rc' = -1
         \/ /\ ro' = IF mode = bm_restricted THEN Regions ELSE {}
            /\ (pc' = "idle" /\ rc' = -1) \/ pc' = "config"
  BY DEF BInv, DeviceRegions, Access, Return, Fails, Goto
<1>2. TypesOK' /\ calls > 0 /\ ctl' = ctl /\ mode' = mode /\ gen' = gen
  BY <1>1, StepTypes DEF TypesOK, Pcs
<1>3. PlaceOK' /\ IlpcOK' /\ PcieOK'
  BY <1>1, <1>2 DEF PlaceOK, IlpcOK, Filtered, PcieOK, Guarded
<1>4. EnforceTakes'
  BY <1>1 DEF EnforceTakes, Returned
<1>5. bridgectl_status(ctl)' >= bridgectl_status(ctl) \/ bridgectl_status(ctl)' >= mode
  <2>1. CASE ro' = ro
    <3>1. Opened("p2a")' <=> Opened("p2a")
      BY <1>1, <1>2 DEF Opened, DeviceOpen, Gated, Gate, Function
    <3>2. QED
      BY <1>1, <1>2, <2>1, <3>1, Status, StatusNext
      DEF StatusOK, bm_permissive, bm_restricted, bm_disabled
  <2>2. CASE ro' = IF mode = bm_restricted THEN Regions ELSE {}
    BY <1>1, <1>2, <2>2, StatusNext
    DEF TypesOK, Modes, StatusOK, bm_permissive, bm_restricted, bm_disabled
  <2>3. QED BY <1>1, <2>1, <2>2
<1>6. NeverLooser'
  BY <1>1, <1>2, <1>5, StaysTight
<1>7. QED BY <1>2, <1>3, <1>4, <1>6 DEF BInv

\* With the filters set as the mode has it, the P2A is none looser than that,
\* and in that mode as soon as an endpoint is open.
LEMMA FiltersHold ==
  ASSUME BridgeAssumption, TypesOK', ctl' = "p2a", mode' # bm_disabled,
         ro' = IF mode' = bm_restricted THEN Regions ELSE {}
  PROVE  /\ bridgectl_status(ctl)' >= mode'
         /\ Opened("p2a")' => bridgectl_status(ctl)' = mode'
         /\ ~Opened("p2a")' => bridgectl_status(ctl)' = bm_disabled
<1>1. mode' \in {bm_permissive, bm_restricted} /\ Regions # {}
  BY DEF TypesOK, Modes, BridgeAssumption
<1>2. Regions \subseteq ro' <=> mode' = bm_restricted
  BY <1>1 DEF bm_permissive, bm_restricted
<1>3. QED BY <1>1, <1>2, StatusNext DEF StatusOK, bm_permissive, bm_restricted, bm_disabled

\* The device and its function are switched on behind their filters.
LEMMA EnableKeeps ==
  ASSUME BInv, BridgeAssumption, DeviceEnable
  PROVE  BInv'
<1>1. /\ TypesOK /\ PlaceOK /\ NeverLooser /\ Args /\ pc = "config" /\ ctl = "p2a"
      /\ mode # bm_disabled /\ UNCHANGED <<ro, gated, sio, hicrb, gmp>>
      /\ ro = IF mode = bm_restricted THEN Regions ELSE {}
  BY DEF BInv, DeviceEnable, PlaceOK, PcieOK, Guarded
<1>2. \/ gen = "g6" /\ pc' = "gate" /\ ep' = ep
      \/ gen # "g6" /\ pc' = "idle" /\ rc' = -1 /\ ep' = ep
      \/ gen # "g6" /\ Dev \in dev' /\ <<Dev, "mmio">> \in fn' /\ NextEndpoint
  <2> DEFINE on == dev' = dev \union {Dev} /\ fn' = fn \union {<<Dev, "mmio">>}
  <2>1. on => Dev \in dev' /\ <<Dev, "mmio">> \in fn'
    OBVIOUS
  <2>2. IF gen = "g6" THEN Access(on, UNCHANGED <<dev, fn>>, Goto("gate"), Goto("gate"))
        ELSE Access(on, UNCHANGED <<dev, fn>>, NextEndpoint, Fails)
    BY DEF DeviceEnable
  <2> HIDE DEF on
  <2>3. QED BY <2>1, <2>2 DEF Access, Goto, Fails, Return
<1>3. pc' \in {"idle", "device", "gate"} /\ ep' \in {1, 2}
  BY <1>1, <1>2, Endpoints DEF TypesOK
<1>4. TypesOK' /\ calls > 0 /\ ctl' = ctl /\ mode' = mode /\ gen' = gen
  BY <1>1, <1>3, StepTypes DEF TypesOK, Pcs
<1>5. PlaceOK' /\ IlpcOK' /\ PcieOK'
  <2>1. pc' = "gate" => gen = "g6"
    BY <1>1, <1>2, Endpoints
  <2>2. QED BY <1>1, <1>3, <1>4, <2>1 DEF PlaceOK, IlpcOK, Filtered, PcieOK, Guarded
<1>6. NeverLooser'
  <2>1. bridgectl_status(ctl)' >= mode
    BY <1>1, <1>4, FiltersHold
  <2>2. QED BY <1>1, <1>4, <2>1, StaysTight
<1>7. EnforceTakes'
  <2>1. SUFFICES ASSUME pc' = "idle", rc' = 0 PROVE bridgectl_status(ctl)' = mode'
    BY DEF EnforceTakes, Returned
  <2>2. gen # "g6" /\ Dev \in dev' /\ <<Dev, "mmio">> \in fn' /\ Dev \in {"BMC", "VGA"}
    BY <1>1, <1>2, <2>1, Endpoints DEF TypesOK
  <2>3. Opened("p2a")'
    BY <1>4, <2>2 DEF Opened, DeviceOpen, Gated, Function
  <2>4. QED BY <1>1, <1>4, <2>3, FiltersHold
<1>8. QED BY <1>4, <1>5, <1>6, <1>7 DEF BInv

\* The gate of the P2A is opened, if the access succeeds.
LEMMA GateKeeps ==
  ASSUME BInv, BridgeAssumption, DeviceGate
  PROVE  BInv'
<1>1. /\ TypesOK /\ PlaceOK /\ NeverLooser /\ Args /\ pc = "gate" /\ ctl = "p2a" /\ gen = "g6"
      /\ mode # bm_disabled /\ UNCHANGED <<dev, fn, ro, sio, hicrb, gmp>> /\ NextEndpoint
      /\ ro = IF mode = bm_restricted THEN Regions ELSE {}
  BY DEF BInv, DeviceGate, Access, PlaceOK, PcieOK, Guarded
<1>2. pc' \in {"idle", "device"} /\ ep' \in {1, 2}
  BY <1>1, Endpoints DEF TypesOK
<1>3. TypesOK' /\ calls > 0 /\ ctl' = ctl /\ mode' = mode /\ gen' = gen
  BY <1>1, <1>2, StepTypes DEF TypesOK, Pcs
<1>4. PlaceOK' /\ IlpcOK' /\ PcieOK'
  BY <1>1, <1>2, <1>3 DEF PlaceOK, IlpcOK, Filtered, PcieOK, Guarded
<1>5. NeverLooser'
  <2>1. bridgectl_status(ctl)' >= mode
    BY <1>1, <1>3, FiltersHold
  <2>2. QED BY <1>1, <1>3, <2>1, StaysTight
<1>6. EnforceTakes'
  <2>1. bridgectl_status(ctl)' = mode' \/ bridgectl_status(ctl)' = bm_disabled
    BY <1>1, <1>3, FiltersHold
  <2>2. QED BY <1>1, <1>3, <2>1 DEF EnforceTakes, Excused
<1>7. QED BY <1>3, <1>4, <1>5, <1>6 DEF BInv

-----------------------------------------------------------------------------
\* Nobody has called enforce() yet.
LEMMA InitBridgeCtl ==
  ASSUME Init, BridgeAssumption
  PROVE  BInv
<1>1. gen \in Gens /\ sio \in {"2e", "4e", "off"}
  BY DEF Init, BridgeAssumption, AllBoots
<1>2. TypesOK
  BY <1>1 DEF Init, TypesOK, Modes, Pcs
<1>3. QED
  BY <1>2
  DEF Init, BInv, PlaceOK, IlpcOK, PcieOK, Filtered, Guarded, NeverLooser, EnforceTakes, Returned

\* Every step keeps the invariant.
LEMMA NextBridgeCtl ==
  ASSUME BInv, BridgeAssumption, NoRestrictedDebug, [Next]_vars
  PROVE  BInv'
<1>1. CASE UNCHANGED vars
  <2>1. UNCHANGED <<gen, dev, fn, ro, gated, sio, hicrb, gmp, pc, ctl, mode, ep, rc, was, calls>>
    BY <1>1 DEF vars, regs
  <2>2. TypesOK' /\ PlaceOK' /\ IlpcOK' /\ PcieOK'
    BY <2>1 DEF BInv, TypesOK, PlaceOK, IlpcOK, PcieOK, Filtered, Guarded
  <2>3. bridgectl_status(ctl)' = bridgectl_status(ctl)
    BY <2>1
    DEF bridgectl_status, debugctl_status, ilpcctl_status, xdmactl_status, pciectl_status,
        pciectl_device_status, DeviceOpen, Gated
  <2>4. NeverLooser' /\ EnforceTakes'
    BY <2>1, <2>3 DEF BInv, NeverLooser, EnforceTakes, Returned, Excused
  <2>5. QED BY <2>2, <2>4 DEF BInv
<1>2. CASE \E r \in Requests : enforce(r)
  BY <1>2, EnforceKeeps
<1>3. CASE debugctl_enforce \/ IlpcHicrb \/ IlpcGate \/ SioSelect \/ SioEnable \/ SioDisable
  BY <1>3, DebugKeeps, HicrbKeeps, IlpcGateKeeps, SioKeeps, SioDisableKeeps
<1>4. CASE XdmaConstrain \/ DeviceDisable \/ DeviceNoRegions \/ DeviceRegions \/ DeviceEnable
           \/ DeviceGate
  BY <1>4, ConstrainKeeps, DisableKeeps, NoRegionsKeeps, RegionsKeep, EnableKeeps, GateKeeps
<1>5. QED BY <1>1, <1>2, <1>3, <1>4 DEF Next

\* The invariant holds in every behaviour.
LEMMA BridgeInvariant == ASSUME NoRestrictedDebug PROVE Spec => []BInv
<1>1. Init => BInv
  BY InitBridgeCtl, BridgeAssumption
<1>2. BInv /\ [Next]_vars => BInv'
  BY NextBridgeCtl, BridgeAssumption
<1>3. QED BY <1>1, <1>2, PTL DEF Spec

\* No step of enforce() exposes a bridge, nor one that fails half way: the
\* filters are in place before anything is switched on (soc/pciectl.c,
\* pciectl_device_enforce(); soc/ilpcctl.c, ast2600_ilpcctl_enforce()).
THEOREM TightCorrect == ASSUME NoRestrictedDebug PROVE Spec => []NeverLooser
<1>1. BInv => NeverLooser
  BY DEF BInv
<1>2. QED BY <1>1, BridgeInvariant, PTL

\* An enforce() that returns 0 has put its bridge into the mode it was asked
\* for, as status() finds it, or is Excused (soc/pciectl.c, soc/ilpcctl.c and
\* soc/debugctl.c, the callbacks enforce and status).
THEOREM TakesEffect == ASSUME NoRestrictedDebug PROVE Spec => []EnforceTakes
<1>1. BInv => EnforceTakes
  BY DEF BInv
<1>2. QED BY <1>1, BridgeInvariant, PTL

=============================================================================
