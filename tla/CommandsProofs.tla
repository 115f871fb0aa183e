--------------------------- MODULE CommandsProofs ---------------------------
(***************************************************************************)
(* Proofs about the commands that touch the BMC's clock, watchdogs, flash  *)
(* and OTP memory, for every number of watchdogs, windows, straps and      *)
(* tries, every image and every content of the OTP memory.                 *)
(***************************************************************************)
EXTENDS Commands, Sequences, SequenceTheorems, FiniteSetTheorems, TLAPS

-----------------------------------------------------------------------------
(***************************************************************************)
(* The inductive invariant of the firmware writer and of the reset.        *)
(***************************************************************************)
SocOK ==
  /\ local \in BOOLEAN /\ wi \in 1 .. Wdts + 1 /\ wdt \in Wdt
  /\ wdtOn \in [Wdt -> BOOLEAN] /\ own \in 0 .. Wdts /\ resets \in Nat

\* A failure leaves the straight path: on it, rc is still OK.
WritePath ==
  {"probe", "prevent", "gate", "discard", "get_wdt2"} \union W!FlashOps \union ResetLabels
ResetPath == {"probe", "get_drivers", "gate", "prevent"} \union ResetLabels

\* The watchdog that performs the reset runs from ResetArm() to the end of the
\* sleep, or to the end of the command if an error comes first; when it no
\* longer does, the SoC has been reset.
OwnOK ==
  /\ own # 0 => pc \in {"reset_release", "reset_sleep", "ungate", "done"}
  /\ own # 0 /\ pc \in {"ungate", "done"} => rc # OK
  /\ pc \in {"reset_release", "reset_sleep"} => own = wdt \/ resets > 0
  /\ pc \in {"reset_reinit", "reset_ungate", "reset_reload"} => resets > 0
  /\ pc = "reset_reload" => armClk = "running"

\* Only the BMC can have restarted a watchdog that was stopped.
StoppedOK ==
  ~rearmed => \A w \in Wdt : w < wi /\ w # own => ~wdtOn[w]

FreezeOK ==
  ~local =>
    /\ pc \in {"gate"} => wi > Wdts
    /\ pc \in {"discard"} \union W!FlashOps => wi > Wdts /\ armClk = "gated"
    /\ pc \in W!FlashOps /\ ~rearmed => discard

\* A window is erased or half written only while it is the current one, and
\* its failure is in rc.
WindowsOK ==
  /\ phys \in Nat /\ flash \in [0 .. Windows - 1 -> {"old", "erased", "part", "new"}]
  /\ pc \in WritePath \ {"erase", "write"} \/ own # 0 => ~W!Partial
  /\ pc \in {"cleanup", "destroy", "done"} /\ rc = OK => ~W!Partial
  /\ pc \in {"erase", "write"} =>
       \A w \in 0 .. Windows - 1 : flash[w] \in {"erased", "part"} => w = phys
  /\ pc = "write" => phys < Windows

\* How a write ends.
WriteEndOK ==
  /\ released = TRUE => pc \in {"done", "dead"}
  /\ pc = "probe" => armClk = "running"
  /\ pc \in {"destroy", "done"} /\ rc # OK /\ (pc = "done" => released) /\ ~ungateLost =>
       armClk = "running"
  /\ pc \in {"destroy", "done"} /\ rc = OK /\ ~local =>
       armClk = "running" /\ resets > 0 /\ own = 0
  /\ pc \in ResetLabels \union {"get_wdt2"} => ~local
  /\ pc \in {"undiscard", "ungate"} => rc # OK /\ own = 0

WriteInv ==
  /\ SocOK /\ (pc \in WritePath => rc = OK) /\ OwnOK
  /\ StoppedOK /\ FreezeOK /\ WindowsOK /\ WriteEndOK

\* How a reset goes and ends.
ResetEndOK ==
  /\ pc \in {"probe", "get_drivers", "gate"} => armClk = "running" /\ wi = 1
  /\ pc \in {"prevent"} \union (ResetLabels \ {"reset_reload"}) /\ ~local =>
       /\ armClk = "gated"
       /\ \A w \in Wdt : w < wi /\ w # own => ~wdtOn[w]
  /\ pc \in ResetLabels => wi > Wdts
  /\ pc = "ungate" => rc # OK
  /\ R!ResetKeepsCpu /\ R!ResetDone

ResetInv ==
  SocOK /\ (pc \in ResetPath => rc = OK) /\ OwnOK /\ ResetEndOK /\ FirmwareRests

-----------------------------------------------------------------------------
(***************************************************************************)
(* The inductive invariant of the OTP command.                             *)
(***************************************************************************)
Write == {"write_conf", "write_strap"}

\* The options of a strap up to n that are burnt.
Burnt(b, n) == {k \in 1 .. n : b \in words[O!Option(k)]}

\* A request behind the check of its arguments.
ReqOK ==
  \/ req.fn \in {"read_conf", "read_strap"}
  \/ req.fn = "write_conf" /\ req.word \in 0 .. Confs - 1 /\ req.bit \in O!Bit
  \/ req.fn = "write_strap" /\ req.bit \in O!Bit /\ req.val \in {0, 1}

\* otp_read_reg(w), from its start to its end.
Reads(w) ==
  LET script == O!otp_read_reg(w)
  IN  \/ todo = script
      \/ todo = <<script[2], script[3], script[4]>> /\ busy = O!Idle /\ addr = w
      \/ /\ todo = <<script[3], script[4]>>
         /\ \/ busy = O!Idle /\ data = words[w]
            \/ busy[1] = "read" /\ busy[2] = w
      \/ todo = <<script[4]>> /\ busy = O!Idle /\ data = words[w]
      \/ todo = <<>> /\ busy = O!Idle /\ got = words[w]

\* otp_program() of the target.
Programs ==
  LET script == O!Program
  IN  \/ todo = script
      \/ todo = <<script[2], script[3], script[4]>> /\ busy = O!Idle /\ addr = target.word
      \/ /\ todo = <<script[3], script[4]>> /\ busy = O!Idle /\ addr = target.word
         /\ data = O!Bit \ {target.bit}
      \/ todo = <<script[4]>> /\ busy[1] \in {"idle", "program"}
      \/ todo = <<>> /\ busy = O!Idle

\* otp_set_soak(n) before its p-th access: the registers behind it hold their
\* new values, and the one it is at has been given its command.
SoakReg(k) == <<"soak", k>>
SoakAt(n, p) ==
  /\ \A k \in 0 .. 2 :
       /\ p > 4 * k + 4 => soak[SoakReg(k)] = O!SoakWord(n)
       /\ p \in 4 * k + 2 .. 4 * k + 4 => addr = SoakReg(k)
       /\ p \in 4 * k + 3 .. 4 * k + 4 => data = O!SoakWord(n)
       /\ p = 4 * k + 4 =>
            \/ busy = <<"write", SoakReg(k), O!SoakWord(n)>>
            \/ busy = O!Idle /\ soak[SoakReg(k)] = O!SoakWord(n)
  /\ p = 14 => soak[<<"timing", 0>>] = O!SoakWord(n)
  /\ p \notin {1, 4, 8, 12} => busy = O!Idle
Soaks(n) == \E p \in 1 .. 14 : todo = SubSeq(O!otp_set_soak(n), p, 13) /\ SoakAt(n, p)

\* Where the accesses of the primitive in progress stand.
ScriptOK ==
  /\ todo # <<>> =>
       pc \in {"unlocked", "locked", "reading", "conf", "protect", "option", "verify",
              "programmed", "reprogrammed", "soaked", "resoaked", "undone"}
  /\ pc = "unlocked" => todo = <<>> \/ todo = << <<"KEY", "open">> >>
  /\ pc = "locked" => todo = <<>> \/ todo = << <<"KEY", "locked">> >>
  /\ pc = "reading" => req.fn \notin Write /\ \E w \in O!Word : Reads(w)
  /\ pc = "conf" => Reads(O!Conf(req.word))
  /\ pc = "protect" => Reads(O!Protect)
  /\ pc = "option" => Reads(O!Option(i))
  /\ pc = "verify" => Reads(target.word)
  /\ pc \in {"programmed", "reprogrammed"} => Programs
  /\ pc = "soaked" => Soaks(1)
  /\ pc = "resoaked" => Soaks(1) \/ Soaks(2)
  /\ pc = "undone" => Soaks(0)

\* The key is taken and given back, and nothing else than the raised soak of
\* otp_write() changes the soak.
KeyOK ==
  /\ pc \notin {"idle", "unlocked", "locked"} => key = "open"
  /\ pc = "unlocked" /\ todo = <<>> => key = "open"
  /\ pc = "locked" /\ todo = <<>> => key = "locked"
  /\ pc = "idle" /\ ~lost => key = "locked"
  /\ lost => pc \in {"idle", "done", "locked"}
  /\ DOMAIN soak = O!SoakReg \union {<<"timing", 0>>}
  /\ ~lost /\ pc \in {"idle", "unlocked", "reading", "conf", "protect", "option", "confirm",
                      "done", "locked"} =>
       /\ \A r \in DOMAIN soak : soak[r] = O!SoakWord(0)
       /\ busy[1] \in {"idle", "read"}

\* The tests of otp_write_strap() and where its loop has got to.
StrapOK ==
  /\ pc \in {"unlocked", "conf", "protect", "option"} => ReqOK
  /\ pc \in {"unlocked", "conf", "protect", "option", "confirm"} => tries = 0
  /\ pc = "reading" => i \in Nat \ {0}
  /\ pc = "conf" => req.fn = "write_conf"
  /\ pc \in {"protect", "option"} => req.fn = "write_strap"
  /\ pc = "option" =>
       /\ i \in 1 .. Options /\ req.bit \notin words[O!Protect]
       /\ res = Cardinality(Burnt(req.bit, i - 1)) % 2
       /\ f \in 0 .. i - 1
       /\ \A n \in 1 .. i - 1 : (f = 0 \/ n < f) => req.bit \in words[O!Option(n)]
       /\ f # 0 => req.bit \notin words[O!Option(f)]

\* The target passed its checks, and still does until it is burnt.
TargetOK ==
  /\ words \in [O!Word -> SUBSET O!Bit] /\ tries \in Nat
  /\ target.word \in O!Word /\ target.bit \in O!Bit /\ target.val \in {0, 1}
  /\ busy[1] = "program" => busy[2] = target.word /\ busy[3] = O!Bit \ {target.bit}
  /\ busy[1] \in {"idle", "read", "write", "program"}
  /\ busy[1] = "idle" => busy = O!Idle
  /\ target.word[1] = "option" =>
       /\ target.bit \notin words[O!Protect]
       /\ \A n \in 1 .. target.word[2] - 1 : target.bit \in words[O!Option(n)]
       /\ (O!Strap(target.bit) = target.val) <=> (target.bit \in words[target.word])

\* A write that comes back without an error has seen its bit set.
TakesOK ==
  pc \in {"undo_soak", "undone", "done", "locked", "idle"} /\ rc = OK /\ req.fn \in Write
    /\ tries <= Tries => target.bit \in words[target.word]

OtpInv == ~collided => ScriptOK /\ KeyOK /\ StrapOK /\ TargetOK /\ TakesOK

-----------------------------------------------------------------------------
IInv ==
  /\ cmd \in {"write", "reset", "otp"}
  /\ cmd = "write" => WriteInv /\ O!OtpInit
  /\ cmd = "reset" => ResetInv /\ O!OtpInit
  /\ cmd = "otp" => OtpInv

-----------------------------------------------------------------------------
(***************************************************************************)
(* The firmware writer.                                                    *)
(***************************************************************************)
\* The constants of the SoC and of the flash.
LEMMA Consts == Wdts \in Nat \ {0} /\ Windows \in Nat
  BY WdtAssumption, CommandsAssumption DEF WdtAssumption, CommandsAssumption,
     W!FirmwareAssumption

\* A step of the firmware writer keeps the invariant.
LEMMA WriteStep == WriteInv /\ W!Step => WriteInv'
<1> SUFFICES ASSUME WriteInv, W!Step PROVE WriteInv'
  OBVIOUS
<1> USE Consts DEF WriteInv, SocOK, OwnOK, StoppedOK, FreezeOK, WindowsOK, WriteEndOK,
      WritePath, ResetLabels, W!FlashOps, W!Partial, Wdt, OK, W!OK, W!EIO, W!ENODEV,
      W!Goto, W!Fail, W!hwVars, W!histVars, W!fwVars
<1>1. CASE W!Probe
  BY <1>1 DEF W!Probe, W!Quiet
<1>2. CASE W!Prevent
  <2>1. SocOK'
    <3>1. (wdtOn \in [Wdt -> BOOLEAN])'
      BY <1>2 DEF W!Prevent, W!wdt_prevent_reset
    <3>2. (/\ local \in BOOLEAN /\ wi \in 1 .. Wdts + 1 /\ wdt \in Wdt /\ own \in 0 .. Wdts
           /\ resets \in Nat)'
      BY <1>2 DEF W!Prevent, W!wdt_prevent_reset
    <3>3. QED
      BY ONLY <3>1, <3>2 DEF SocOK
  <2>2. (pc \in WritePath => rc = OK)'
    BY <1>2 DEF W!Prevent, W!wdt_prevent_reset
  <2>3. OwnOK'
    BY <1>2 DEF W!Prevent, W!wdt_prevent_reset
  <2>4. StoppedOK'
    BY <1>2 DEF W!Prevent, W!wdt_prevent_reset
  <2>5. FreezeOK'
    BY <1>2 DEF W!Prevent, W!wdt_prevent_reset
  <2>6. WindowsOK'
    BY <1>2 DEF W!Prevent, W!wdt_prevent_reset
  <2>7. WriteEndOK'
    BY <1>2 DEF W!Prevent, W!wdt_prevent_reset
  <2>8. QED
    BY ONLY <2>1, <2>2, <2>3, <2>4, <2>5, <2>6, <2>7 DEF WriteInv
<1>3. CASE W!Gate
  BY <1>3 DEF W!Gate, W!clk_disable
<1>4. CASE W!Discard
  BY <1>4 DEF W!Discard
<1>5. CASE W!flash_init
  BY <1>5 DEF W!flash_init, W!Quiet
<1>6. CASE W!Read
  BY <1>6 DEF W!Read
<1>7. CASE W!Erase
  BY <1>7 DEF W!Erase
<1>8. CASE W!WriteWindow
  BY <1>8 DEF W!WriteWindow
<1>9. CASE W!WriteMiscompare
  BY <1>9 DEF W!WriteMiscompare
<1>10. CASE W!WriteFails
  BY <1>10 DEF W!WriteFails
<1>11. CASE W!Cleanup
  BY <1>11 DEF W!Cleanup, W!Quiet
<1>12. CASE W!GetWdt2
  BY <1>12 DEF W!GetWdt2, W!Quiet
<1>13. CASE W!Undiscard
  BY <1>13 DEF W!Undiscard
<1>14. CASE W!Ungate
  BY <1>14 DEF W!Ungate, W!clk_enable_logged
<1>15. CASE W!Destroy
  BY <1>15 DEF W!Destroy
<1>16. CASE W!Reset
  <2>1. CASE W!ResetStop("done") /\ UNCHANGED W!fwVars
    <3>1. SocOK'
      <4>1. (wdtOn \in [Wdt -> BOOLEAN])'
        BY <2>1 DEF W!ResetStop
      <4>2. (/\ local \in BOOLEAN /\ wi \in 1 .. Wdts + 1 /\ wdt \in Wdt /\ own \in 0 .. Wdts
             /\ resets \in Nat)'
        BY <2>1 DEF W!ResetStop
      <4>3. QED
        BY ONLY <4>1, <4>2 DEF SocOK
    <3>2. (pc \in WritePath => rc = OK)'
      BY <2>1 DEF W!ResetStop
    <3>3. OwnOK'
      BY <2>1 DEF W!ResetStop
    <3>4. StoppedOK'
      BY <2>1 DEF W!ResetStop
    <3>5. FreezeOK'
      BY <2>1 DEF W!ResetStop
    <3>6. WindowsOK'
      BY <2>1 DEF W!ResetStop
    <3>7. WriteEndOK'
      BY <2>1 DEF W!ResetStop
    <3>8. QED
      BY ONLY <3>1, <3>2, <3>3, <3>4, <3>5, <3>6, <3>7 DEF WriteInv
  <2>2. CASE W!ResetSetup("done") /\ UNCHANGED W!fwVars
    BY <2>2 DEF W!ResetSetup
  <2>3. CASE W!ResetArm("done") /\ UNCHANGED W!fwVars
    <3>1. SocOK'
      <4>1. (wdtOn \in [Wdt -> BOOLEAN])'
        BY <2>3 DEF W!ResetArm
      <4>2. (/\ local \in BOOLEAN /\ wi \in 1 .. Wdts + 1 /\ wdt \in Wdt /\ own \in 0 .. Wdts
             /\ resets \in Nat)'
        BY <2>3 DEF W!ResetArm
      <4>3. QED
        BY ONLY <4>1, <4>2 DEF SocOK
    <3>2. (pc \in WritePath => rc = OK)'
      BY <2>3 DEF W!ResetArm
    <3>3. OwnOK'
      BY <2>3 DEF W!ResetArm
    <3>4. StoppedOK'
      BY <2>3 DEF W!ResetArm
    <3>5. FreezeOK'
      BY <2>3 DEF W!ResetArm
    <3>6. WindowsOK'
      BY <2>3 DEF W!ResetArm
    <3>7. WriteEndOK'
      BY <2>3 DEF W!ResetArm
    <3>8. QED
      BY ONLY <3>1, <3>2, <3>3, <3>4, <3>5, <3>6, <3>7 DEF WriteInv
  <2>4. CASE W!ResetRelease("done") /\ UNCHANGED W!fwVars
    BY <2>4 DEF W!ResetRelease
  <2>5. CASE W!ResetSleep /\ UNCHANGED W!fwVars
    BY <2>5 DEF W!ResetSleep
  <2>6. CASE W!ResetReinit("done") /\ UNCHANGED W!fwVars
    BY <2>6 DEF W!ResetReinit
  <2>7. CASE W!ResetUngate("done") /\ UNCHANGED W!fwVars
    BY <2>7 DEF W!ResetUngate
  <2>8. CASE W!ResetReload("destroy", "done") /\ UNCHANGED W!fwVars
    BY <2>8 DEF W!ResetReload
  <2>9. QED
    BY <1>16, <2>1, <2>2, <2>3, <2>4, <2>5, <2>6, <2>7, <2>8 DEF W!Reset, W!wdt_perform_reset
<1>17. QED
  BY <1>1, <1>2, <1>3, <1>4, <1>5, <1>6, <1>7, <1>8, <1>9, <1>10, <1>11, <1>12, <1>13, <1>14,
     <1>15, <1>16 DEF W!Step

\* A step of the BMC keeps it too: it can restart a watchdog only while its
\* clock runs, and only one that runs resets the SoC.
LEMMA WriteBmc == WriteInv /\ Bmc /\ UNCHANGED W!fwVars => WriteInv'
<1> SUFFICES ASSUME WriteInv, UNCHANGED W!fwVars, NEW w \in Wdt, BmcArms(w) \/ WdtFires(w)
             PROVE  WriteInv'
  BY DEF Bmc
<1> USE Consts DEF WriteInv, SocOK, OwnOK, StoppedOK, FreezeOK, WindowsOK, WriteEndOK,
      WritePath, ResetLabels, W!FlashOps, W!Partial, Wdt, OK, cmdVars, W!fwVars
<1>1. CASE BmcArms(w)
  BY <1>1 DEF BmcArms
<1>2. CASE WdtFires(w)
  BY <1>2 DEF WdtFires
<1>3. QED
  BY <1>1, <1>2

-----------------------------------------------------------------------------
(***************************************************************************)
(* The reset.                                                              *)
(***************************************************************************)
\* A step of the reset command keeps the invariant.
LEMMA ResetStep == ResetInv /\ R!Step /\ UNCHANGED fwVars => ResetInv'
<1> SUFFICES ASSUME ResetInv, R!Step, UNCHANGED fwVars PROVE ResetInv'
  OBVIOUS
<1>0. FirmwareRests'
  BY DEF ResetInv, FirmwareRests, fwVars
<1> USE Consts DEF ResetInv, SocOK, OwnOK, ResetEndOK, R!ResetKeepsCpu, R!ResetDone,
      ResetPath, ResetLabels, Wdt, OK, R!OK, R!EIO, R!ENODEV,
      R!Goto, R!Fail, R!hwVars, R!histVars
<1>1. CASE R!Probe
  BY <1>0, <1>1 DEF R!Probe, R!Quiet
<1>2. CASE R!GetDrivers
  BY <1>0, <1>2 DEF R!GetDrivers, R!Quiet
<1>3. CASE R!Gate
  BY <1>0, <1>3 DEF R!Gate, R!clk_disable
<1>4. CASE R!Prevent
  <2>1. SocOK'
    <3>1. (wdtOn \in [Wdt -> BOOLEAN])'
      BY <1>4 DEF R!Prevent, R!wdt_prevent_reset
    <3>2. (/\ local \in BOOLEAN /\ wi \in 1 .. Wdts + 1 /\ wdt \in Wdt /\ own \in 0 .. Wdts
           /\ resets \in Nat)'
      BY <1>4 DEF R!Prevent, R!wdt_prevent_reset
    <3>3. QED
      BY ONLY <3>1, <3>2 DEF SocOK
  <2>2. (pc \in ResetPath => rc = OK)'
    BY <1>4 DEF R!Prevent, R!wdt_prevent_reset
  <2>3. OwnOK'
    BY <1>4 DEF R!Prevent, R!wdt_prevent_reset
  <2>4. ResetEndOK'
    BY <1>4 DEF R!Prevent, R!wdt_prevent_reset
  <2>5. QED
    BY ONLY <2>1, <2>2, <2>3, <2>4, <1>0 DEF ResetInv
<1>5. CASE R!Ungate
  BY <1>0, <1>5 DEF R!Ungate, R!clk_enable_logged
<1>6. CASE R!Reset
  <2>1. CASE R!ResetStop("ungate")
    <3>1. SocOK'
      <4>1. (wdtOn \in [Wdt -> BOOLEAN])'
        BY <2>1 DEF R!ResetStop
      <4>2. (/\ local \in BOOLEAN /\ wi \in 1 .. Wdts + 1 /\ wdt \in Wdt /\ own \in 0 .. Wdts
             /\ resets \in Nat)'
        BY <2>1 DEF R!ResetStop
      <4>3. QED
        BY ONLY <4>1, <4>2 DEF SocOK
    <3>2. (pc \in ResetPath => rc = OK)'
      BY <2>1 DEF R!ResetStop
    <3>3. OwnOK'
      BY <2>1 DEF R!ResetStop
    <3>4. ResetEndOK'
      BY <2>1 DEF R!ResetStop
    <3>5. QED
      BY ONLY <3>1, <3>2, <3>3, <3>4, <1>0 DEF ResetInv
  <2>2. CASE R!ResetSetup("ungate")
    BY <1>0, <2>2 DEF R!ResetSetup
  <2>3. CASE R!ResetArm("ungate")
    <3>1. SocOK'
      <4>1. (wdtOn \in [Wdt -> BOOLEAN])'
        BY <2>3 DEF R!ResetArm
      <4>2. (/\ local \in BOOLEAN /\ wi \in 1 .. Wdts + 1 /\ wdt \in Wdt /\ own \in 0 .. Wdts
             /\ resets \in Nat)'
        BY <2>3 DEF R!ResetArm
      <4>3. QED
        BY ONLY <4>1, <4>2 DEF SocOK
    <3>2. (pc \in ResetPath => rc = OK)'
      BY <2>3 DEF R!ResetArm
    <3>3. OwnOK'
      BY <2>3 DEF R!ResetArm
    <3>4. ResetEndOK'
      BY <2>3 DEF R!ResetArm
    <3>5. QED
      BY ONLY <3>1, <3>2, <3>3, <3>4, <1>0 DEF ResetInv
  <2>4. CASE R!ResetRelease("ungate")
    BY <1>0, <2>4 DEF R!ResetRelease
  <2>5. CASE R!ResetSleep
    BY <1>0, <2>5 DEF R!ResetSleep
  <2>6. CASE R!ResetReinit("ungate")
    BY <1>0, <2>6 DEF R!ResetReinit
  <2>7. CASE R!ResetUngate("ungate")
    BY <1>0, <2>7 DEF R!ResetUngate
  <2>8. CASE R!ResetReload("done", "ungate")
    BY <1>0, <2>8 DEF R!ResetReload
  <2>9. QED
    BY <1>6, <2>1, <2>2, <2>3, <2>4, <2>5, <2>6, <2>7, <2>8 DEF R!Reset, R!wdt_perform_reset
<1>7. QED
  BY <1>1, <1>2, <1>3, <1>4, <1>5, <1>6 DEF R!Step

\* So does a step of the BMC, which has no clock from the first watchdog that
\* is stopped to the end of the reset.
LEMMA ResetBmc == ResetInv /\ Bmc /\ UNCHANGED fwVars => ResetInv'
<1> SUFFICES ASSUME ResetInv, UNCHANGED fwVars, NEW w \in Wdt, BmcArms(w) \/ WdtFires(w)
             PROVE  ResetInv'
  BY DEF Bmc
<1>0. FirmwareRests'
  BY DEF ResetInv, FirmwareRests, fwVars
<1> USE Consts DEF ResetInv, SocOK, OwnOK, ResetEndOK, R!ResetKeepsCpu, R!ResetDone,
      ResetPath, ResetLabels, Wdt, OK, R!OK, cmdVars
<1>1. CASE BmcArms(w)
  BY <1>0, <1>1 DEF BmcArms
<1>2. CASE WdtFires(w)
  BY <1>0, <1>2 DEF WdtFires
<1>3. QED
  BY <1>1, <1>2

-----------------------------------------------------------------------------
(***************************************************************************)
(* The sequences of accesses.                                              *)
(***************************************************************************)
\* The elements of a concatenation.
LEMMA Cat ==
  ASSUME NEW T, NEW s \in Seq(T), NEW t \in Seq(T)
  PROVE  /\ s \o t \in Seq(T) /\ Len(s \o t) = Len(s) + Len(t)
         /\ \A k \in 1 .. Len(s) : (s \o t)[k] = s[k]
         /\ \A k \in 1 .. Len(t) : (s \o t)[Len(s) + k] = t[k]
  OBVIOUS

\* The elements of three scripts of four accesses and one more access.
Joined(s, t, u, e) == s \o t \o u \o <<e>>

Fours(T, s, t, u, e) ==
  /\ s \in Seq(T) /\ t \in Seq(T) /\ u \in Seq(T) /\ e \in T
  /\ Len(s) = 4 /\ Len(t) = 4 /\ Len(u) = 4

Elements(v, s, t, u, e) ==
  /\ v[1] = s[1] /\ v[2] = s[2] /\ v[3] = s[3] /\ v[4] = s[4]
  /\ v[5] = t[1] /\ v[6] = t[2] /\ v[7] = t[3] /\ v[8] = t[4]
  /\ v[9] = u[1] /\ v[10] = u[2] /\ v[11] = u[3] /\ v[12] = u[4]
  /\ v[13] = e

\* The thirteen elements of such a concatenation.
LEMMA Cat13 ==
  ASSUME NEW T, NEW s, NEW t, NEW u, NEW e, Fours(T, s, t, u, e)
  PROVE  LET v == Joined(s, t, u, e)
         IN  v \in Seq(T) /\ Len(v) = 13 /\ Elements(v, s, t, u, e)
<1>s. s \in Seq(T) /\ t \in Seq(T) /\ u \in Seq(T) /\ e \in T
  BY DEF Fours
<1>0. Len(s) = 4 /\ Len(t) = 4 /\ Len(u) = 4
  BY DEF Fours
<1> DEFINE a == s \o t  b == a \o u  v == b \o <<e>>
<1>1. /\ a \in Seq(T) /\ Len(a) = Len(s) + Len(t)
      /\ \A k \in 1 .. Len(s) : a[k] = s[k]
      /\ \A k \in 1 .. Len(t) : a[Len(s) + k] = t[k]
  BY ONLY Cat, <1>s
<1> HIDE DEF a
<1>2. /\ b \in Seq(T) /\ Len(b) = Len(a) + Len(u)
      /\ \A k \in 1 .. Len(a) : b[k] = a[k]
      /\ \A k \in 1 .. Len(u) : b[Len(a) + k] = u[k]
  <2>1. a \in Seq(T)
    BY <1>1
  <2>2. QED
    BY ONLY Cat, <1>s, <2>1 DEF b
<1> HIDE DEF b
<1>3. <<e>> \in Seq(T) /\ Len(<<e>>) = 1 /\ <<e>>[1] = e
  BY <1>s
<1>4. /\ v \in Seq(T) /\ Len(v) = Len(b) + Len(<<e>>)
      /\ \A k \in 1 .. Len(b) : v[k] = b[k]
      /\ \A k \in 1 .. Len(<<e>>) : v[Len(b) + k] = <<e>>[k]
  <2>1. b \in Seq(T) /\ <<e>> \in Seq(T)
    BY <1>2, <1>3
  <2>2. QED
    BY ONLY Cat, <2>1 DEF v
<1> HIDE DEF v
<1>5. Len(a) = 8 /\ Len(b) = 12 /\ Len(v) = 13
  BY ONLY <1>1, <1>2, <1>3, <1>4, <1>0
<1>6. /\ v[1] = s[1] /\ v[2] = s[2] /\ v[3] = s[3] /\ v[4] = s[4]
      /\ v[4 + 1] = t[1] /\ v[4 + 2] = t[2] /\ v[4 + 3] = t[3] /\ v[4 + 4] = t[4]
  BY ONLY <1>1, <1>2, <1>4, <1>5, <1>0
<1>7. v[8 + 1] = u[1] /\ v[8 + 2] = u[2] /\ v[8 + 3] = u[3] /\ v[8 + 4] = u[4]
  BY ONLY <1>2, <1>4, <1>5, <1>0
<1>8. v[12 + 1] = e
  BY ONLY <1>3, <1>4, <1>5
<1>9. QED
  <2>1. Elements(v, s, t, u, e)
    BY ONLY <1>6, <1>7, <1>8 DEF Elements
  <2>2. v = Joined(s, t, u, e)
    BY DEF v, b, a, Joined
  <2>3. QED
    BY ONLY <1>4, <1>5, <2>1, <2>2

\* What is left of a script: its next access and the others.
LEMMA Rest ==
  ASSUME NEW T, NEW s \in Seq(T), NEW p \in 1 .. Len(s)
  PROVE  LET r == SubSeq(s, p, Len(s))
         IN  r # <<>> /\ Head(r) = s[p] /\ Tail(r) = SubSeq(s, p + 1, Len(s))
<1> DEFINE r == SubSeq(s, p, Len(s))
<1>1. Len(r) = Len(s) - p + 1 /\ Len(s) - p + 1 > 0 /\ Len(<<>>) = 0
  OBVIOUS
<1>2. r # <<>>
  <2> HIDE DEF r
  <2> SUFFICES ASSUME r = <<>> PROVE FALSE
    OBVIOUS
  <2>1. QED
    BY <1>1 DEF r
<1>3. Len(s) \in p .. Len(s)
  OBVIOUS
<1>4. QED
  BY <1>2, <1>3, HeadTailOfSubSeq, Zenon

\* The accesses of otp_set_soak(), four for each of the three registers.
Accesses(n) ==
  {<<"ADDR", SoakReg(k)>> : k \in 0 .. 2}
    \union {<<"COMPARE", O!SoakWord(n)>>, <<"COMMAND", "write">>, <<"STATUS">>,
            <<"TIMING", O!SoakWord(n)>>}

\* otp_set_soak() gives the three soak registers and the timing their word.
LEMMA SoakScript ==
  ASSUME NEW n
  PROVE  LET s == O!otp_set_soak(n)
             a(k) == <<"ADDR", SoakReg(k)>>
             c == <<"COMPARE", O!SoakWord(n)>>
             w == <<"COMMAND", "write">>
             st == <<"STATUS">>
         IN  /\ s \in Seq(Accesses(n)) /\ Len(s) = 13
             /\ s[1] = a(0) /\ s[2] = c /\ s[3] = w /\ s[4] = st
             /\ s[5] = a(1) /\ s[6] = c /\ s[7] = w /\ s[8] = st
             /\ s[9] = a(2) /\ s[10] = c /\ s[11] = w /\ s[12] = st
             /\ s[13] = <<"TIMING", O!SoakWord(n)>>
<1> DEFINE v == O!SoakWord(n)
           T == Accesses(n)
           s0 == O!otp_write_reg(SoakReg(0), v)
           s1 == O!otp_write_reg(SoakReg(1), v)
           s2 == O!otp_write_reg(SoakReg(2), v)
           e == <<"TIMING", v>>
<1>1. ASSUME NEW k \in 0 .. 2
      PROVE  LET r == O!otp_write_reg(SoakReg(k), v)
             IN  /\ r \in Seq(T) /\ Len(r) = 4
                 /\ r[1] = <<"ADDR", SoakReg(k)>> /\ r[2] = <<"COMPARE", v>>
                 /\ r[3] = <<"COMMAND", "write">> /\ r[4] = <<"STATUS">>
  <2>1. /\ <<"ADDR", SoakReg(k)>> \in T /\ <<"COMPARE", v>> \in T
        /\ <<"COMMAND", "write">> \in T /\ <<"STATUS">> \in T
    BY DEF Accesses
  <2>2. QED
    BY <2>1 DEF O!otp_write_reg
<1>2. e \in T
  BY DEF Accesses
<1>3. O!otp_set_soak(n) = Joined(s0, s1, s2, e)
  BY DEF O!otp_set_soak, SoakReg, Joined
<1>4. /\ s0 \in Seq(T) /\ Len(s0) = 4 /\ s1 \in Seq(T) /\ Len(s1) = 4
      /\ s2 \in Seq(T) /\ Len(s2) = 4
  BY <1>1
<1>5. /\ s0[1] = <<"ADDR", SoakReg(0)>> /\ s0[2] = <<"COMPARE", v>>
      /\ s0[3] = <<"COMMAND", "write">> /\ s0[4] = <<"STATUS">>
  BY <1>1
<1>6. /\ s1[1] = <<"ADDR", SoakReg(1)>> /\ s1[2] = <<"COMPARE", v>>
      /\ s1[3] = <<"COMMAND", "write">> /\ s1[4] = <<"STATUS">>
  BY <1>1
<1>7. /\ s2[1] = <<"ADDR", SoakReg(2)>> /\ s2[2] = <<"COMPARE", v>>
      /\ s2[3] = <<"COMMAND", "write">> /\ s2[4] = <<"STATUS">>
  BY <1>1
<1> HIDE DEF s0, s1, s2, e, T
<1> DEFINE w == Joined(s0, s1, s2, e)
<1>8. Fours(T, s0, s1, s2, e)
  BY <1>2, <1>4 DEF Fours
<1>9. w \in Seq(T) /\ Len(w) = 13 /\ Elements(w, s0, s1, s2, e)
  BY ONLY <1>8, Cat13
<1> HIDE DEF w
<1>10. QED
  BY <1>3, <1>5, <1>6, <1>7, <1>9 DEF w, e, T, Elements

\* Where otp_set_soak() goes from its p-th access.
LEMMA SoakRest ==
  ASSUME NEW n, NEW p \in 1 .. 13
  PROVE  LET s == O!otp_set_soak(n)
             r == SubSeq(s, p, 13)
         IN  r # <<>> /\ Head(r) = s[p] /\ Tail(r) = SubSeq(s, p + 1, 13)
<1> DEFINE s == O!otp_set_soak(n)  r == SubSeq(s, p, 13)
<1>1. s \in Seq(Accesses(n)) /\ Len(s) = 13 /\ p \in 1 .. Len(s)
  BY SoakScript
<1> HIDE DEF s
<1>2. LET t == SubSeq(s, p, Len(s))
      IN  t # <<>> /\ Head(t) = s[p] /\ Tail(t) = SubSeq(s, p + 1, Len(s))
  BY ONLY <1>1, Rest
<1>3. QED
  BY ONLY <1>1, <1>2 DEF s

\* The script before its first access, and behind its last one.
LEMMA SoakEnds ==
  ASSUME NEW n
  PROVE  /\ SubSeq(O!otp_set_soak(n), 14, 13) = <<>>
         /\ SubSeq(O!otp_set_soak(n), 1, 13) = O!otp_set_soak(n)
  BY SoakScript, SubSeqEmpty, SubSeqFull

-----------------------------------------------------------------------------
(***************************************************************************)
(* A primitive keeps its place, access by access, while the controller     *)
(* completes what it was told in its own time.                             *)
(***************************************************************************)
LEMMA ReadsStep ==
  ASSUME NEW w, Reads(w), key = "open", O!AccessOk, ~collided'
  PROVE  Reads(w)' /\ UNCHANGED <<key, soak>> /\ (busy' = busy \/ busy'[1] = "read")
<1> DEFINE script == O!otp_read_reg(w)
<1>0. collided' = (collided \/ busy # O!Idle) => busy = O!Idle
  OBVIOUS
<1> USE DEF O!otp_read_reg, O!AccessOk, O!Takes, O!Trigger, O!hw, O!Idle, Reads
<1>1. CASE todo = script
  <2>1. Head(todo) = <<"ADDR", w>> /\ Tail(todo) = <<script[2], script[3], script[4]>>
    BY <1>1
  <2>2. QED
    BY <1>0, <2>1
<1>2. CASE todo = <<script[2], script[3], script[4]>> /\ busy = O!Idle /\ addr = w
  <2>1. Head(todo) = <<"COMMAND", "read">> /\ Tail(todo) = <<script[3], script[4]>>
    BY <1>2
  <2>2. QED
    BY <1>2, <2>1
<1>3. CASE todo = <<script[3], script[4]>>
  <2>1. Head(todo) = <<"STATUS">> /\ Tail(todo) = <<script[4]>>
    BY <1>3
  <2>2. QED
    BY <1>3, <2>1
<1>4. CASE todo = <<script[4]>> /\ busy = O!Idle /\ data = words[w]
  <2>1. Head(todo) = <<"DATA">> /\ Tail(todo) = <<>>
    BY <1>4
  <2>2. QED
    BY <1>4, <2>1
<1>5. QED
  BY <1>1, <1>2, <1>3, <1>4

\* A completion in the middle of otp_read_reg().
LEMMA ReadsComplete ==
  ASSUME NEW w, Reads(w), O!Complete
  PROVE  Reads(w)'
  BY DEF Reads, O!Complete, O!otp_read_reg, O!Idle, O!prog, O!hist

\* An access of otp_program() that succeeds.
LEMMA ProgramsStep ==
  ASSUME Programs, key = "open", O!AccessOk, ~collided'
  PROVE  /\ Programs' /\ UNCHANGED <<key, soak>>
         /\ \/ busy' = busy
            \/ busy' = <<"program", target.word, O!Bit \ {target.bit}>>
<1> DEFINE script == O!Program
<1>0. collided' = (collided \/ busy # O!Idle) => busy = O!Idle
  OBVIOUS
<1> USE DEF O!otp_program, O!Program, O!AccessOk, O!Takes, O!Trigger, O!hw, O!Idle, Programs
<1>1. CASE todo = script
  <2>1. Head(todo) = <<"ADDR", target.word>> /\ Tail(todo) = <<script[2], script[3], script[4]>>
    BY <1>1
  <2>2. QED
    BY <1>0, <2>1
<1>2. CASE todo = <<script[2], script[3], script[4]>> /\ busy = O!Idle /\ addr = target.word
  <2>1. /\ Head(todo) = <<"COMPARE", O!Bit \ {target.bit}>>
        /\ Tail(todo) = <<script[3], script[4]>>
    BY <1>2
  <2>2. QED
    BY <1>2, <2>1
<1>3. CASE /\ todo = <<script[3], script[4]>> /\ busy = O!Idle /\ addr = target.word
           /\ data = O!Bit \ {target.bit}
  <2>1. Head(todo) = <<"COMMAND", "program">> /\ Tail(todo) = <<script[4]>>
    BY <1>3
  <2>2. QED
    BY <1>3, <2>1
<1>4. CASE todo = <<script[4]>> /\ busy[1] \in {"idle", "program"}
  <2>1. Head(todo) = <<"STATUS">> /\ Tail(todo) = <<>>
    BY <1>4
  <2>2. QED
    BY <1>4, <2>1
<1>5. QED
  BY <1>1, <1>2, <1>3, <1>4

\* A completion in the middle of otp_program().
LEMMA ProgramsComplete ==
  ASSUME Programs, O!Complete
  PROVE  Programs'
  BY DEF Programs, O!Complete, O!Program, O!otp_program, O!Idle, O!prog, O!hist

\* An access of otp_set_soak() that succeeds.
LEMMA SoaksStep ==
  ASSUME NEW n, Soaks(n), key = "open", O!AccessOk, ~collided',
         DOMAIN soak = O!SoakReg \union {<<"timing", 0>>}
  PROVE  /\ Soaks(n)' /\ key' = key /\ DOMAIN soak' = DOMAIN soak
         /\ busy' = busy \/ busy'[1] = "write"
<1> DEFINE s == O!otp_set_soak(n)
           v == O!SoakWord(n)
<1>1. PICK p \in 1 .. 14 : todo = SubSeq(s, p, 13) /\ SoakAt(n, p)
  BY DEF Soaks
<1>2. p \in 1 .. 13
  BY <1>1, SoakEnds DEF O!AccessOk
<1>3. todo' = SubSeq(s, p + 1, 13) /\ Head(todo) = s[p]
  BY <1>1, <1>2, SoakRest DEF O!AccessOk
<1>4. p + 1 \in 1 .. 14
  BY <1>2
<1>5. SoakAt(n, p + 1)' /\ key' = key /\ DOMAIN soak' = DOMAIN soak
        /\ (busy' = busy \/ busy'[1] = "write")
  <2>0. collided' = (collided \/ busy # O!Idle) => busy = O!Idle
    OBVIOUS
  <2>1. /\ p = 1 => Head(todo) = <<"ADDR", SoakReg(0)>>
        /\ p = 5 => Head(todo) = <<"ADDR", SoakReg(1)>>
        /\ p = 9 => Head(todo) = <<"ADDR", SoakReg(2)>>
    BY <1>3, SoakScript
  <2>2. p \in {2, 6, 10} => Head(todo) = <<"COMPARE", v>>
    BY <1>3, SoakScript
  <2>3. p \in {3, 7, 11} => Head(todo) = <<"COMMAND", "write">>
    BY <1>3, SoakScript
  <2>4. p \in {4, 8, 12} => Head(todo) = <<"STATUS">>
    BY <1>3, SoakScript
  <2>5. p = 13 => Head(todo) = <<"TIMING", v>>
    BY <1>3, SoakScript
  <2> USE DEF O!AccessOk, O!Takes, O!Trigger, O!hw, O!Idle, SoakAt, SoakReg
  <2>6. CASE p = 1
    BY <1>1, <2>0, <2>1, <2>6
  <2>7. CASE p = 2
    BY <1>1, <2>2, <2>7
  <2>8. CASE p = 3
    BY <1>1, <2>3, <2>8
  <2>9. CASE p = 4
    BY <1>1, <2>4, <2>9
  <2>10. CASE p = 5
    BY <1>1, <2>1, <2>10
  <2>11. CASE p = 6
    BY <1>1, <2>2, <2>11
  <2>12. CASE p = 7
    BY <1>1, <2>3, <2>12
  <2>13. CASE p = 8
    BY <1>1, <2>4, <2>13
  <2>14. CASE p = 9
    BY <1>1, <2>1, <2>14
  <2>15. CASE p = 10
    BY <1>1, <2>2, <2>15
  <2>16. CASE p = 11
    BY <1>1, <2>3, <2>16
  <2>17. CASE p = 12
    BY <1>1, <2>4, <2>17
  <2>18. CASE p = 13
    <3>1. <<"timing", 0>> \in DOMAIN soak /\ \A k \in 0 .. 2 : SoakReg(k) # <<"timing", 0>>
      OBVIOUS
    <3>2. soak' = [soak EXCEPT ![<<"timing", 0>>] = v] /\ busy = O!Idle /\ busy' = busy
      BY <2>0, <2>5, <2>18, <1>1
    <3>3. soak'[<<"timing", 0>>] = v /\ \A k \in 0 .. 2 : soak'[SoakReg(k)] = soak[SoakReg(k)]
      BY ONLY <3>1, <3>2 
    <3>4. key' = key /\ DOMAIN soak' = DOMAIN soak
      BY <2>5, <2>18, <3>2
    <3>5. \A k \in 0 .. 2 : soak[SoakReg(k)] = v
      BY <1>1, <2>18
    <3>6. SoakAt(n, 14)'
      BY ONLY <3>2, <3>3, <3>5 DEF SoakAt, SoakReg, O!Idle
    <3>7. QED
      BY <2>18, <3>2, <3>4, <3>6
  <2>19. QED
    BY <1>2, <2>6, <2>7, <2>8, <2>9, <2>10, <2>11, <2>12, <2>13, <2>14, <2>15, <2>16, <2>17,
       <2>18
<1>6. QED
  BY <1>3, <1>4, <1>5 DEF Soaks

\* A completion in the middle of otp_set_soak().
LEMMA SoaksComplete ==
  ASSUME NEW n, Soaks(n), O!Complete,
         DOMAIN soak = O!SoakReg \union {<<"timing", 0>>}
  PROVE  Soaks(n)'
<1>1. PICK p \in 1 .. 14 : todo = SubSeq(O!otp_set_soak(n), p, 13) /\ SoakAt(n, p)
  BY DEF Soaks
<1>2. SoakAt(n, p)'
  <2> USE DEF SoakAt, SoakReg, O!Complete, O!Idle
  <2>1. \A k \in 0 .. 2 : SoakReg(k) \in DOMAIN soak
    BY DEF O!SoakReg
  <2>2. CASE p = 1
    BY <1>1, <2>2
  <2>3. CASE p = 4
    BY <1>1, <2>1, <2>3
  <2>4. CASE p = 8
    BY <1>1, <2>1, <2>4
  <2>5. CASE p = 12
    BY <1>1, <2>1, <2>5
  <2>6. QED
    BY <1>1, <2>2, <2>3, <2>4, <2>5
<1>3. QED
  BY <1>1, <1>2 DEF Soaks, O!Complete

-----------------------------------------------------------------------------
(***************************************************************************)
(* The accesses of the primitives.                                         *)
(***************************************************************************)
\* What the next access of a primitive can be.
LEMMA ReadsHead ==
  ASSUME NEW w, Reads(w), todo # <<>>
  PROVE  Head(todo) \in {<<"ADDR", w>>, <<"COMMAND", "read">>, <<"STATUS">>, <<"DATA">>}
  BY DEF Reads, O!otp_read_reg

\* What otp_program() accesses next.
LEMMA ProgramsHead ==
  ASSUME Programs, todo # <<>>
  PROVE  \/ Head(todo) \in {<<"ADDR", target.word>>, <<"COMPARE", O!Bit \ {target.bit}>>,
                            <<"STATUS">>}
         \/ Head(todo) = <<"COMMAND", "program">> /\ addr = target.word
              /\ data = O!Bit \ {target.bit}
  BY DEF Programs, O!Program, O!otp_program

\* What otp_set_soak() accesses next.
LEMMA SoaksHead ==
  ASSUME NEW n, Soaks(n), todo # <<>>
  PROVE  Head(todo) \in Accesses(n)
<1>1. PICK p \in 1 .. 14 : todo = SubSeq(O!otp_set_soak(n), p, 13) /\ SoakAt(n, p)
  BY DEF Soaks
<1>2. p \in 1 .. 13
  BY <1>1, SoakEnds
<1>3. Head(todo) = O!otp_set_soak(n)[p]
  BY <1>1, <1>2, SoakRest
<1>4. O!otp_set_soak(n) \in Seq(Accesses(n))
  BY SoakScript
<1>5. p \in 1 .. Len(O!otp_set_soak(n))
  BY <1>2, SoakScript
<1>6. QED
  BY ONLY <1>3, <1>4, <1>5

\* What a primitive has done when it is through.
LEMMA ReadsDone ==
  ASSUME NEW w, Reads(w), todo = <<>>
  PROVE  busy = O!Idle /\ got = words[w]
  BY DEF Reads, O!otp_read_reg

\* At the end of otp_program() the controller is idle.
LEMMA ProgramsDone ==
  ASSUME Programs, todo = <<>>
  PROVE  busy = O!Idle
  BY DEF Programs, O!Program, O!otp_program

\* At the end of otp_set_soak() all its registers hold their word.
LEMMA SoaksDone ==
  ASSUME NEW n, Soaks(n), todo = <<>>
  PROVE  /\ busy = O!Idle /\ soak[<<"timing", 0>>] = O!SoakWord(n)
         /\ \A k \in 0 .. 2 : soak[SoakReg(k)] = O!SoakWord(n)
<1>1. PICK p \in 1 .. 14 : todo = SubSeq(O!otp_set_soak(n), p, 13) /\ SoakAt(n, p)
  BY DEF Soaks
<1>2. p = 14
  <2>1. p \notin 1 .. 13
    BY <1>1, SoakRest
  <2>2. QED
    BY <2>1
<1>3. QED
  BY <1>1, <1>2 DEF SoakAt

\* A primitive begins with its whole script.
LEMMA SoaksStart ==
  ASSUME NEW n, todo' = O!otp_set_soak(n)
  PROVE  Soaks(n)'
<1>1. todo' = SubSeq(O!otp_set_soak(n), 1, 13)
  BY SoakEnds
<1>2. SoakAt(n, 1)'
  BY DEF SoakAt
<1>3. QED
  BY <1>1, <1>2 DEF Soaks

-----------------------------------------------------------------------------
(***************************************************************************)
(* The value of a strap.                                                   *)
(***************************************************************************)
\* The constants of the OTP memory.
LEMMA OtpConsts ==
  /\ Confs \in Nat \ {0} /\ Options \in Nat \ {0} /\ BitLen \in Nat \ {0} /\ Tries \in Nat \ {0}
  /\ Chips \subseteq [O!Word -> SUBSET O!Bit]
  BY CommandsAssumption DEF CommandsAssumption, O!OtpAssumption

\* The burnt options can be counted.
LEMMA BurntFinite ==
  ASSUME NEW b, NEW n \in Nat
  PROVE  IsFiniteSet(Burnt(b, n)) /\ Cardinality(Burnt(b, n)) \in Nat
<1>1. IsFiniteSet(1 .. n)
  BY FS_Interval
<1>2. Burnt(b, n) \subseteq 1 .. n
  BY DEF Burnt
<1>3. QED
  BY <1>1, <1>2, FS_Subset, FS_CardinalityType

\* One more option is one more turn of the strap if its bit is set.
LEMMA BurntNext ==
  ASSUME NEW b, NEW n \in Nat
  PROVE  LET c == Cardinality(Burnt(b, n))
         IN  Cardinality(Burnt(b, n + 1)) =
               IF b \in words[O!Option(n + 1)] THEN c + 1 ELSE c
<1>1. CASE b \in words[O!Option(n + 1)]
  <2>1. Burnt(b, n + 1) = Burnt(b, n) \union {n + 1} /\ n + 1 \notin Burnt(b, n)
    BY <1>1 DEF Burnt
  <2>2. QED
    BY <1>1, <2>1, BurntFinite, FS_AddElement
<1>2. CASE b \notin words[O!Option(n + 1)]
  <2>1. Burnt(b, n + 1) = Burnt(b, n)
    BY <1>2 DEF Burnt
  <2>2. QED
    BY <1>2, <2>1
<1>3. QED
  BY <1>1, <1>2

\* The exclusive or of one more bit.
LEMMA Parity ==
  ASSUME NEW c \in Nat
  PROVE  c % 2 \in {0, 1} /\ (c + 1) % 2 = 1 - (c % 2)
  OBVIOUS

\* The cardinality that the OTP module counts with.
LEMMA Counts == ASSUME NEW S PROVE O!Cardinality(S) = Cardinality(S)
  BY DEF O!Cardinality, Cardinality

\* A strap turns over when one of its free options is burnt.
LEMMA BurntFlips ==
  ASSUME NEW b, NEW n \in 1 .. Options, b \notin words[O!Option(n)],
         words \in [O!Word -> SUBSET O!Bit],
         words' = [words EXCEPT ![O!Option(n)] = @ \union {b}]
  PROVE  O!Strap(b)' = 1 - O!Strap(b) /\ O!Strap(b) \in {0, 1}
<1>1. \A k \in 1 .. Options : O!Option(k) \in O!Word
  BY DEF O!Word
<1>2. \A k \in 1 .. Options : b \in words'[O!Option(k)] <=> (k = n \/ b \in words[O!Option(k)])
  BY <1>1 DEF O!Option
<1>3. Burnt(b, Options)' = Burnt(b, Options) \union {n} /\ n \notin Burnt(b, Options)
  BY <1>2 DEF Burnt
<1>4. O!Strap(b) = Cardinality(Burnt(b, Options)) % 2
  BY Counts DEF O!Strap, Burnt
<1>4b. O!Strap(b)' = Cardinality(Burnt(b, Options)') % 2
  BY Counts DEF O!Strap, Burnt
<1>5. Cardinality(Burnt(b, Options)') = Cardinality(Burnt(b, Options)) + 1
  BY <1>3, BurntFinite, OtpConsts, FS_AddElement
<1>6. QED
  BY <1>4, <1>4b, <1>5, BurntFinite, OtpConsts, Parity

-----------------------------------------------------------------------------
(***************************************************************************)
(* The steps of the OTP command.                                           *)
(***************************************************************************)
OtpFacts == ScriptOK /\ KeyOK /\ StrapOK /\ TargetOK /\ TakesOK

\* A strap changes only with the memory.
LEMMA StrapSame ==
  ASSUME UNCHANGED words, NEW b
  PROVE  (O!Strap(b)' = O!Strap(b)) /\ \A c, n : Burnt(c, n)' = Burnt(c, n)
  BY Counts DEF O!Strap, Burnt

\* Nothing but where the controller is changes in the checks and in what they
\* have found.
LEMMA StillTarget ==
  ASSUME TargetOK, UNCHANGED <<words, target>>, tries' \in Nat,
         \/ busy' = busy \/ busy' = O!Idle \/ busy'[1] \in {"read", "write"}
         \/ busy' = <<"program", target.word, O!Bit \ {target.bit}>>
  PROVE  TargetOK'
<1>1. O!Strap(target.bit)' = O!Strap(target.bit)
  <2>1. PICK b : b = target.bit
    OBVIOUS
  <2>2. target'.bit = b
    BY <2>1
  <2>3. O!Strap(b)' = O!Strap(b)
    BY StrapSame
  <2>4. QED
    BY <2>1, <2>2, <2>3, Counts DEF O!Strap
<1>2. QED
  BY <1>1 DEF TargetOK, O!Idle

\* The tests of otp_write_strap() look at nothing but the memory and its own
\* variables.
LEMMA StillStrap ==
  ASSUME StrapOK, UNCHANGED <<pc, req, i, res, f, tries, words>>
  PROVE  StrapOK'
  BY StrapSame DEF StrapOK, ReqOK

\* An access that succeeds.
LEMMA AccessKeeps == OtpInv /\ O!AccessOk => OtpInv'
<1> SUFFICES ASSUME OtpFacts, O!AccessOk, ~collided, ~collided'
             PROVE  OtpFacts'
  BY DEF OtpInv, OtpFacts, O!AccessOk
<1>1. /\ todo # <<>> /\ todo' = Tail(todo)
      /\ UNCHANGED <<pc, rc, req, i, res, f, target, tries, words, lost>>
  BY DEF O!AccessOk
<1>2. StrapOK'
  BY <1>1, StillStrap DEF OtpFacts
<1>3. TakesOK'
  BY <1>1 DEF OtpFacts, TakesOK
<1>4. tries' \in Nat
  BY <1>1 DEF OtpFacts, TargetOK
<1>5. CASE pc \in {"unlocked", "locked"}
  <2>1. /\ Head(todo)[1] = "KEY" /\ todo' = <<>> /\ Head(todo)[2] \in {"open", "locked"}
        /\ pc = "unlocked" => Head(todo)[2] = "open"
        /\ pc = "locked" => Head(todo)[2] = "locked"
    BY <1>1, <1>5 DEF OtpFacts, ScriptOK
  <2>2. key' = Head(todo)[2] /\ UNCHANGED <<soak, busy>>
    BY <2>1 DEF O!AccessOk, O!Takes
  <2>3. TargetOK'
    BY <1>1, <1>4, <2>2, StillTarget DEF OtpFacts
  <2>4. ScriptOK'
    BY <1>1, <1>5, <2>1 DEF ScriptOK
  <2>5. KeyOK'
    BY <1>1, <1>5, <2>1, <2>2 DEF OtpFacts, KeyOK
  <2>6. QED
    BY <1>2, <1>3, <2>3, <2>4, <2>5 DEF OtpFacts
<1>6. \/ key = "open" /\ DOMAIN soak = O!SoakReg \union {<<"timing", 0>>}
      \/ pc \in {"unlocked", "locked"}
  BY <1>1 DEF OtpFacts, ScriptOK, KeyOK
<1>7. ASSUME NEW w, Reads(w),
             \/ pc = "reading" /\ w \in O!Word
             \/ pc = "conf" /\ w = O!Conf(req.word)
             \/ pc = "protect" /\ w = O!Protect
             \/ pc = "option" /\ w = O!Option(i)
             \/ pc = "verify" /\ w = target.word
      PROVE  OtpFacts'
  <2>1. Reads(w)' /\ UNCHANGED <<key, soak>> /\ (busy' = busy \/ busy'[1] = "read")
    BY <1>6, <1>7, ReadsStep
  <2>2. TargetOK'
    BY <1>1, <1>4, <2>1, StillTarget DEF OtpFacts
  <2>3. ScriptOK'
    BY <1>1, <1>7, <2>1 DEF OtpFacts, ScriptOK, O!Conf, O!Option
  <2>4. KeyOK'
    BY <1>1, <1>7, <2>1 DEF OtpFacts, KeyOK
  <2>5. QED
    BY <1>2, <1>3, <2>2, <2>3, <2>4 DEF OtpFacts
<1>8. CASE pc \in {"programmed", "reprogrammed"}
  <2>1. /\ Programs' /\ UNCHANGED <<key, soak>>
        /\ \/ busy' = busy
           \/ busy' = <<"program", target.word, O!Bit \ {target.bit}>>
    BY <1>6, <1>8, ProgramsStep DEF OtpFacts, ScriptOK
  <2>2. TargetOK'
    BY <1>1, <1>4, <2>1, StillTarget DEF OtpFacts
  <2>3. ScriptOK'
    BY <1>1, <1>8, <2>1 DEF ScriptOK
  <2>4. KeyOK'
    BY <1>1, <1>8, <2>1 DEF OtpFacts, KeyOK
  <2>5. QED
    BY <1>2, <1>3, <2>2, <2>3, <2>4 DEF OtpFacts
<1>9. ASSUME NEW n, Soaks(n),
             \/ pc = "soaked" /\ n = 1
             \/ pc = "resoaked" /\ n \in {1, 2}
             \/ pc = "undone" /\ n = 0
      PROVE  OtpFacts'
  <2>1. /\ Soaks(n)' /\ key' = key /\ DOMAIN soak' = DOMAIN soak
        /\ busy' = busy \/ busy'[1] = "write"
    BY <1>6, <1>9, SoaksStep
  <2>2. TargetOK'
    BY <1>1, <1>4, <2>1, StillTarget DEF OtpFacts
  <2>3. ScriptOK'
    BY <1>1, <1>9, <2>1 DEF ScriptOK
  <2>4. KeyOK'
    BY <1>1, <1>9, <2>1 DEF OtpFacts, KeyOK
  <2>5. QED
    BY <1>2, <1>3, <2>2, <2>3, <2>4 DEF OtpFacts
<1>10. QED
  BY <1>1, <1>5, <1>7, <1>8, <1>9 DEF OtpFacts, ScriptOK

\* An access that fails: the controller may have taken it all the same, and the
\* caller goes to its clean-up.
LEMMA FailKeeps == OtpInv /\ O!AccessFails => OtpInv'
<1> SUFFICES ASSUME OtpFacts, O!AccessFails, ~collided, ~collided'
             PROVE  OtpFacts'
  BY DEF OtpInv, OtpFacts, O!AccessFails
<1>1. /\ todo # <<>> /\ todo' = <<>> /\ pc' = O!OnError(pc)
      /\ UNCHANGED <<req, i, res, f, target, tries, words>>
      /\ lost' = (lost \/ pc \in {"unlocked", "soaked", "undone", "locked"})
      /\ (pc \in {"undone", "locked"} /\ rc' = rc) \/ rc' \in {O!EIO, O!ETIMEDOUT}
      /\ O!Takes(Head(todo)) \/ UNCHANGED <<key, addr, data, soak, busy, collided>>
  BY DEF O!AccessFails, O!prog, O!Ignores
<1>2. /\ pc \in {"unlocked", "locked", "reading", "conf", "protect", "option", "verify",
                 "programmed", "reprogrammed", "soaked", "resoaked", "undone"}
      /\ pc \in {"unlocked", "locked"} => pc' = "idle"
      /\ pc \in {"programmed", "verify", "resoaked", "reprogrammed"} => pc' = "undo_soak"
      /\ pc \in {"reading", "conf", "protect", "option", "soaked", "undone"} => pc' = "done"
  BY <1>1 DEF OtpFacts, ScriptOK, O!OnError
<1>3. StrapOK'
  BY <1>2 DEF StrapOK
<1>4. TakesOK'
  BY <1>1, <1>2 DEF OtpFacts, TakesOK, O!OK, O!EIO, O!ETIMEDOUT, OK
<1>5. ScriptOK'
  BY <1>1, <1>2 DEF ScriptOK
<1>6. tries' \in Nat
  BY <1>1 DEF OtpFacts, TargetOK
<1>7. busy' = busy \/ (busy = O!Idle /\ O!Takes(Head(todo)))
  BY <1>1 DEF O!Takes
<1>8. CASE pc \in {"unlocked", "locked"}
  <2>1. Head(todo)[1] = "KEY"
    BY <1>1, <1>8 DEF OtpFacts, ScriptOK
  <2>2. UNCHANGED <<soak, busy>>
    BY <1>1, <2>1 DEF O!Takes
  <2>3. TargetOK'
    BY <1>1, <1>6, <2>2, StillTarget DEF OtpFacts
  <2>4. KeyOK'
    BY <1>1, <1>2, <1>8, <2>2 DEF OtpFacts, KeyOK
  <2>5. QED
    BY <1>3, <1>4, <1>5, <2>3, <2>4 DEF OtpFacts
<1>9. ASSUME NEW w, Reads(w), pc \in {"reading", "conf", "protect", "option", "verify"}
      PROVE  OtpFacts'
  <2>1. Head(todo)[1] \in {"ADDR", "STATUS", "DATA"} \/ Head(todo) = <<"COMMAND", "read">>
    BY <1>1, <1>9, ReadsHead
  <2>2. UNCHANGED <<key, soak>> /\ (busy' = busy \/ busy'[1] = "read")
    BY <1>1, <2>1 DEF O!Takes, O!Trigger
  <2>3. TargetOK'
    BY <1>1, <1>6, <2>2, StillTarget DEF OtpFacts
  <2>4. KeyOK'
    BY <1>1, <1>2, <1>9, <2>2 DEF OtpFacts, KeyOK
  <2>5. QED
    BY <1>3, <1>4, <1>5, <2>3, <2>4 DEF OtpFacts
<1>10. CASE pc \in {"programmed", "reprogrammed"}
  <2>1. Programs
    BY <1>10 DEF OtpFacts, ScriptOK
  <2>2. \/ Head(todo)[1] \in {"ADDR", "COMPARE", "STATUS"}
        \/ Head(todo) = <<"COMMAND", "program">> /\ addr = target.word
             /\ data = O!Bit \ {target.bit}
    BY <1>1, <2>1, ProgramsHead
  <2>3. /\ UNCHANGED <<key, soak>>
        /\ \/ busy' = busy
           \/ busy' = <<"program", target.word, O!Bit \ {target.bit}>>
    BY <1>1, <2>2 DEF O!Takes, O!Trigger
  <2>4. TargetOK'
    BY <1>1, <1>6, <2>3, StillTarget DEF OtpFacts
  <2>5. KeyOK'
    BY <1>1, <1>2, <1>10, <2>3 DEF OtpFacts, KeyOK
  <2>6. QED
    BY <1>3, <1>4, <1>5, <2>4, <2>5 DEF OtpFacts
<1>11. ASSUME NEW n, Soaks(n), pc \in {"soaked", "resoaked", "undone"}
       PROVE  OtpFacts'
  <2>1. \/ Head(todo)[1] \in {"ADDR", "COMPARE", "STATUS", "TIMING"}
        \/ Head(todo) = <<"COMMAND", "write">>
    BY <1>1, <1>11, SoaksHead DEF Accesses
  <2>2. /\ key' = key /\ DOMAIN soak' = DOMAIN soak
        /\ busy' = busy \/ busy'[1] = "write"
    BY <1>1, <2>1 DEF O!Takes, O!Trigger
  <2>3. TargetOK'
    BY <1>1, <1>6, <2>2, StillTarget DEF OtpFacts
  <2>4. KeyOK'
    BY <1>1, <1>2, <1>11, <2>2 DEF OtpFacts, KeyOK
  <2>5. QED
    BY <1>3, <1>4, <1>5, <2>3, <2>4 DEF OtpFacts
<1>12. QED
  BY <1>2, <1>8, <1>9, <1>10, <1>11 DEF OtpFacts, ScriptOK

\* What a completion can change in the memory is the bit of the target
\* (otp.c, otp_program).
LEMMA BurnsOne ==
  ASSUME OtpFacts, O!Complete, words' # words
  PROVE  /\ target.bit \notin words[target.word]
         /\ words' = [words EXCEPT ![target.word] = @ \union {target.bit}]
<1>1. busy[1] = "program"
  BY DEF O!Complete
<1>2. /\ busy[2] = target.word /\ busy[3] = O!Bit \ {target.bit}
      /\ target.word \in O!Word /\ target.bit \in O!Bit
      /\ words \in [O!Word -> SUBSET O!Bit]
  BY <1>1 DEF OtpFacts, TargetOK
<1>3. PICK burnt \in SUBSET {target.bit} :
        words' = [words EXCEPT ![target.word] = @ \union burnt]
  <2>1. O!Bit \ busy[3] = {target.bit}
    BY <1>2
  <2>2. QED
    BY <1>1, <1>2, <2>1 DEF O!Complete
<1>4. burnt = {target.bit} /\ target.bit \notin words[target.word]
  BY <1>2, <1>3
<1>5. QED
  BY <1>3, <1>4

\* The controller completes a command.
LEMMA CompleteKeeps == OtpInv /\ O!Complete => OtpInv'
<1> SUFFICES ASSUME OtpFacts, O!Complete, ~collided
             PROVE  OtpFacts'
  BY DEF OtpInv, OtpFacts, O!Complete
<1>1. /\ UNCHANGED <<pc, rc, todo, req, got, i, res, f, target, tries, key, addr, lost>>
      /\ busy # O!Idle /\ busy' = O!Idle
      /\ busy[1] \in {"read", "program", "write"}
      /\ busy[1] # "program" => words' = words
      /\ busy[1] # "write" => soak' = soak
      /\ busy[1] = "write" => soak' = [soak EXCEPT ![busy[2]] = busy[3]]
  BY DEF O!Complete, O!prog, O!hist
<1>2. ScriptOK'
  <2>1. ASSUME NEW w, Reads(w) PROVE Reads(w)'
    BY <2>1, ReadsComplete
  <2>2. Programs => Programs'
    BY ProgramsComplete
  <2>3. ASSUME NEW n, Soaks(n) PROVE Soaks(n)'
    BY <2>3, SoaksComplete DEF OtpFacts, KeyOK
  <2>4. pc = "conf" => Reads(O!Conf(req.word))'
    BY <1>1, <2>1 DEF OtpFacts, ScriptOK
  <2>5. pc = "protect" => Reads(O!Protect)'
    BY <1>1, <2>1 DEF OtpFacts, ScriptOK
  <2>6. pc = "option" => Reads(O!Option(i))'
    BY <1>1, <2>1 DEF OtpFacts, ScriptOK
  <2>7. pc = "verify" => Reads(target.word)'
    BY <1>1, <2>1 DEF OtpFacts, ScriptOK
  <2>8. QED
    BY <1>1, <2>1, <2>2, <2>3, <2>4, <2>5, <2>6, <2>7 DEF OtpFacts, ScriptOK
<1>3. KeyOK'
  BY <1>1 DEF OtpFacts, KeyOK, O!Idle
<1>4. CASE words' = words
  <2>1. tries' \in Nat
    BY <1>1 DEF OtpFacts, TargetOK
  <2>2. TargetOK'
    BY <1>1, <1>4, <2>1, StillTarget DEF OtpFacts
  <2>3. StrapOK'
    BY <1>1, <1>4, StillStrap DEF OtpFacts
  <2>4. TakesOK'
    BY <1>1, <1>4 DEF OtpFacts, TakesOK
  <2>5. QED
    BY <1>2, <1>3, <2>2, <2>3, <2>4 DEF OtpFacts
<1>5. CASE words' # words
  <2>1. /\ busy[1] = "program"
        /\ target.word \in O!Word /\ target.bit \in O!Bit
        /\ words \in [O!Word -> SUBSET O!Bit]
    BY <1>1, <1>5 DEF OtpFacts, TargetOK
  <2>2. /\ target.bit \notin words[target.word]
        /\ words' = [words EXCEPT ![target.word] = @ \union {target.bit}]
    BY <1>5, BurnsOne
  <2>3. target.bit \notin words[target.word]
    BY <2>2
  <2>4. words' = [words EXCEPT ![target.word] = @ \union {target.bit}]
    BY <2>2
  <2>5. StrapOK'
    <3>1. pc \notin {"option"}
      BY <2>1 DEF OtpFacts, KeyOK
    <3>2. QED
      BY <1>1, <3>1 DEF OtpFacts, StrapOK, ReqOK
  <2>6. TakesOK'
    BY <1>1, <2>1, <2>4 DEF OtpFacts, TakesOK
  <2>7. TargetOK'
    <3>1. words' \in [O!Word -> SUBSET O!Bit]
      BY <2>1, <2>4
    <3>2. target.bit \in words'[target.word]
      BY <2>1, <2>4
    <3>3. ASSUME target.word[1] = "option"
          PROVE  /\ target.bit \notin words'[O!Protect]
                 /\ \A n \in 1 .. target.word[2] - 1 : target.bit \in words'[O!Option(n)]
                 /\ O!Strap(target.bit)' = target.val
      <4>1. PICK n \in 1 .. Options : target.word = O!Option(n)
        BY <2>1, <3>3 DEF O!Word, O!Conf, O!Protect, O!Option
      <4>2. PICK b : b = target.bit
        OBVIOUS
      <4>3. /\ b \notin words[O!Protect] /\ O!Strap(b) # target.val /\ target.val \in {0, 1}
            /\ \A k \in 1 .. target.word[2] - 1 : b \in words[O!Option(k)]
        BY <2>3, <3>3, <4>2 DEF OtpFacts, TargetOK
      <4>4. O!Strap(b)' = 1 - O!Strap(b) /\ O!Strap(b) \in {0, 1}
        BY <2>1, <2>3, <2>4, <4>1, <4>2, BurntFlips
      <4>5. O!Strap(target.bit)' = O!Strap(b)'
        BY <1>1, <4>2, Counts DEF O!Strap
      <4>6. \A w \in O!Word : words[w] \subseteq words'[w] /\ (w # target.word => words'[w] = words[w])
        BY <2>1, <2>4
      <4>7. O!Protect \in O!Word /\ O!Protect # target.word
        BY <4>1 DEF O!Word, O!Protect, O!Option
      <4>8. \A k \in 1 .. target.word[2] - 1 : O!Option(k) \in O!Word
        <5>1. target.word[2] = n
          BY <4>1 DEF O!Option
        <5>2. QED
          BY <5>1, OtpConsts DEF O!Word, O!Option
      <4>9. QED
        BY <4>2, <4>3, <4>4, <4>5, <4>6, <4>7, <4>8
    <3>4. QED
      BY <1>1, <2>1, <3>1, <3>2, <3>3 DEF OtpFacts, TargetOK, O!Idle
  <2>8. QED
    BY <1>2, <1>3, <2>5, <2>6, <2>7 DEF OtpFacts
<1>6. QED
  BY <1>4, <1>5

\* A call: the key is taken first.
LEMMA CallKeeps ==
  ASSUME NEW r \in O!Requests, OtpInv, O!Call(r) \/ O!NoDriver(r)
  PROVE  OtpInv'
<1> SUFFICES ASSUME OtpFacts PROVE OtpFacts'
  BY DEF OtpInv, OtpFacts, O!Call, O!NoDriver, O!Open
<1>1. /\ pc = "idle" /\ ~lost /\ req' = r /\ tries' = 0
      /\ UNCHANGED <<i, res, f, target, key, addr, data, soak, busy, words, lost>>
  BY DEF O!Call, O!NoDriver, O!Open, O!hw
<1>2. \/ pc' = pc /\ todo' = todo /\ rc' \in {O!EINVAL, O!EXIT_FAILURE}
      \/ ~O!BadArgs(r) /\ pc' = "unlocked" /\ todo' = << <<"KEY", "open">> >>
  BY DEF O!Call, O!NoDriver, O!Run
<1>3. ScriptOK'
  BY <1>1, <1>2 DEF OtpFacts, ScriptOK
<1>4. KeyOK'
  BY <1>1, <1>2 DEF OtpFacts, KeyOK
<1>5. StrapOK'
  <2>1. ~O!BadArgs(r) => ReqOK'
    <3>1. CASE r \in {[fn |-> n] : n \in {"read_conf", "read_strap"}}
      BY <1>1, <3>1 DEF ReqOK
    <3>2. CASE r \in {[fn |-> "write_conf", word |-> w, bit |-> b] : w \in 0 .. Confs, b \in 0 .. BitLen}
      BY <1>1, <3>2, OtpConsts DEF ReqOK, O!BadArgs, O!Bit
    <3>3. CASE r \in {[fn |-> "write_strap", bit |-> b, val |-> v] : b \in 0 .. BitLen, v \in 0 .. 2}
      BY <1>1, <3>3, OtpConsts DEF ReqOK, O!BadArgs, O!Bit
    <3>4. QED
      BY <3>1, <3>2, <3>3 DEF O!Requests
  <2>2. QED
    BY <1>1, <1>2, <2>1 DEF StrapOK
<1>6. TargetOK'
  BY <1>1, StillTarget DEF OtpFacts
<1>7. TakesOK'
  BY <1>1, <1>2 DEF TakesOK, OK, O!EINVAL, O!EXIT_FAILURE
<1>8. QED
  BY <1>3, <1>4, <1>5, <1>6, <1>7 DEF OtpFacts

\* The steps of the caller leave the controller alone.
LEMMA Quietly ==
  ASSUME NEW p, O!At(p)
  PROVE  /\ pc = p /\ todo = <<>> /\ ~collided /\ ~collided'
         /\ UNCHANGED <<key, addr, data, soak, busy, words, lost>>
  BY DEF O!At, O!hw

\* Reading, up to the return of the function.
LEMMA ReadKeeps == OtpInv /\ (O!Read \/ O!ReadNext) => OtpInv'
<1> SUFFICES ASSUME OtpFacts, O!Read \/ O!ReadNext PROVE OtpFacts'
  BY Quietly DEF OtpInv, OtpFacts, O!Read, O!ReadNext
<1>1. /\ todo = <<>> /\ UNCHANGED <<rc, req, target, tries, key, soak, busy, words, lost>>
      /\ pc \in {"unlocked", "reading"} /\ req.fn \notin Write
  BY Quietly DEF O!Read, O!ReadNext, OtpFacts, ScriptOK, Write
<1>2. \/ pc' = "reading" /\ \E w \in O!Word : todo' = O!otp_read_reg(w)
      \/ pc' = "done" /\ todo' = <<>>
  <2>1. CASE O!Read
    BY <2>1, OtpConsts DEF O!Read, O!Run, O!Word, O!Conf, O!Protect
  <2>2. CASE O!ReadNext
    <3>1. i \in Nat \ {0}
      BY <1>1, <2>2 DEF OtpFacts, StrapOK, O!ReadNext, O!At
    <3>2. i < Confs => O!Conf(i) \in O!Word
      BY <3>1, OtpConsts DEF O!Word
    <3>3. i <= Options => O!Option(i) \in O!Word
      BY <3>1, OtpConsts DEF O!Word
    <3>4. \/ i < Confs /\ pc' = "reading" /\ todo' = O!otp_read_reg(O!Conf(i))
          \/ i <= Options /\ pc' = "reading" /\ todo' = O!otp_read_reg(O!Option(i))
          \/ pc' = "done" /\ todo' = todo
      BY <2>2 DEF O!ReadNext, O!Run
    <3>5. QED
      BY <1>1, <3>2, <3>3, <3>4
  <2>3. QED
    BY <2>1, <2>2
<1>3. ScriptOK'
  BY <1>1, <1>2, Quietly DEF ScriptOK, Reads
<1>4. KeyOK'
  BY <1>1, <1>2 DEF OtpFacts, KeyOK
<1>5. StrapOK'
  <2>1. pc' = "reading" => i' \in Nat \ {0}
    BY <1>1 DEF OtpFacts, StrapOK, O!Read, O!ReadNext, O!At
  <2>2. QED
    BY <1>1, <1>2, <2>1 DEF StrapOK
<1>6. TargetOK'
  BY <1>1, StillTarget DEF OtpFacts, TargetOK
<1>7. TakesOK'
  BY <1>1, <1>2 DEF TakesOK
<1>8. QED
  BY <1>3, <1>4, <1>5, <1>6, <1>7 DEF OtpFacts

\* otp_write_conf(): the bit is free.
LEMMA ConfKeeps == OtpInv /\ (O!WriteConf \/ O!CheckConf) => OtpInv'
<1> SUFFICES ASSUME OtpFacts, O!WriteConf \/ O!CheckConf PROVE OtpFacts'
  BY Quietly DEF OtpInv, OtpFacts, O!WriteConf, O!CheckConf
<1>1. /\ todo = <<>> /\ pc \in {"unlocked", "conf"}
      /\ UNCHANGED <<req, tries, key, soak, busy, words, lost>>
  BY Quietly DEF O!WriteConf, O!CheckConf, O!prog
<1>2. ReqOK /\ tries = 0 /\ req.fn = "write_conf"
  BY <1>1 DEF OtpFacts, StrapOK, O!WriteConf, O!CheckConf, O!At
<1>3. KeyOK'
  BY <1>1 DEF OtpFacts, KeyOK, O!WriteConf, O!CheckConf, O!Run, O!Refuse
<1>4. CASE O!WriteConf
  <2>1. pc' = "conf" /\ todo' = O!otp_read_reg(O!Conf(req.word)) /\ target' = target
    BY <1>4 DEF O!WriteConf, O!Run, O!prog
  <2>2. ScriptOK'
    BY <1>1, <2>1 DEF ScriptOK, Reads, O!otp_read_reg
  <2>3. StrapOK'
    BY <1>1, <1>2, <2>1 DEF StrapOK, ReqOK
  <2>4. TargetOK'
    BY <1>1, <2>1, StillTarget DEF OtpFacts, TargetOK
  <2>5. TakesOK'
    BY <2>1 DEF TakesOK
  <2>6. QED
    BY <1>3, <2>2, <2>3, <2>4, <2>5 DEF OtpFacts
<1>5. CASE O!CheckConf /\ req.bit \in got
  <2>1. pc' = "done" /\ todo' = <<>> /\ rc' = O!EALREADY /\ target' = target
    BY <1>1, <1>5 DEF O!CheckConf, O!Refuse
  <2>2. ScriptOK'
    BY <2>1 DEF ScriptOK
  <2>3. StrapOK'
    BY <2>1 DEF StrapOK
  <2>4. TargetOK'
    BY <1>1, <2>1, StillTarget DEF OtpFacts, TargetOK
  <2>5. TakesOK'
    BY <2>1 DEF TakesOK, OK, O!EALREADY
  <2>6. QED
    BY <1>3, <2>2, <2>3, <2>4, <2>5 DEF OtpFacts
<1>6. CASE O!CheckConf /\ req.bit \notin got
  <2>1. /\ pc = "conf" /\ pc' = "confirm" /\ todo' = <<>>
        /\ target' = [word |-> O!Conf(req.word), bit |-> req.bit, val |-> 1]
    BY <1>1, <1>6 DEF O!CheckConf, O!At
  <2>2. ScriptOK'
    BY <2>1 DEF ScriptOK
  <2>3. StrapOK'
    BY <1>1, <1>2, <2>1 DEF StrapOK
  <2>4. TargetOK'
    <3>1. busy = O!Idle
      BY <1>1, <2>1, ReadsDone DEF OtpFacts, ScriptOK
    <3>2. req.word \in 0 .. Confs - 1 /\ req.bit \in O!Bit
      BY <1>2 DEF ReqOK
    <3>3. /\ target'.word \in O!Word /\ target'.bit \in O!Bit /\ target'.val \in {0, 1}
          /\ target'.word[1] # "option"
      BY <2>1, <3>2 DEF O!Word, O!Conf
    <3>4. QED
      BY <1>1, <3>1, <3>3 DEF OtpFacts, TargetOK, O!Idle
  <2>5. TakesOK'
    BY <2>1 DEF TakesOK
  <2>6. QED
    BY <1>3, <2>2, <2>3, <2>4, <2>5 DEF OtpFacts
<1>7. QED
  BY <1>4, <1>5, <1>6

\* otp_write_strap(), before its loop: the strap is not protected.
LEMMA ProtectKeeps == OtpInv /\ (O!WriteStrap \/ O!CheckProtect) => OtpInv'
<1> SUFFICES ASSUME OtpFacts, O!WriteStrap \/ O!CheckProtect PROVE OtpFacts'
  BY Quietly DEF OtpInv, OtpFacts, O!WriteStrap, O!CheckProtect
<1>1. /\ todo = <<>> /\ pc \in {"unlocked", "protect"}
      /\ UNCHANGED <<req, tries, target, key, soak, busy, words, lost>>
  BY Quietly DEF O!WriteStrap, O!CheckProtect, O!prog, O!Refuse
<1>2. ReqOK /\ tries = 0 /\ req.fn = "write_strap"
  BY <1>1 DEF OtpFacts, StrapOK, O!WriteStrap, O!CheckProtect, O!At
<1>3. KeyOK'
  BY <1>1 DEF OtpFacts, KeyOK, O!WriteStrap, O!CheckProtect, O!Run, O!Refuse
<1>4. TargetOK'
  BY <1>1, StillTarget DEF OtpFacts, TargetOK
<1>5. CASE O!WriteStrap
  <2>1. pc' = "protect" /\ todo' = O!otp_read_reg(O!Protect)
    BY <1>5 DEF O!WriteStrap, O!Run
  <2>2. ScriptOK'
    BY <1>1, <2>1 DEF ScriptOK, Reads, O!otp_read_reg
  <2>3. StrapOK'
    BY <1>1, <1>2, <2>1 DEF StrapOK, ReqOK
  <2>4. TakesOK'
    BY <2>1 DEF TakesOK
  <2>5. QED
    BY <1>3, <1>4, <2>2, <2>3, <2>4 DEF OtpFacts
<1>6. CASE O!CheckProtect /\ req.bit \in got
  <2>1. pc' = "done" /\ todo' = <<>> /\ rc' = O!EACCES
    BY <1>1, <1>6 DEF O!CheckProtect, O!Refuse
  <2>2. ScriptOK' /\ StrapOK'
    BY <2>1 DEF ScriptOK, StrapOK
  <2>3. TakesOK'
    BY <2>1 DEF TakesOK, OK, O!EACCES
  <2>4. QED
    BY <1>3, <1>4, <2>2, <2>3 DEF OtpFacts
<1>7. CASE O!CheckProtect /\ req.bit \notin got
  <2>1. /\ pc = "protect" /\ pc' = "option" /\ todo' = O!otp_read_reg(O!Option(1))
        /\ i' = 1 /\ res' = 0 /\ f' = 0
    BY <1>1, <1>7 DEF O!CheckProtect, O!At, O!Run
  <2>2. ScriptOK'
    BY <1>1, <2>1 DEF ScriptOK, Reads, O!otp_read_reg
  <2>3. got = words[O!Protect]
    BY <1>1, <2>1, ReadsDone DEF OtpFacts, ScriptOK
  <2>4. StrapOK'
    <3>1. Cardinality(Burnt(req.bit, 0)) = 0
      BY FS_EmptySet DEF Burnt
    <3>2. (Burnt(req.bit, i - 1))' = Burnt(req.bit, 0)
      BY <1>1, <2>1 DEF Burnt
    <3>3. QED
      BY <1>1, <1>2, <1>7, <2>1, <2>3, <3>1, <3>2, OtpConsts DEF StrapOK, ReqOK
  <2>5. TakesOK'
    BY <2>1 DEF TakesOK
  <2>6. QED
    BY <1>3, <1>4, <2>2, <2>4, <2>5 DEF OtpFacts
<1>8. QED
  BY <1>5, <1>6, <1>7

\* otp_write_strap(), its loop: the value of the strap and the first option
\* that is free.
LEMMA OptionKeeps == OtpInv /\ O!CheckOption => OtpInv'
<1> SUFFICES ASSUME OtpFacts, O!CheckOption PROVE OtpFacts'
  BY Quietly DEF OtpInv, OtpFacts, O!CheckOption
<1> DEFINE b == req.bit
<1>1. /\ todo = <<>> /\ pc = "option" /\ ~lost
      /\ UNCHANGED <<req, tries, key, soak, busy, words, lost>>
  BY Quietly DEF O!CheckOption, OtpFacts, KeyOK
<1>2. busy = O!Idle /\ got = words[O!Option(i)]
  BY <1>1, ReadsDone DEF OtpFacts, ScriptOK
<1>3. /\ b \in O!Bit /\ req.val \in {0, 1} /\ tries = 0 /\ req.fn = "write_strap" /\ ReqOK
      /\ i \in 1 .. Options /\ b \notin words[O!Protect]
      /\ res = Cardinality(Burnt(b, i - 1)) % 2
      /\ f \in 0 .. i - 1
      /\ \A n \in 1 .. i - 1 : (f = 0 \/ n < f) => b \in words[O!Option(n)]
      /\ f # 0 => b \notin words[O!Option(f)]
  BY <1>1 DEF OtpFacts, StrapOK, ReqOK
<1>4. /\ res' = IF b \in got THEN 1 - res ELSE res
      /\ f' = IF f = 0 /\ b \notin got THEN i ELSE f
  BY DEF O!CheckOption, O!Xor, O!FirstFree
<1>5. res' = Cardinality(Burnt(b, i)) % 2
  <2>1. i - 1 \in Nat /\ (i - 1) + 1 = i
    BY <1>3
  <2>2. Cardinality(Burnt(b, i - 1)) \in Nat
    BY <2>1, BurntFinite
  <2>3. Cardinality(Burnt(b, i)) =
          IF b \in words[O!Option(i)] THEN Cardinality(Burnt(b, i - 1)) + 1
                                      ELSE Cardinality(Burnt(b, i - 1))
    BY <2>1, BurntNext
  <2> DEFINE c == Cardinality(Burnt(b, i - 1))
  <2> HIDE DEF c
  <2>4. (c + 1) % 2 = 1 - (c % 2)
    BY <2>2, Parity DEF c
  <2>5. QED
    BY ONLY <1>2, <1>3, <1>4, <2>3, <2>4 DEF c
<1>6. /\ f' \in 0 .. i
      /\ \A n \in 1 .. i : (f' = 0 \/ n < f') => b \in words[O!Option(n)]
      /\ f' # 0 => b \notin words[O!Option(f')]
  BY <1>2, <1>3, <1>4
<1>7. KeyOK'
  BY <1>1 DEF OtpFacts, KeyOK, O!CheckOption, O!Run, O!Refuse
<1>8. CASE /\ i < Options /\ i' = i + 1 /\ O!Run(O!otp_read_reg(O!Option(i + 1)), "option")
           /\ UNCHANGED <<rc, target>>
  <2>1. ScriptOK'
    BY <1>1, <1>8 DEF ScriptOK, Reads, O!otp_read_reg, O!Run
  <2>2. TargetOK'
    BY <1>1, <1>8, StillTarget DEF OtpFacts, TargetOK
  <2>3. TakesOK'
    BY <1>8 DEF TakesOK, O!Run
  <2>4. StrapOK'
    <3>1. Burnt(req.bit, i - 1)' = Burnt(b, i)
      BY <1>1, <1>3, <1>8 DEF Burnt
    <3>2. ReqOK'
      BY <1>1, <1>3 DEF ReqOK
    <3>3. pc' = "option" /\ i' = i + 1 /\ i' \in 1 .. Options /\ i' - 1 = i
      BY <1>3, <1>8, OtpConsts DEF O!Run
    <3>4. /\ (b \notin words[O!Protect])'
          /\ res' = Cardinality(Burnt(req.bit, i - 1)') % 2
          /\ f' \in 0 .. i' - 1
      BY <1>1, <1>3, <1>5, <1>6, <3>1, <3>3
    <3>5. /\ \A n \in 1 .. i' - 1 : (f' = 0 \/ n < f') => (b \in words[O!Option(n)])'
          /\ f' # 0 => (b \notin words[O!Option(f)])'
      BY <1>1, <1>6, <3>3
    <3>6. QED
      BY <1>1, <1>3, <3>2, <3>3, <3>4, <3>5 DEF StrapOK
  <2>5. QED
    BY <1>7, <2>1, <2>2, <2>3, <2>4 DEF OtpFacts
<1>9. CASE i = Options /\ \E e \in {O!EPERM, O!EALREADY} : O!Refuse(e)
  <2>1. pc' = "done" /\ todo' = <<>> /\ rc' \in {O!EPERM, O!EALREADY} /\ target' = target
    BY <1>1, <1>9 DEF O!Refuse
  <2>2. ScriptOK' /\ StrapOK'
    BY <2>1 DEF ScriptOK, StrapOK
  <2>3. TargetOK'
    BY <1>1, <2>1, StillTarget DEF OtpFacts, TargetOK
  <2>4. TakesOK'
    BY <2>1 DEF TakesOK, OK, O!EPERM, O!EALREADY
  <2>5. QED
    BY <1>7, <2>2, <2>3, <2>4 DEF OtpFacts
<1>10. CASE /\ i = Options /\ f' # 0 /\ res' # req.val /\ pc' = "confirm"
            /\ target' = [word |-> O!Option(f'), bit |-> req.bit, val |-> req.val]
            /\ UNCHANGED <<rc, todo>>
  <2>1. ScriptOK'
    BY <1>1, <1>10 DEF ScriptOK
  <2>2. StrapOK'
    BY <1>1, <1>3, <1>10 DEF StrapOK
  <2>3. TakesOK'
    BY <1>10 DEF TakesOK
  <2>4. TargetOK'
    <3>1. O!Strap(b) = res'
      BY <1>5, <1>10, Counts DEF O!Strap, Burnt
    <3>2. f' \in 1 .. Options
      BY <1>6, <1>10, OtpConsts
    <3>3. /\ target'.word = O!Option(f') /\ target'.bit = b /\ target'.val = req.val
          /\ target'.word[2] = f' /\ target'.word \in O!Word
      BY <1>10, <3>2 DEF O!Option, O!Word
    <3>4. O!Strap(target.bit)' = O!Strap(b)
      BY <1>1, <3>3, Counts DEF O!Strap
    <3>5. words' \in [O!Word -> SUBSET O!Bit] /\ tries' \in Nat
      BY <1>1 DEF OtpFacts, TargetOK
    <3>6. /\ target'.bit \notin words'[O!Protect]
          /\ \A n \in 1 .. target'.word[2] - 1 : target'.bit \in words'[O!Option(n)]
          /\ target'.bit \notin words'[target'.word]
      BY <1>1, <1>3, <1>6, <3>2, <3>3, OtpConsts
    <3>7. (O!Strap(target.bit) = target.val)' <=> (target.bit \in words[target.word])'
      BY <1>10, <3>1, <3>3, <3>4, <3>6
    <3>8. busy' = O!Idle
      BY <1>1, <1>2
    <3>9. QED
      BY <1>3, <3>3, <3>5, <3>6, <3>7, <3>8 DEF TargetOK, O!Idle
  <2>5. QED
    BY <1>7, <2>1, <2>2, <2>3, <2>4 DEF OtpFacts
<1>11. QED
  BY <1>8, <1>9, <1>10 DEF O!CheckOption

\* The question, and the first raising of the soak.
LEMMA ConfirmKeeps == OtpInv /\ O!Confirm => OtpInv'
<1> SUFFICES ASSUME OtpFacts, O!Confirm PROVE OtpFacts'
  BY Quietly DEF OtpInv, OtpFacts, O!Confirm
<1>1. /\ todo = <<>> /\ pc = "confirm"
      /\ UNCHANGED <<req, tries, target, key, soak, busy, words, lost>>
  BY Quietly DEF O!Confirm, O!prog, O!Refuse
<1>2. \/ pc' = "soaked" /\ todo' = O!otp_set_soak(1)
      \/ pc' = "done" /\ todo' = <<>> /\ rc' \in {O!EINVAL, O!EIO}
  BY <1>1 DEF O!Confirm, O!Run, O!Refuse
<1>3. ScriptOK'
  BY <1>1, <1>2, SoaksStart DEF ScriptOK
<1>4. KeyOK' /\ StrapOK'
  BY <1>1, <1>2 DEF OtpFacts, KeyOK, StrapOK
<1>5. TargetOK'
  BY <1>1, StillTarget DEF OtpFacts, TargetOK
<1>6. TakesOK'
  BY <1>1, <1>2 DEF TakesOK, OK, O!EINVAL, O!EIO
<1>7. QED
  BY <1>3, <1>4, <1>5, <1>6 DEF OtpFacts

\* otp_write(), from one primitive to the next.
LEMMA SoakedKeeps ==
  OtpInv /\ (O!Soaked \/ O!Programmed \/ O!Resoaked \/ O!UndoSoak) => OtpInv'
<1> SUFFICES ASSUME OtpFacts, O!Soaked \/ O!Programmed \/ O!Resoaked \/ O!UndoSoak
             PROVE  OtpFacts'
  BY Quietly DEF OtpInv, OtpFacts, O!Soaked, O!Programmed, O!Resoaked, O!UndoSoak
<1>1. /\ todo = <<>> /\ pc \in {"soaked", "programmed", "resoaked", "undo_soak"}
      /\ UNCHANGED <<rc, req, tries, target, key, soak, busy, words, lost>>
  BY Quietly DEF O!Soaked, O!Programmed, O!Resoaked, O!UndoSoak, O!prog
<1>2. \/ pc' \in {"programmed", "reprogrammed"} /\ todo' = O!Program
      \/ pc' = "verify" /\ todo' = O!otp_read_reg(target.word)
      \/ pc = "undo_soak" /\ pc' = "undone" /\ todo' = O!otp_set_soak(0)
  BY Quietly DEF O!Soaked, O!Programmed, O!Resoaked, O!UndoSoak, O!Run, O!Readback
<1>3. ScriptOK'
  <2>1. CASE pc' \in {"programmed", "reprogrammed"} /\ todo' = O!Program
    <3>1. todo' = O!Program'
      BY <1>1, <2>1 DEF O!Program, O!otp_program
    <3>2. QED
      BY <2>1, <3>1 DEF ScriptOK, Programs
  <2>2. CASE pc' = "verify" /\ todo' = O!otp_read_reg(target.word)
    BY <1>1, <2>2 DEF ScriptOK, Reads, O!otp_read_reg
  <2>3. CASE pc' = "undone" /\ todo' = O!otp_set_soak(0)
    BY <2>3, SoaksStart DEF ScriptOK
  <2>4. QED
    BY <1>2, <2>1, <2>2, <2>3
<1>4. KeyOK' /\ StrapOK'
  BY <1>1, <1>2 DEF OtpFacts, KeyOK, StrapOK
<1>5. TargetOK'
  BY <1>1, StillTarget DEF OtpFacts, TargetOK
<1>6. TakesOK'
  BY <1>1, <1>2 DEF OtpFacts, TakesOK
<1>7. QED
  BY <1>3, <1>4, <1>5, <1>6 DEF OtpFacts

\* The readback: success is claimed for a bit that was seen.
LEMMA VerifyKeeps == OtpInv /\ O!Verify => OtpInv'
<1> SUFFICES ASSUME OtpFacts, O!Verify PROVE OtpFacts'
  BY Quietly DEF OtpInv, OtpFacts, O!Verify
<1>1. /\ todo = <<>> /\ pc = "verify"
      /\ UNCHANGED <<req, tries, target, key, soak, busy, words, lost>>
  BY Quietly DEF O!Verify, O!prog
<1>2. got = words[target.word]
  BY <1>1, ReadsDone DEF OtpFacts, ScriptOK
<1>3. \/ pc' = "undo_soak" /\ todo' = <<>> /\ target.bit \in got
      \/ pc' = "resoaked" /\ \E n \in {1, 2} : todo' = O!otp_set_soak(n)
  BY <1>1 DEF O!Verify, O!Finish, O!Run
<1>4. ScriptOK'
  BY <1>1, <1>3, SoaksStart DEF ScriptOK
<1>5. KeyOK' /\ StrapOK'
  BY <1>1, <1>3 DEF OtpFacts, KeyOK, StrapOK
<1>6. TargetOK'
  BY <1>1, StillTarget DEF OtpFacts, TargetOK
<1>7. TakesOK'
  BY <1>1, <1>2, <1>3 DEF TakesOK
<1>8. QED
  BY <1>4, <1>5, <1>6, <1>7 DEF OtpFacts

\* One more try, or the end of them, which counts as one try too many.
LEMMA ReprogrammedKeeps == OtpInv /\ O!Reprogrammed => OtpInv'
<1> SUFFICES ASSUME OtpFacts, O!Reprogrammed PROVE OtpFacts'
  BY Quietly DEF OtpInv, OtpFacts, O!Reprogrammed
<1>1. /\ todo = <<>> /\ pc = "reprogrammed" /\ tries \in Nat /\ tries' = tries + 1
      /\ UNCHANGED <<req, target, key, soak, busy, words, lost>>
  BY Quietly DEF O!Reprogrammed, OtpFacts, TargetOK
<1>2. \/ pc' = "verify" /\ todo' = O!otp_read_reg(target.word)
      \/ pc' = "undo_soak" /\ todo' = <<>> /\ tries = Tries
  BY <1>1 DEF O!Reprogrammed, O!Finish, O!Run, O!Readback
<1>3. ScriptOK'
  BY <1>1, <1>2 DEF ScriptOK, Reads, O!otp_read_reg
<1>4. KeyOK' /\ StrapOK'
  BY <1>1, <1>2 DEF OtpFacts, KeyOK, StrapOK
<1>5. TargetOK'
  BY <1>1, StillTarget DEF OtpFacts, TargetOK
<1>6. TakesOK'
  BY <1>1, <1>2, OtpConsts DEF TakesOK
<1>7. QED
  BY <1>3, <1>4, <1>5, <1>6 DEF OtpFacts

\* The soak is restored, the key is given back, and the function returns.
LEMMA LockKeeps == OtpInv /\ (O!Lock \/ O!Return) => OtpInv'
<1> SUFFICES ASSUME OtpFacts, O!Lock \/ O!Return PROVE OtpFacts'
  BY Quietly DEF OtpInv, OtpFacts, O!Lock, O!Return
<1>1. /\ todo = <<>> /\ pc \in {"undone", "done", "locked"}
      /\ UNCHANGED <<rc, req, tries, target, key, soak, busy, words, lost>>
      /\ \/ pc = "locked" /\ pc' = "idle" /\ todo' = <<>>
         \/ pc # "locked" /\ pc' = "locked" /\ todo' = << <<"KEY", "locked">> >>
  BY Quietly DEF O!Lock, O!Return, O!prog, O!Run
<1>2. ScriptOK'
  BY <1>1 DEF ScriptOK
<1>3. KeyOK'
  <2>1. CASE pc = "undone"
    <3>1. /\ busy = O!Idle /\ soak[<<"timing", 0>>] = O!SoakWord(0)
          /\ \A k \in 0 .. 2 : soak[SoakReg(k)] = O!SoakWord(0)
      BY <1>1, <2>1, SoaksDone DEF OtpFacts, ScriptOK
    <3>2. \A r \in DOMAIN soak : soak[r] = O!SoakWord(0)
      BY <3>1 DEF OtpFacts, KeyOK, O!SoakReg, SoakReg
    <3>3. QED
      BY <1>1, <2>1, <3>1, <3>2 DEF OtpFacts, KeyOK, O!Idle
  <2>2. CASE pc # "undone"
    BY <1>1, <2>2 DEF OtpFacts, KeyOK
  <2>3. QED
    BY <2>1, <2>2
<1>4. StrapOK'
  BY <1>1 DEF StrapOK
<1>5. TargetOK'
  BY <1>1, StillTarget DEF OtpFacts, TargetOK
<1>6. TakesOK'
  BY <1>1 DEF OtpFacts, TakesOK
<1>7. QED
  BY <1>2, <1>3, <1>4, <1>5, <1>6 DEF OtpFacts

\* A step of the OTP command keeps the invariant.
LEMMA OtpStepKeeps == OtpInv /\ O!Next => OtpInv'
  BY AccessKeeps, FailKeeps, CompleteKeeps, CallKeeps, ReadKeeps, ConfKeeps, ProtectKeeps,
     OptionKeeps, ConfirmKeeps, SoakedKeeps, VerifyKeeps, ReprogrammedKeeps, LockKeeps
     DEF O!Next, O!Function

-----------------------------------------------------------------------------
(***************************************************************************)
(* The invariant of the commands.                                          *)
(***************************************************************************)
\* At the start nothing is gated, stopped, erased, read or burnt.
LEMMA InitIInv == Init => IInv
<1>1. ASSUME cmd = "write", W!Init, O!OtpInit PROVE IInv
  <2>1. SocOK
    BY <1>1, Consts DEF W!Init, W!SocInit, SocOK, W!Wdt, Wdt
  <2>2. (pc \in WritePath => rc = OK) /\ OwnOK /\ StoppedOK /\ FreezeOK /\ WriteEndOK
    BY <1>1, Consts DEF W!Init, W!SocInit, OwnOK, StoppedOK, FreezeOK, WriteEndOK, Wdt,
       W!FlashOps, ResetLabels, W!OK, OK
  <2>3. WindowsOK
    BY <1>1 DEF W!Init, W!SocInit, WindowsOK, W!Partial, WritePath, ResetLabels, W!FlashOps
  <2>4. QED
    BY <1>1, <2>1, <2>2, <2>3 DEF IInv, WriteInv
<1>2. ASSUME cmd = "reset", R!Init, FirmwareRests, O!OtpInit PROVE IInv
  <2>1. SocOK
    BY <1>2, Consts DEF R!Init, R!SocInit, SocOK, R!Wdt, Wdt
  <2>2. (pc \in ResetPath => rc = OK) /\ OwnOK /\ ResetEndOK
    BY <1>2, Consts DEF R!Init, R!SocInit, OwnOK, ResetEndOK, Wdt, ResetLabels, R!OK, OK,
       R!ResetKeepsCpu, R!ResetDone
  <2>3. QED
    BY <1>2, <2>1, <2>2 DEF IInv, ResetInv
<1>3. ASSUME cmd = "otp", O!Init PROVE IInv
  <2>1. ScriptOK /\ StrapOK /\ TakesOK
    BY <1>3 DEF O!Init, O!OtpInit, ScriptOK, StrapOK, TakesOK, Write
  <2>2. KeyOK
    BY <1>3 DEF O!Init, O!OtpInit, KeyOK, O!Idle
  <2>3. TargetOK
    BY <1>3, OtpConsts DEF O!Init, O!OtpInit, TargetOK, O!Idle, O!Word, O!Bit, O!Protect
  <2>4. QED
    BY <1>3, <2>1, <2>2, <2>3 DEF IInv, OtpInv
<1>4. QED
  BY <1>1, <1>2, <1>3 DEF Init

\* Each command keeps its own part and leaves the others' alone.
LEMMA NextIInv == IInv /\ [Next]_vars => IInv'
<1> SUFFICES ASSUME IInv, [Next]_vars PROVE IInv'
  OBVIOUS
<1>1. UNCHANGED otpVars => (O!OtpInit => O!OtpInit')
  BY DEF otpVars, O!OtpInit
<1>2. CASE cmd = "write" /\ W!Step /\ UNCHANGED <<cmd, otpVars>>
  BY <1>1, <1>2, WriteStep DEF IInv
<1>3. CASE cmd = "reset" /\ R!Step /\ UNCHANGED <<cmd, fwVars, otpVars>>
  BY <1>1, <1>3, ResetStep DEF IInv
<1>4. CASE OtpStep
  BY <1>4, OtpStepKeeps DEF IInv, OtpStep, OtpAlone
<1>5. CASE BmcStep
  <2>1. UNCHANGED W!fwVars
    BY <1>5 DEF BmcStep, fwVars, W!fwVars
  <2>2. QED
    BY <1>1, <1>5, <2>1, WriteBmc, ResetBmc DEF IInv, BmcStep
<1>6. CASE UNCHANGED vars
  <2>1. cmd' = cmd /\ UNCHANGED otpVars /\ UNCHANGED fwVars /\ UNCHANGED socVars
    BY <1>6 DEF vars
  <2>2. WriteInv => WriteInv'
    BY <2>1 DEF WriteInv, SocOK, OwnOK, StoppedOK, FreezeOK, WindowsOK, WriteEndOK, W!Partial,
       fwVars, socVars, cmdVars, hwVars, histVars
  <2>3. ResetInv => ResetInv'
    BY <2>1 DEF ResetInv, SocOK, OwnOK, ResetEndOK, FirmwareRests, R!ResetKeepsCpu, R!ResetDone,
       fwVars, socVars, cmdVars, hwVars, histVars
  <2>4. OtpInv => OtpInv'
    <3> SUFFICES ASSUME OtpFacts PROVE OtpFacts'
      BY <2>1 DEF OtpInv, OtpFacts, otpVars
    <3>1. /\ UNCHANGED <<pc, rc, todo, req, got, i, res, f, target, tries, key, addr, data,
                         soak, busy, words, lost>>
      BY <2>1 DEF otpVars, socVars, cmdVars
    <3>2. tries' \in Nat
      BY <3>1 DEF OtpFacts, TargetOK
    <3>3. TargetOK' /\ StrapOK'
      BY <3>1, <3>2, StillTarget, StillStrap DEF OtpFacts
    <3>4. KeyOK' /\ TakesOK'
      BY <3>1 DEF OtpFacts, KeyOK, TakesOK
    <3>5. ScriptOK'
      BY <3>1 DEF OtpFacts, ScriptOK, Reads, Programs, Soaks, SoakAt, O!Program, O!otp_program
    <3>6. QED
      BY <3>3, <3>4, <3>5 DEF OtpFacts
  <2>5. QED
    BY <1>1, <2>1, <2>2, <2>3, <2>4 DEF IInv
<1>7. QED
  BY <1>2, <1>3, <1>4, <1>5, <1>6 DEF Next, Step

\* The inductive invariant holds in every state.
LEMMA Invariant == Spec => []IInv
<1>1. QED
  BY InitIInv, NextIInv, PTL DEF Spec

-----------------------------------------------------------------------------
(***************************************************************************)
(* What the commands promise.                                              *)
(***************************************************************************)
\* A remote culvert touches the flash only while the BMC is frozen, and in a
\* reset a watchdog that was stopped stays so (cmd/write.c, cmd/reset.c).
THEOREM FrozenCorrect == Spec => []FlashFrozen
<1>1. IInv => FlashFrozen
  <2>1. WriteInv => W!FlashFrozen
    BY Consts DEF WriteInv, SocOK, OwnOK, StoppedOK, FreezeOK, W!FlashFrozen, W!FlashOps,
       Wdt, W!Wdt
  <2>2. ResetInv => R!StoppedStaysStopped
    BY DEF ResetInv, ResetEndOK, R!StoppedStaysStopped, ResetLabels, R!ResetLabels, Wdt, R!Wdt
  <2>3. QED
    BY <2>1, <2>2 DEF IInv, FlashFrozen
<1>2. QED
  BY <1>1, Invariant, PTL

\* The BMC has its CPU when a command ends (cmd/write.c, cleanup_state;
\* cmd/reset.c, clk_enable_arm).
THEOREM CpuCorrect == Spec => []KeepsCpu
<1>1. IInv => KeepsCpu
  BY DEF IInv, KeepsCpu, WriteInv, WriteEndOK, W!FailureUngates, W!OK, OK, ResetInv, ResetEndOK
<1>2. QED
  BY <1>1, Invariant, PTL

\* Success means that the SoC has been reset (wdt.c, "Ensure it's clear" and
\* "Allow a little extra time").
THEOREM BootsCorrect == Spec => []SuccessBoots
<1>1. IInv => SuccessBoots
  BY DEF IInv, SuccessBoots, WriteInv, WriteEndOK, W!SuccessBoots, W!OK, OK, ResetInv,
     ResetEndOK
<1>2. QED
  BY <1>1, Invariant, PTL

\* No reset by culvert's doing meets a window that is erased or half written
\* (cmd/write.c, cleanup_state).
THEOREM WindowsCorrect == Spec => ResetOnWholeWindows
<1>1. IInv /\ [Next]_vars => [own # 0 /\ own' = 0 => ~W!Partial]_(W!vars)
  <2> SUFFICES ASSUME IInv, [Next]_vars, own # 0, own' = 0 PROVE ~W!Partial
    OBVIOUS
  <2>1. cmd # "otp"
    BY DEF Next, Step, OtpStep, OtpAlone, BmcStep, vars, socVars, histVars
  <2>2. QED
    BY <2>1 DEF IInv, WriteInv, WindowsOK, ResetInv, FirmwareRests, W!Partial
<1>2. QED
  BY <1>1, Invariant, PTL DEF Spec, ResetOnWholeWindows, W!ResetOnWholeWindows

\* The OTP controller is locked and at its default soak when a function
\* returns (otp.c, undo_soak and done).
THEOREM RelockedCorrect == Spec => []Relocked
<1>1. IInv => Relocked
  BY DEF IInv, Relocked, O!Relocked, OtpInv, KeyOK, O!OtpInit
<1>2. QED
  BY <1>1, Invariant, PTL

\* A write that succeeds has set its bit and given the strap its value (otp.c,
\* the readback).
THEOREM TakesCorrect == Spec => []WriteTakes
<1>1. IInv => WriteTakes
  BY DEF IInv, WriteTakes, O!WriteTakes, O!Written, Write, OtpInv, TakesOK, TargetOK, OK, O!OK,
     O!OtpInit
<1>2. QED
  BY <1>1, Invariant, PTL

\* Only the bit that was checked is burnt, whatever failed before, and of a
\* strap only the first free option (otp.c, otp_write).
THEOREM BurnsCorrect == Spec => BurnsTarget
<1> DEFINE Burns ==
      words' # words /\ ~collided =>
        /\ words' = [words EXCEPT ![target.word] = @ \union {target.bit}]
        /\ target.word[1] = "option" =>
             /\ target.bit \notin words[O!Protect]
             /\ O!Strap(target.bit) # target.val
             /\ \A n \in 1 .. target.word[2] - 1 : target.bit \in words[O!Option(n)]
<1>1. IInv /\ [Next]_vars => [Burns]_(O!vars)
  <2> SUFFICES ASSUME IInv, [Next]_vars, words' # words, ~collided
               PROVE  Burns
    OBVIOUS
  <2>1. OtpFacts /\ O!Next
    <3>1. OtpStep
      BY DEF Next, Step, BmcStep, OtpStep, OtpAlone, vars, otpVars
    <3>2. QED
      BY <3>1 DEF OtpStep, OtpAlone, IInv, OtpInv, OtpFacts
  <2>2. O!Complete
    BY <2>1 DEF O!Next, O!Function, O!AccessOk, O!AccessFails, O!Read, O!ReadNext, O!WriteConf,
       O!CheckConf, O!WriteStrap, O!CheckProtect, O!CheckOption, O!Confirm, O!Soaked,
       O!Programmed, O!Verify, O!Resoaked, O!Reprogrammed, O!UndoSoak, O!Lock, O!Return,
       O!Call, O!NoDriver, O!Open, O!At, O!hw
  <2>3. QED
    BY <2>1, <2>2, BurnsOne DEF OtpFacts, TargetOK
<1>2. QED
  BY <1>1, Invariant, PTL DEF Spec, BurnsTarget, O!BurnsTarget

-----------------------------------------------------------------------------
(***************************************************************************)
(* How a command goes on.                                                  *)
(***************************************************************************)
\* How far each step of the firmware writer and of the reset is from the end,
\* at most.
Distance ==
  [probe |-> 24, get_drivers |-> 23, prevent |-> 21, gate |-> 20, discard |-> 19,
   flash_init |-> 18, erase |-> 17, write |-> 16, read |-> 15, cleanup |-> 14,
   get_wdt2 |-> 13, reset_stop |-> 12, reset_setup |-> 11, reset_arm |-> 10,
   reset_release |-> 9, reset_sleep |-> 8, reset_reinit |-> 7, reset_ungate |-> 6,
   reset_reload |-> 5, undiscard |-> 4, ungate |-> 3, destroy |-> 2,
   done |-> 1, dead |-> 0]

\* A reset gates the clock before it stops the watchdogs, a write after that.
ToGo == IF cmd = "reset" /\ pc = "gate" THEN 22 ELSE Distance[pc]

\* A step that leaves less of the input, or is nearer to the end, or leaves
\* fewer watchdogs to stop.
Advances ==
  \/ left' < left
  \/ left' = left /\ ToGo' < ToGo
  \/ left' = left /\ ToGo' = ToGo /\ wi < wi' /\ wi' <= Wdts + 1

PathOK == cmd # "otp" => pc \in DOMAIN Distance /\ left \in Nat

\* The distances, one by one.
LEMMA Distances ==
  /\ Distance["probe"] = 24 /\ Distance["get_drivers"] = 23 /\ Distance["prevent"] = 21
  /\ Distance["gate"] = 20 /\ Distance["discard"] = 19 /\ Distance["flash_init"] = 18
  /\ Distance["erase"] = 17 /\ Distance["write"] = 16 /\ Distance["read"] = 15
  /\ Distance["cleanup"] = 14 /\ Distance["get_wdt2"] = 13 /\ Distance["reset_stop"] = 12
  /\ Distance["reset_setup"] = 11 /\ Distance["reset_arm"] = 10
  /\ Distance["reset_release"] = 9 /\ Distance["reset_sleep"] = 8
  /\ Distance["reset_reinit"] = 7 /\ Distance["reset_ungate"] = 6
  /\ Distance["reset_reload"] = 5 /\ Distance["undiscard"] = 4 /\ Distance["ungate"] = 3
  /\ Distance["destroy"] = 2 /\ Distance["done"] = 1 /\ Distance["dead"] = 0
  /\ DOMAIN Distance =
       {"probe", "get_drivers", "prevent", "gate", "discard", "flash_init", "erase", "write",
        "read", "cleanup", "get_wdt2", "reset_stop", "reset_setup", "reset_arm",
        "reset_release", "reset_sleep", "reset_reinit", "reset_ungate", "reset_reload",
        "undiscard", "ungate", "destroy", "done", "dead"}
BY DEF Distance

\* A step of the firmware writer.
LEMMA WriteAdvances ==
  ASSUME IInv, PathOK, cmd = "write", cmd' = cmd, W!Step
  PROVE  (Advances \/ W!WriteMiscompare) /\ PathOK'
<1> USE Distances DEF W!Goto, W!Fail
<1>p. left \in Nat /\ wi \in 1 .. Wdts + 1 /\ Wdts \in Nat
  BY Consts DEF IInv, WriteInv, SocOK, PathOK
<1>q. ASSUME left' = left, pc \in DOMAIN Distance, pc' \in DOMAIN Distance,
             Distance[pc'] < Distance[pc]
      PROVE  Advances /\ PathOK'
  BY <1>p, <1>q DEF Advances, PathOK, ToGo
<1>1. CASE W!Probe
  BY <1>1, <1>q DEF W!Probe, W!Quiet, W!fwVars
<1>2. CASE W!Prevent
  <2>1. CASE pc' = "prevent" /\ wi' = wi + 1 /\ wi <= Wdts
    BY <1>p, <1>2, <2>1 DEF W!Prevent, W!wdt_prevent_reset, W!fwVars, Advances, PathOK, ToGo
  <2>2. CASE pc' \in {"gate", "cleanup"}
    BY <1>2, <1>q, <2>2 DEF W!Prevent, W!wdt_prevent_reset, W!fwVars
  <2>3. QED
    BY <1>2, <2>1, <2>2 DEF W!Prevent, W!wdt_prevent_reset
<1>3. CASE W!Gate
  BY <1>3, <1>q DEF W!Gate, W!clk_disable, W!fwVars
<1>4. CASE W!Discard
  <2>1. pc = "discard" /\ pc' \in {"flash_init", "cleanup"} /\ left' = left
    BY ONLY <1>4 DEF W!Discard, W!fwVars, W!Goto, W!Fail
  <2>2. QED
    BY <1>q, <2>1
<1>5. CASE W!flash_init
  BY <1>5, <1>q DEF W!flash_init, W!Quiet, W!fwVars
<1>6. CASE W!Read
  <2>1. ASSUME NEW n \in {1, 2}, n <= left, left' = left - n, pc' \in {"cleanup", "erase"}
        PROVE  Advances /\ PathOK'
    BY <1>p, <2>1 DEF Advances, PathOK
  <2>2. CASE left' = left /\ pc' = "cleanup"
    BY <1>6, <1>q, <2>2 DEF W!Read
  <2>3. QED
    BY <1>6, <2>1, <2>2 DEF W!Read
<1>7. CASE W!Erase
  BY <1>7, <1>q DEF W!Erase
<1>8. CASE W!WriteWindow
  BY <1>8, <1>q DEF W!WriteWindow
<1>9. CASE W!WriteMiscompare
  BY <1>9 DEF W!WriteMiscompare, PathOK
<1>10. CASE W!WriteFails
  BY <1>10, <1>q DEF W!WriteFails
<1>11. CASE W!Cleanup
  BY <1>11, <1>q DEF W!Cleanup, W!Quiet, W!fwVars
<1>12. CASE W!GetWdt2
  BY <1>12, <1>q DEF W!GetWdt2, W!Quiet, W!fwVars
<1>13. CASE W!Reset
  <2>1. left' = left
    BY <1>13 DEF W!Reset, W!fwVars
  <2>2. CASE W!ResetStop("done") \/ W!ResetSetup("done") \/ W!ResetArm("done")
    BY <1>q, <2>1, <2>2 DEF W!ResetStop, W!ResetSetup, W!ResetArm
  <2>3. CASE W!ResetRelease("done") \/ W!ResetSleep \/ W!ResetReinit("done")
    BY <1>q, <2>1, <2>3 DEF W!ResetRelease, W!ResetSleep, W!ResetReinit
  <2>4. CASE W!ResetUngate("done") \/ W!ResetReload("destroy", "done")
    BY <1>q, <2>1, <2>4 DEF W!ResetUngate, W!ResetReload
  <2>5. QED
    BY <1>13, <2>2, <2>3, <2>4 DEF W!Reset, W!wdt_perform_reset
<1>14. CASE W!Undiscard
  BY <1>14, <1>q DEF W!Undiscard, W!fwVars
<1>15. CASE W!Ungate
  BY <1>15, <1>q DEF W!Ungate, W!clk_enable_logged, W!fwVars
<1>16. CASE W!Destroy
  BY <1>16, <1>q DEF W!Destroy
<1>17. QED
  BY <1>1, <1>2, <1>3, <1>4, <1>5, <1>6, <1>7, <1>8, <1>9, <1>10, <1>11, <1>12, <1>13,
     <1>14, <1>15, <1>16 DEF W!Step

\* A step of the reset.
LEMMA ResetAdvances ==
  ASSUME IInv, PathOK, cmd = "reset", cmd' = cmd, R!Step, UNCHANGED fwVars
  PROVE  Advances /\ PathOK'
<1> USE Distances DEF R!Goto, R!Fail
<1>p. left \in Nat /\ wi \in 1 .. Wdts + 1 /\ Wdts \in Nat /\ left' = left
  BY Consts DEF IInv, ResetInv, SocOK, PathOK, fwVars
<1>q. ASSUME pc \in DOMAIN Distance, pc' \in DOMAIN Distance, pc # "gate", pc' # "gate",
             Distance[pc'] < Distance[pc]
      PROVE  Advances /\ PathOK'
  BY <1>p, <1>q DEF Advances, PathOK, ToGo
<1>1. CASE R!Probe
  BY <1>1, <1>q DEF R!Probe
<1>2. CASE R!GetDrivers
  <2>1. CASE pc' = "gate"
    BY <1>p, <1>2, <2>1 DEF R!GetDrivers, Advances, PathOK, ToGo
  <2>2. CASE pc' \in {"prevent", "done"}
    BY <1>2, <1>q, <2>2 DEF R!GetDrivers
  <2>3. QED
    BY <1>2, <2>1, <2>2 DEF R!GetDrivers
<1>3. CASE R!Gate
  BY <1>p, <1>3 DEF R!Gate, R!clk_disable, Advances, PathOK, ToGo
<1>4. CASE R!Prevent
  <2>1. CASE pc' = "prevent" /\ wi' = wi + 1 /\ wi <= Wdts
    BY <1>p, <1>4, <2>1 DEF R!Prevent, R!wdt_prevent_reset, Advances, PathOK, ToGo
  <2>2. CASE pc' \in {"reset_stop", "ungate"}
    BY <1>4, <1>q, <2>2 DEF R!Prevent, R!wdt_prevent_reset
  <2>3. QED
    BY <1>4, <2>1, <2>2 DEF R!Prevent, R!wdt_prevent_reset
<1>5. CASE R!Reset
  <2>2. CASE R!ResetStop("ungate") \/ R!ResetSetup("ungate") \/ R!ResetArm("ungate")
    BY <1>q, <2>2 DEF R!ResetStop, R!ResetSetup, R!ResetArm
  <2>3. CASE R!ResetRelease("ungate") \/ R!ResetSleep \/ R!ResetReinit("ungate")
    BY <1>q, <2>3 DEF R!ResetRelease, R!ResetSleep, R!ResetReinit
  <2>4. CASE R!ResetUngate("ungate") \/ R!ResetReload("done", "ungate")
    BY <1>q, <2>4 DEF R!ResetUngate, R!ResetReload
  <2>5. QED
    BY <1>5, <2>2, <2>3, <2>4 DEF R!Reset, R!wdt_perform_reset
<1>6. CASE R!Ungate
  BY <1>6, <1>q DEF R!Ungate, R!clk_enable_logged
<1>7. QED
  BY <1>1, <1>2, <1>3, <1>4, <1>5, <1>6 DEF R!Step

\* The software of the BMC takes nothing back; at most it ends a culvert that
\* runs on the BMC.
LEMMA BmcTakesNothing ==
  ASSUME PathOK, cmd \in {"write", "reset"}, BmcStep
  PROVE  UNCHANGED <<left, wi>> /\ ToGo' <= ToGo /\ PathOK'
<1>1. cmd' = cmd /\ left' = left /\ wi' = wi /\ (pc' = pc \/ pc' = "dead")
  BY DEF BmcStep, Bmc, BmcArms, WdtFires, cmdVars, fwVars
<1>2. pc \in DOMAIN Distance /\ pc' \in DOMAIN Distance
  BY <1>1, Distances DEF PathOK
<1>3. ToGo \in Nat /\ ToGo' \in {ToGo, 0}
  BY <1>1, <1>2, Distances DEF ToGo
<1>4. QED
  BY <1>1, <1>2, <1>3 DEF PathOK

\* The firmware writer and the reset make no step in vain: each step other than
\* a miscompare, which nothing bounds, leaves less of the input, or is nearer
\* to the end, or leaves fewer watchdogs to stop, whatever fails; and what the
\* BMC does meanwhile takes nothing of that back (cmd/write.c; cmd/reset.c).
THEOREM CommandAdvances ==
  Spec =>
    /\ [](cmd # "otp" => left \in Nat /\ ToGo \in Nat /\ wi \in 1 .. Wdts + 1)
    /\ [][/\ Step => Advances \/ W!WriteMiscompare
          /\ BmcStep => UNCHANGED <<left, wi>> /\ ToGo' <= ToGo]_vars
<1>1. Init => PathOK
  <2> SUFFICES ASSUME Init, cmd # "otp" PROVE pc \in DOMAIN Distance /\ left \in Nat
    BY DEF PathOK
  <2>1. pc = "probe"
    BY DEF Init, W!Init, R!Init
  <2>2. left = 0 \/ left \in Images
    BY DEF Init, W!Init, FirmwareRests
  <2>3. Images \subseteq Nat
    BY CommandsAssumption DEF CommandsAssumption, W!FirmwareAssumption
  <2>4. left \in Nat
    <3>1. CASE left = 0
      BY <3>1
    <3>2. CASE left \in Images
      BY <2>3, <3>2
    <3>3. QED
      BY <2>2, <3>1, <3>2
  <2>5. pc \in DOMAIN Distance
    BY <2>1, Distances
  <2>6. QED
    BY <2>4, <2>5
<1>2. IInv /\ PathOK /\ [Next]_vars => PathOK'
  <2> SUFFICES ASSUME IInv, PathOK, [Next]_vars PROVE PathOK'
    OBVIOUS
  <2>1. CASE Step
    BY <2>1, WriteAdvances, ResetAdvances DEF Step
  <2>2. CASE BmcStep
    BY <2>2, BmcTakesNothing DEF BmcStep, IInv
  <2>3. CASE OtpStep \/ UNCHANGED vars
    BY <2>3 DEF OtpStep, OtpAlone, PathOK, vars, socVars, cmdVars, fwVars
  <2>4. QED
    BY <2>1, <2>2, <2>3 DEF Next
<1>3. IInv /\ PathOK => (cmd # "otp" => left \in Nat /\ ToGo \in Nat /\ wi \in 1 .. Wdts + 1)
  BY Distances DEF IInv, WriteInv, ResetInv, SocOK, PathOK, ToGo
<1>4. IInv /\ PathOK => (Step => Advances \/ W!WriteMiscompare)
  BY WriteAdvances, ResetAdvances DEF Step
<1>5. IInv /\ PathOK => (BmcStep => UNCHANGED <<left, wi>> /\ ToGo' <= ToGo)
  BY BmcTakesNothing DEF BmcStep, IInv
<1>6. QED
  BY <1>1, <1>2, <1>3, <1>4, <1>5, Invariant, PTL DEF Spec

=============================================================================
