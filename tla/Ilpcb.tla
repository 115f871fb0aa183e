------------------------------- MODULE Ilpcb --------------------------------
(***************************************************************************)
(* The iLPC bridge, bridge/ilpc.c over sio.c: the SuperIO is unlocked, its *)
(* iLPC2AHB device selected, enabled and given a width, and then an        *)
(* address, data and a trigger for every word.  Each of these is a pair of *)
(* LPC cycles, an index and a datum, that may fail, with or without having *)
(* reached the device.                                                     *)
(***************************************************************************)
EXTENDS Ahb

CONSTANTS
  Byte  \* an address is written a byte at a time; here as two digits of base Byte

ByteAssumption == Byte \in Nat \ {0}

Devs == {"ilpc", "other"}

VARIABLES
  state,    \* "down", "up" or "gone"
  pc,       \* where the call in progress is
  fail,     \* its rc is not 0
  sioLock,  \* the SuperIO: "locked" or "unlocked" ...
  sel,      \* ... its selected device ...
  en, width,  \* ... iLPC2AHB's enable bit and access width ...
  areg,     \* ... and its address registers
  lockLost  \* history: the access that locks the SuperIO failed

sio == <<sioLock, sel, en, width, areg>>
vars == <<ahbVars, state, pc, fail, sio, lockLost>>

Init ==
  /\ AhbInit /\ state = "down" /\ pc = "idle" /\ fail = FALSE /\ lockLost = FALSE
  /\ sioLock \in {"locked", "unlocked"} /\ sel \in Devs /\ en \in BOOLEAN
  /\ width \in {"byte", "word"} /\ areg = 0

Goto(l) == pc' = l /\ UNCHANGED fail
GiveUp == pc' = "lock" /\ fail' = TRUE

-----------------------------------------------------------------------------
\* sio_probe() unlocks the SuperIO, selects two other devices in turn and
\* locks it again.
sio_probe ==
  /\ sel' \in {sel, "other"} /\ UNCHANGED <<en, width, areg>>
  /\ \/ sioLock' = "locked" /\ UNCHANGED lockLost
     \/ sioLock' \in {sioLock, "unlocked"} /\ lockLost' = TRUE

\* rev_probe() reads the revision registers, as ilpcb_readl() does below.
RevProbe ==
  /\ sel' = "ilpc" /\ en' = TRUE /\ width' = "word" /\ areg' \in Addr
  /\ \/ sioLock' = "locked" /\ UNCHANGED lockLost
     \/ sioLock' \in {"locked", "unlocked"} /\ lockLost' = TRUE

\* ilpcb_init() and ilpcb_probe(): no SuperIO is no failure.
ilpcb_probe ==
  /\ state = "down" /\ state' \in {"up", "gone"}
  /\ sio_probe \/ RevProbe
  /\ UNCHANGED <<ahbVars, pc, fail>>

Call(r) ==
  /\ state = "up" /\ Begin(r[1], r[2], r[3])
  /\ pc' = "unlock" /\ fail' = FALSE
  /\ UNCHANGED <<state, sio, lockLost>>

\* sio_unlock()
Unlock ==
  /\ pc = "unlock"
  /\ \/ Goto("setup") /\ sioLock' = "unlocked"
     \/ GiveUp /\ sioLock' \in {sioLock, "unlocked"}
  /\ UNCHANGED <<ahbVars, state, sel, en, width, areg, lockLost>>

OpWidth == IF op \in {"read", "write"} THEN "byte" ELSE "word"

\* sio_select(), then the enable and width registers.
Setup ==
  /\ pc = "setup"
  /\ \/ Goto("addr") /\ sel' = "ilpc" /\ en' = TRUE /\ width' = OpWidth
     \/ GiveUp /\ sel' \in {sel, "ilpc"} /\ en' \in {en, TRUE} /\ width' \in {width, OpWidth}
  /\ UNCHANGED <<ahbVars, state, sioLock, areg, lockLost>>

\* ilpcb_write() does not step its address.
Target == IF op = "write" THEN phys ELSE phys + done

\* The address registers after some of the accesses that set them failed.
Torn(from, to) ==
  {Byte * h + l : h \in {from \div Byte, to \div Byte}, l \in {from % Byte, to % Byte}}

\* rc |= sio_writeb() for each part of the address: all are attempted.
Address ==
  /\ pc = "addr"
  /\ \/ done = len /\ Goto("lock") /\ UNCHANGED areg
     \/ done < len /\ Goto("trigger") /\ areg' = Target
     \/ /\ done < len /\ GiveUp
        /\ areg' \in Torn(areg, Target)
  /\ UNCHANGED <<ahbVars, state, sioLock, sel, en, width, lockLost>>

Armed == sioLock = "unlocked" /\ sel = "ilpc" /\ en /\ width = OpWidth

\* A read: the trigger, then the data.
TriggerRead ==
  /\ pc = "trigger" /\ op \notin Writes
  /\ \/ Armed /\ Move(1, areg) /\ Goto("addr")
     \/ GiveUp /\ UNCHANGED ahbVars
  /\ UNCHANGED <<state, sio, lockLost>>

\* A write: the data, then the trigger, which may be reached by the access
\* that fails.
TriggerWrite ==
  /\ pc = "trigger" /\ op \in Writes
  /\ \/ Armed /\ Move(1, areg) /\ Goto("addr")
     \/ GiveUp /\ (UNCHANGED ahbVars \/ (Armed /\ Move(1, areg)))
  /\ UNCHANGED <<state, sio, lockLost>>

(* Mutated: an error returns at once.                                       *)
Lock_skipped ==
  /\ pc = "lock" /\ pc' = "idle"
  /\ Return(IF fail THEN "fail" ELSE "ok")
  /\ sioLock' = (IF fail THEN sioLock ELSE "locked")
  /\ UNCHANGED <<state, fail, sel, en, width, areg, lockLost>>

\* done: sio_lock(), whose failure is only logged.
Lock ==
  /\ pc = "lock" /\ pc' = "idle"
  /\ Return(IF fail THEN "fail" ELSE "ok")
  /\ \/ sioLock' = "locked" /\ UNCHANGED lockLost
     \/ sioLock' \in {sioLock, "locked"} /\ lockLost' = TRUE
  /\ UNCHANGED <<state, fail, sel, en, width, areg>>

ilpcb_destroy ==
  /\ state = "up" /\ ~busy /\ state' = "gone"
  /\ UNCHANGED <<ahbVars, pc, fail, sio, lockLost>>

Next ==
  \/ ilpcb_probe \/ ilpcb_destroy
  \/ \E r \in Requests : Call(r)
  \/ Unlock \/ Setup \/ Address \/ TriggerRead \/ TriggerWrite \/ Lock

Spec == Init /\ [][Next]_vars

-----------------------------------------------------------------------------
TypeOK ==
  /\ AhbTypeOK
  /\ state \in {"down", "up", "gone"}
  /\ pc \in {"idle", "unlock", "setup", "addr", "trigger", "lock"}
  /\ busy = (pc # "idle")
  /\ sioLock \in {"locked", "unlocked"} /\ sel \in Devs
  /\ {fail, en, lockLost} \subseteq BOOLEAN /\ width \in {"byte", "word"}
  /\ areg \in Addr

\* The SuperIO is locked whenever no call is in progress, whichever of the
\* accesses failed (ilpc.c, done:), unless the lock itself failed.
SioLocked == state = "up" /\ ~busy /\ ~lockLost => sioLock = "locked"

=============================================================================
