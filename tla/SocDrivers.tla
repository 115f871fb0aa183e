----------------------------- MODULE SocDrivers -----------------------------
(***************************************************************************)
(* The life of the SoC drivers: soc.c binds them to devices, initialises   *)
(* them lazily when somebody first asks for one, and destroys them in list *)
(* order, which has nothing to do with the order of initialisation.  Most  *)
(* of them share the System Control Unit, whose driver (soc/scu.c) unlocks *)
(* its registers, counts its users and re-locks them behind the last one.  *)
(*                                                                         *)
(* Every register access may fail, and a failed write may have landed.     *)
(***************************************************************************)
EXTENDS Integers, Sequences, FiniteSets

CONSTANTS
  Devices,   \* the devices with a driver, and Cmd
  Scu,       \* the one the SCU driver is bound to
  Cmd,       \* stands for a command that calls scu_get() itself
  None,
  Dep,       \* the driver that each driver's init acquires first, or None
  Level,     \* a height for every driver: no two depend on each other
  NDev,      \* length of soc->devices
  Order,     \* soc->devices: Order[1] is its head
  FailAfter, \* drivers whose init can fail after it has called scu_get()
  Keeps,     \* drivers whose destroy does not call scu_put()
  MaxGets    \* how many acquisitions one behaviour makes

ASSUME DriverAssumption ==
  /\ Scu \in Devices /\ Cmd \in Devices \ {Scu}
  /\ IsFiniteSet(Devices) /\ None \notin Devices
  /\ Dep \in [Devices -> Devices \union {None}] /\ Dep[Scu] = None
  /\ Dep[Cmd] = Scu
  /\ Level \in [Devices -> Nat]
  /\ \A d \in Devices : Dep[d] # None => Level[Dep[d]] < Level[d]
  /\ NDev \in Nat /\ Order \in [1 .. NDev -> Devices \ {Cmd}]
  /\ \A d \in Devices \ {Cmd} : \E i \in 1 .. NDev : Order[i] = d
  /\ FailAfter \subseteq Devices /\ Keeps \subseteq Devices \ {Scu}
  /\ MaxGets \in Nat

VARIABLES
  pc,         \* "idle": in the command; "init", "destroy", "done": in soc.c
  stack,      \* the nested calls of soc_device_init_driver()
  next,       \* the position of soc_unbind_drivers() in the list
  gets,       \* acquisitions so far
  drv,        \* "bound": drvdata is NULL; "ready": it is set; "gone": freed
  alive,      \* the SCU driver's context is allocated ...
  refcnt,     \* ... with this reference count
  wasLocked,  \* ... and the lock as it found it
  scuLock,    \* the hardware's lock: "locked" or "unlocked"
  initLock,   \* history: the lock before culvert ran
  holders,    \* history: who owns a counted reference
  leaked,     \* history: references whose owner is gone
  lockLost    \* history: an access to the lock failed

soc == <<pc, stack, next, gets, drv>>
scu == <<alive, refcnt, wasLocked>>
vars == <<soc, scu, scuLock, initLock, holders, leaked, lockLost>>

Init ==
  /\ pc = "idle" /\ stack = <<>> /\ next = 1 /\ gets = 0
  /\ drv = [d \in Devices |-> "bound"]
  /\ alive = FALSE /\ refcnt = 0 /\ wasLocked = "unlocked"
  /\ initLock \in {"locked", "unlocked"} /\ scuLock = initLock
  /\ holders = {} /\ leaked = 0 /\ lockLost = FALSE

-----------------------------------------------------------------------------
\* soc_driver_get_drvdata() and its variants: a driver that is not ready is
\* initialised first.
soc_driver_get_drvdata(d) ==
  /\ pc = "idle" /\ gets < MaxGets /\ drv[d] = "bound"
  /\ gets' = gets + 1 /\ pc' = "init" /\ stack' = <<d>>
  /\ UNCHANGED <<next, drv, scu, scuLock, initLock, holders, leaked, lockLost>>

\* The driver's init acquires the driver it depends on.
InitDep ==
  /\ pc = "init" /\ Dep[Head(stack)] # None /\ drv[Dep[Head(stack)]] = "bound"
  /\ stack' = <<Dep[Head(stack)]>> \o stack
  /\ UNCHANGED <<pc, next, gets, drv, scu, scuLock, initLock, holders, leaked, lockLost>>

\* soc_device_set_drvdata(), and return to the caller.
Ready(d) ==
  /\ drv' = [drv EXCEPT ![d] = "ready"]
  /\ stack' = Tail(stack)
  /\ pc' = IF Len(stack) = 1 THEN "idle" ELSE "init"
  /\ UNCHANGED <<next, gets>>

\* An init that fails makes every init that waits for it fail.
Abort == pc' = "idle" /\ stack' = <<>> /\ UNCHANGED <<next, gets, drv>>

DepReady(d) == Dep[d] = None \/ drv[Dep[d]] = "ready"

\* An init that succeeds.  Users of the SCU got it from scu_get().
InitDone ==
  /\ pc = "init" /\ Head(stack) # Scu /\ DepReady(Head(stack))
  /\ Ready(Head(stack))
  /\ IF Dep[Head(stack)] = Scu
       THEN refcnt' = refcnt + 1 /\ holders' = holders \union {Head(stack)}
       ELSE UNCHANGED <<refcnt, holders>>
  /\ UNCHANGED <<alive, wasLocked, scuLock, initLock, leaked, lockLost>>

\* One that fails, before or after scu_get(); none of them calls scu_put().
InitFails ==
  /\ pc = "init" /\ Head(stack) \notin {Scu, Cmd} /\ DepReady(Head(stack))
  /\ Abort
  /\ \/ UNCHANGED <<refcnt, leaked>>
     \/ /\ Dep[Head(stack)] = Scu /\ Head(stack) \in FailAfter
        /\ refcnt' = refcnt + 1 /\ leaked' = leaked + 1
  /\ UNCHANGED <<alive, wasLocked, scuLock, initLock, holders, lockLost>>

(* Mutated: the lock is read after it was opened.                            *)
scu_driver_init_late ==
  /\ pc = "init" /\ Head(stack) = Scu
  /\ Ready(Scu)
  /\ alive' = TRUE /\ refcnt' = 1 /\ holders' = holders \union {Scu}
  /\ scuLock' = "unlocked" /\ wasLocked' = "unlocked"
  /\ UNCHANGED <<initLock, leaked, lockLost>>

\* scu_driver_init()
scu_driver_init ==
  /\ pc = "init" /\ Head(stack) = Scu
  /\ Ready(Scu)
  /\ alive' = TRUE /\ refcnt' = 1 /\ holders' = holders \union {Scu}
  /\ wasLocked' = scuLock /\ scuLock' = "unlocked"
  /\ UNCHANGED <<initLock, leaked, lockLost>>

scu_driver_init_fails ==
  /\ pc = "init" /\ Head(stack) = Scu
  /\ Abort
  /\ \/ UNCHANGED <<scuLock, lockLost>>
     \/ /\ scuLock = "locked" /\ scuLock' \in {"locked", "unlocked"}
        /\ lockLost' = TRUE
  /\ UNCHANGED <<scu, initLock, holders, leaked>>

(* Mutated: the SCU is locked again without looking at the count.            *)
scu_put_locks(h) ==
  /\ refcnt' = refcnt - 1 /\ holders' = holders \ {h}
  /\ alive' = (refcnt > 1) /\ scuLock' = wasLocked
  /\ UNCHANGED <<wasLocked, initLock, leaked, lockLost>>

\* scu_put() by h
scu_put(h) ==
  /\ refcnt' = refcnt - 1 /\ holders' = holders \ {h}
  /\ IF refcnt = 1
       THEN /\ alive' = FALSE
            /\ \/ wasLocked = "unlocked" /\ UNCHANGED <<scuLock, lockLost>>
               \/ wasLocked = "locked" /\ scuLock' = "locked" /\ UNCHANGED lockLost
               \/ /\ wasLocked = "locked" /\ scuLock' \in {scuLock, "locked"}
                  /\ lockLost' = TRUE
       ELSE UNCHANGED <<alive, scuLock, lockLost>>
  /\ UNCHANGED <<wasLocked, initLock, leaked>>

\* cmd/coprocessor.c is done with the SCU.
CmdPut ==
  /\ pc = "idle" /\ drv[Cmd] = "ready"
  /\ drv' = [drv EXCEPT ![Cmd] = "bound"]
  /\ scu_put(Cmd)
  /\ UNCHANGED <<pc, stack, next, gets>>

-----------------------------------------------------------------------------
\* soc_destroy(): soc_unbind_drivers() walks the list.
soc_destroy ==
  /\ pc = "idle" /\ drv[Cmd] = "bound"
  /\ pc' = "destroy"
  /\ UNCHANGED <<stack, next, gets, drv, scu, scuLock, initLock, holders, leaked, lockLost>>

CountsRef(d) == d = Scu \/ Dep[d] = Scu

\* dev->driver->destroy(dev) for a driver that was initialised.
Destroy(d) ==
  /\ drv' = [drv EXCEPT ![d] = "gone"]
  /\ \/ d \notin Keeps /\ CountsRef(d) /\ scu_put(d)
     \/ /\ d \in Keeps /\ CountsRef(d)
        /\ holders' = holders \ {d} /\ leaked' = leaked + 1
        /\ UNCHANGED <<scu, scuLock, initLock, lockLost>>
     \/ ~CountsRef(d) /\ UNCHANGED <<scu, scuLock, initLock, holders, leaked, lockLost>>

soc_unbind_drivers ==
  /\ pc = "destroy"
  /\ IF next > NDev
       THEN /\ pc' = "done"
            /\ UNCHANGED <<next, drv, scu, scuLock, initLock, holders, leaked, lockLost>>
       ELSE /\ next' = next + 1 /\ UNCHANGED pc
            /\ IF drv[Order[next]] = "ready"
                 THEN Destroy(Order[next])
                 ELSE /\ drv' = [drv EXCEPT ![Order[next]] = "gone"]
                      /\ UNCHANGED <<scu, scuLock, initLock, holders, leaked, lockLost>>
  /\ UNCHANGED <<stack, gets>>

Next ==
  \/ \E d \in Devices \ {Scu} : soc_driver_get_drvdata(d)
  \/ InitDep \/ InitDone \/ InitFails
  \/ scu_driver_init \/ scu_driver_init_fails
  \/ CmdPut \/ soc_destroy \/ soc_unbind_drivers

Spec == Init /\ [][Next]_vars

-----------------------------------------------------------------------------
FlagsOK == alive \in BOOLEAN /\ lockLost \in BOOLEAN

TypeOK ==
  /\ FlagsOK
  /\ pc \in {"idle", "init", "destroy", "done"}
  /\ stack \in Seq(Devices) /\ (pc = "init" => stack # <<>>)
  /\ next \in 1 .. NDev + 1 /\ gets \in 0 .. MaxGets
  /\ drv \in [Devices -> {"bound", "ready", "gone"}]
  /\ refcnt \in Nat
  /\ {wasLocked, scuLock, initLock} \subseteq {"locked", "unlocked"}
  /\ holders \subseteq Devices /\ leaked \in Nat

\* Whoever may write an SCU register finds its context allocated and the
\* registers unlocked: nobody's scu_put() locks them under another user
\* (scu.c, refcnt), although soc_unbind_drivers() destroys the SCU driver
\* before clk and strap, which are its children in the devicetree (soc.c).
HeldUsable == holders # {} => alive /\ scuLock = "unlocked"

\* The SCU is left as it was found, after any mixture of acquisitions, failed
\* initialisations and retries, unless an access to the lock itself failed or
\* a reference was leaked: by jtag, which never calls scu_put(), or by an init
\* that fails after scu_get() (scu.c, "Re-locking SCU").
LockRestored ==
  pc = "done" /\ ~lockLost /\ leaked = 0 => scuLock = initLock

=============================================================================
