--------------------------- MODULE SessionProofs ---------------------------
(***************************************************************************)
(* Proofs about a command's session with the SoC: about the SCU's          *)
(* reference count, for every set of drivers, every dependency between     *)
(* them, every order of the device list and any number of acquisitions;    *)
(* and about how a bridge is found, on every platform.                     *)
(***************************************************************************)
EXTENDS Session, FiniteSetTheorems, TLAPS

\* The nested initialisations are those of drivers that are merely bound, and
\* no driver is initialised twice at once.
StackOK ==
  /\ pc # "init" => stack = <<>>
  /\ \A i \in 1 .. Len(stack) : drv[stack[i]] = "bound"
  /\ \A i, j \in 1 .. Len(stack) : i < j => Level[stack[i]] < Level[stack[j]]

\* The counted references belong to the initialised users of the SCU.
HoldersOK == holders = {d \in Devices : CountsRef(d) /\ drv[d] = "ready"}

\* The count is exact, leaked references included.
CountOK ==
  IF alive
    THEN /\ refcnt = Cardinality(holders) + leaked /\ refcnt > 0
         /\ drv[Scu] # "bound"
    ELSE holders = {} /\ refcnt = 0 /\ leaked = 0

LockOK ==
  IF alive
    THEN scuLock = "unlocked" /\ (~lockLost => wasLocked = initLock)
    ELSE ~lockLost => scuLock = initLock

\* soc_unbind_drivers() leaves nothing behind it.
UnbindOK ==
  /\ pc \in {"destroy", "done"} =>
       /\ drv[Cmd] = "bound"
       /\ \A i \in 1 .. NDev : i < next => drv[Order[i]] = "gone"
  /\ pc = "done" => next = NDev + 1
  /\ pc \in {"idle", "init"} => next = 1

IInv == TypeOK /\ StackOK /\ HoldersOK /\ CountOK /\ LockOK /\ UnbindOK

-----------------------------------------------------------------------------
\* The cardinality of the holders when one comes and when one goes.
LEMMA HoldersFinite ==
  ASSUME TypeOK
  PROVE  /\ IsFiniteSet(holders) /\ Cardinality(holders) \in Nat
         /\ \A x : x \notin holders =>
              Cardinality(holders \union {x}) = Cardinality(holders) + 1
         /\ \A x \in holders : Cardinality(holders \ {x}) = Cardinality(holders) - 1
<1>1. IsFiniteSet(holders)
  BY FS_Subset, DriverAssumption DEF TypeOK
<1>2. QED
  BY <1>1, FS_CardinalityType, FS_AddElement, FS_RemoveElement

\* Nothing is set up when culvert starts.
LEMMA InitIInv == Init => IInv
<1> SUFFICES ASSUME Init PROVE IInv
  OBVIOUS
<1> USE DriverAssumption
<1>1. TypeOK
  <2>1. FlagsOK
    BY DEF Init, FlagsOK
  <2>2. QED BY <2>1 DEF Init, TypeOK
<1>2. StackOK /\ HoldersOK
  BY DEF Init, StackOK, HoldersOK
<1>3. CountOK
  BY DEF Init, CountOK
<1>4. LockOK
  BY DEF Init, LockOK
<1>5. QED BY <1>1, <1>2, <1>3, <1>4 DEF Init, IInv, UnbindOK

\* scu_put() by a holder keeps the count exact, frees the context only behind
\* the last holder and then restores the lock.
LEMMA PutOK ==
  ASSUME IInv, NEW h \in holders, scu_put(h), drv'[Scu] # "bound"
  PROVE  CountOK' /\ LockOK'
<1>1. /\ alive /\ refcnt = Cardinality(holders) + leaked /\ refcnt > 0
      /\ scuLock = "unlocked" /\ (~lockLost => wasLocked = initLock)
  BY DEF IInv, CountOK, LockOK
<1>2. /\ Cardinality(holders') = Cardinality(holders) - 1
      /\ IsFiniteSet(holders') /\ Cardinality(holders') \in Nat
  <2>1. holders' = holders \ {h}
    BY DEF scu_put
  <2>2. IsFiniteSet(holders')
    BY <2>1, HoldersFinite, FS_RemoveElement DEF IInv
  <2>3. QED BY <2>1, <2>2, HoldersFinite, FS_CardinalityType DEF IInv
<1>3. leaked \in Nat /\ refcnt \in Nat /\ Cardinality(holders) \in Nat
  BY HoldersFinite DEF IInv, TypeOK
<1>4. refcnt' = refcnt - 1 /\ leaked' = leaked /\ wasLocked' = wasLocked /\ initLock' = initLock
  BY DEF scu_put
<1>5. CASE refcnt = 1
  <2>1. alive' = FALSE
    BY <1>5 DEF scu_put
  <2>2. holders' = {} /\ leaked' = 0 /\ refcnt' = 0
    <3>1. Cardinality(holders') = 0 /\ leaked' = 0 /\ refcnt' = 0
      BY <1>1, <1>2, <1>3, <1>4, <1>5
    <3>2. QED BY <1>2, <3>1, FS_EmptySet
  <2>3. ~lockLost' => scuLock' = initLock'
    <3>1. wasLocked \in {"locked", "unlocked"}
      BY DEF IInv, TypeOK
    <3>2. CASE wasLocked = "unlocked"
      <4>1. scuLock' = scuLock /\ lockLost' = lockLost
        BY <1>5, <3>2 DEF scu_put
      <4>2. QED BY <1>1, <1>4, <3>2, <4>1
    <3>3. CASE wasLocked = "locked"
      <4>1. CASE scuLock' = "locked" /\ lockLost' = lockLost
        BY <1>1, <1>4, <3>3, <4>1
      <4>2. CASE lockLost' = TRUE
        BY <4>2
      <4>3. QED BY <1>5, <3>3, <4>1, <4>2 DEF scu_put
    <3>4. QED BY <3>1, <3>2, <3>3
  <2>4. QED BY <2>1, <2>2, <2>3 DEF CountOK, LockOK
<1>6. CASE refcnt # 1
  <2>1. alive' = alive /\ scuLock' = scuLock /\ lockLost' = lockLost
    BY <1>6 DEF scu_put
  <2>2. CountOK'
    BY <1>1, <1>2, <1>3, <1>4, <1>6, <2>1 DEF CountOK
  <2>3. LockOK'
    <3>1. alive' /\ scuLock' = "unlocked"
      BY <1>1, <2>1
    <3>2. ~lockLost' => wasLocked' = initLock'
      BY <1>1, <1>4, <2>1
    <3>3. QED BY <3>1, <3>2 DEF LockOK
  <2>4. QED BY <2>2, <2>3
<1>7. QED BY <1>5, <1>6

-----------------------------------------------------------------------------
\* The types of what scu_put() assigns.
LEMMA PutTypes ==
  ASSUME IInv, NEW h \in holders, scu_put(h)
  PROVE  /\ refcnt' \in Nat /\ holders' \subseteq Devices /\ leaked' = leaked
         /\ wasLocked' = wasLocked /\ initLock' = initLock
         /\ scuLock' \in {"locked", "unlocked"}
<1>1. refcnt \in Nat /\ refcnt > 0
  BY DEF IInv, TypeOK, CountOK
<1>2. QED BY <1>1 DEF scu_put, IInv, TypeOK

\* Steps that change neither the SCU's context, nor its lock, nor a driver
\* that counts.
LEMMA SameScu ==
  ASSUME IInv, UNCHANGED <<scu, scuLock, initLock, holders, leaked, lockLost>>,
         drv'[Scu] = "bound" => drv[Scu] = "bound"
  PROVE  CountOK' /\ LockOK'
<1>1. /\ alive' = alive /\ refcnt' = refcnt /\ wasLocked' = wasLocked
      /\ scuLock' = scuLock /\ initLock' = initLock /\ holders' = holders
      /\ leaked' = leaked /\ lockLost' = lockLost
  BY DEF scu
<1>2. CountOK'
  <2>1. CASE alive
    BY <1>1, <2>1 DEF IInv, CountOK
  <2>2. CASE ~alive
    BY <1>1, <2>2 DEF IInv, CountOK
  <2>3. QED BY <2>1, <2>2
<1>3. LockOK'
  <2>1. CASE alive
    BY <1>1, <2>1 DEF IInv, LockOK
  <2>2. CASE ~alive
    BY <1>1, <2>2 DEF IInv, LockOK
  <2>3. QED BY <2>1, <2>2
<1>4. QED BY <1>2, <1>3

\* What is known at the head of the stack.
LEMMA HeadOK ==
  ASSUME IInv, pc = "init"
  PROVE  /\ Len(stack) \in Nat \ {0} /\ Head(stack) = stack[1]
         /\ Head(stack) \in Devices /\ drv[Head(stack)] = "bound"
         /\ Head(stack) \notin holders
         /\ \A i \in 2 .. Len(stack) : stack[i] # Head(stack)
<1>1. stack \in Seq(Devices) /\ stack # <<>>
  BY DEF IInv, TypeOK
<1>2. Len(stack) \in Nat \ {0} /\ Head(stack) = stack[1] /\ Head(stack) \in Devices
  BY <1>1
<1>3. drv[Head(stack)] = "bound"
  BY <1>2 DEF IInv, StackOK
<1>4. \A i \in 2 .. Len(stack) : stack[i] # Head(stack)
  <2> SUFFICES ASSUME NEW i \in 2 .. Len(stack) PROVE stack[i] # Head(stack)
    OBVIOUS
  <2>1. Level[stack[1]] < Level[stack[i]]
    BY <1>2 DEF IInv, StackOK
  <2>2. Level[stack[1]] \in Nat
    BY <1>2, DriverAssumption
  <2>3. QED BY <1>2, <2>1, <2>2
<1>5. QED BY <1>2, <1>3, <1>4 DEF IInv, HoldersOK

\* A driver becomes ready and its init returns.
LEMMA ReadyOK ==
  ASSUME IInv, pc = "init", Ready(Head(stack))
  PROVE  /\ StackOK' /\ UnbindOK'
         /\ pc' \in {"idle", "init"} /\ next' = next /\ gets' = gets
         /\ stack' \in Seq(Devices) /\ (pc' = "init" => stack' # <<>>)
         /\ drv' = [drv EXCEPT ![Head(stack)] = "ready"]
<1>1. /\ drv' = [drv EXCEPT ![Head(stack)] = "ready"]
      /\ stack' = Tail(stack) /\ pc' = IF Len(stack) = 1 THEN "idle" ELSE "init"
      /\ next' = next /\ gets' = gets
  BY DEF Ready
<1>2. stack \in Seq(Devices) /\ stack # <<>>
  BY DEF IInv, TypeOK
<1>3. /\ Len(stack') = Len(stack) - 1 /\ Len(stack) \in Nat \ {0}
      /\ stack' \in Seq(Devices)
      /\ \A i \in 1 .. Len(stack') : stack'[i] = stack[i + 1]
  BY <1>1, <1>2
<1>4. pc' # "init" => stack' = <<>>
  <2>1. CASE Len(stack) = 1
    <3>1. Len(stack') = 0
      BY <1>3, <2>1
    <3>2. QED BY <1>3, <3>1
  <2>2. CASE Len(stack) # 1
    BY <1>1, <2>2
  <2>3. QED BY <2>1, <2>2
<1>5. pc' = "init" => stack' # <<>>
  <2>1. CASE Len(stack) = 1
    BY <1>1, <2>1
  <2>2. CASE Len(stack) # 1
    <3>1. Len(stack') # 0
      BY <1>3, <2>2
    <3>2. QED BY <3>1
  <2>3. QED BY <2>1, <2>2
<1>6. ASSUME NEW i \in 1 .. Len(stack') PROVE drv'[stack'[i]] = "bound"
  <2>1. stack'[i] = stack[i + 1] /\ i + 1 \in 2 .. Len(stack)
    BY <1>3
  <2>2. stack[i + 1] # Head(stack)
    BY <2>1, HeadOK
  <2>3. drv[stack[i + 1]] = "bound"
    BY <2>1 DEF IInv, StackOK
  <2>4. QED BY <1>1, <2>1, <2>2, <2>3 DEF IInv, TypeOK
<1>7. ASSUME NEW i \in 1 .. Len(stack'), NEW j \in 1 .. Len(stack'), i < j
      PROVE  Level[stack'[i]] < Level[stack'[j]]
  <2>1. /\ stack'[i] = stack[i + 1] /\ i + 1 \in 1 .. Len(stack)
        /\ stack'[j] = stack[j + 1] /\ j + 1 \in 1 .. Len(stack) /\ i + 1 < j + 1
    BY <1>3, <1>7
  <2>2. QED BY <2>1 DEF IInv, StackOK
<1>8. StackOK'
  BY <1>4, <1>6, <1>7 DEF StackOK
<1>9. QED BY <1>1, <1>3, <1>5, <1>8 DEF IInv, UnbindOK

\* An init fails and every call that waits for it returns.
LEMMA AbortOK ==
  ASSUME IInv, pc = "init", Abort
  PROVE  /\ StackOK' /\ UnbindOK' /\ pc' = "idle" /\ stack' = <<>>
         /\ next' = next /\ gets' = gets /\ drv' = drv
  BY DEF Abort, IInv, StackOK, UnbindOK

-----------------------------------------------------------------------------
\* The flags stay Boolean.
LEMMA NextFlagsOK ==
  ASSUME FlagsOK, [Next]_vars
  PROVE  FlagsOK'
<1>1. ASSUME UNCHANGED <<alive, lockLost>> PROVE FlagsOK'
  BY <1>1 DEF FlagsOK
<1>2. ASSUME NEW h, scu_put(h) PROVE FlagsOK'
  <2>1. CASE refcnt = 1
    <3>1. alive' = FALSE /\ (lockLost' = lockLost \/ lockLost' = TRUE)
      BY <1>2, <2>1 DEF scu_put
    <3>2. QED BY <3>1 DEF FlagsOK
  <2>2. CASE refcnt # 1
    BY <1>1, <1>2, <2>2 DEF scu_put
  <2>3. QED BY <2>1, <2>2
<1>3. ASSUME scu_driver_init PROVE FlagsOK'
  BY <1>3 DEF scu_driver_init, FlagsOK
<1>4. ASSUME scu_driver_init_fails PROVE FlagsOK'
  <2>1. alive' = alive /\ (lockLost' = lockLost \/ lockLost' = TRUE)
    BY <1>4 DEF scu_driver_init_fails, scu
  <2>2. QED BY <2>1 DEF FlagsOK
<1>5. ASSUME CmdPut PROVE FlagsOK'
  BY <1>2, <1>5 DEF CmdPut
<1>6. ASSUME soc_unbind_drivers PROVE FlagsOK'
  <2>1. ASSUME NEW d, Destroy(d) PROVE FlagsOK'
    BY <1>1, <1>2, <2>1 DEF Destroy, scu
  <2>2. QED BY <1>1, <1>6, <2>1 DEF soc_unbind_drivers, scu
<1>7. QED
  BY <1>1, <1>3, <1>4, <1>5, <1>6
  DEF Next, vars, scu, soc_driver_get_drvdata, InitDep, InitDone, InitFails, soc_destroy

\* One step per action.
LEMMA NextIInv ==
  ASSUME IInv, [Next]_vars
  PROVE  IInv'
<1>0. FlagsOK'
  BY NextFlagsOK DEF IInv, TypeOK
<1> USE DriverAssumption
<1>1. ASSUME NEW d \in Devices \ {Scu}, soc_driver_get_drvdata(d) PROVE IInv'
  <2>1. /\ pc' = "init" /\ stack' = <<d>> /\ gets' = gets + 1 /\ gets < MaxGets
        /\ drv[d] = "bound" /\ pc = "idle"
        /\ UNCHANGED <<next, drv, scu, scuLock, initLock, holders, leaked, lockLost>>
    BY <1>1 DEF soc_driver_get_drvdata
  <2>2. CountOK' /\ LockOK'
    BY <2>1, SameScu
  <2>3. TypeOK'
    BY <1>0, <2>1 DEF IInv, TypeOK, scu
  <2>4. StackOK'
    BY <2>1 DEF StackOK
  <2>5. QED BY <2>1, <2>2, <2>3, <2>4 DEF IInv, HoldersOK, UnbindOK
<1>2. ASSUME InitDep PROVE IInv'
  <2> DEFINE e == Dep[Head(stack)]
  <2>1. /\ pc = "init" /\ e # None /\ drv[e] = "bound" /\ stack' = <<e>> \o stack
        /\ UNCHANGED <<pc, next, gets, drv, scu, scuLock, initLock, holders, leaked, lockLost>>
    BY <1>2 DEF InitDep
  <2>2. CountOK' /\ LockOK'
    BY <2>1, SameScu
  <2>3. /\ Head(stack) \in Devices /\ Head(stack) = stack[1] /\ stack \in Seq(Devices)
        /\ Len(stack) \in Nat \ {0}
    BY <2>1, HeadOK DEF IInv, TypeOK
  <2>4. e \in Devices /\ Level[e] < Level[stack[1]]
    BY <2>1, <2>3
  <2>5. /\ stack' \in Seq(Devices) /\ Len(stack') = Len(stack) + 1 /\ stack'[1] = e
    BY <2>1, <2>3, <2>4
  <2>11. ASSUME NEW i \in 1 .. Len(stack'), i # 1
         PROVE  stack'[i] = stack[i - 1] /\ i - 1 \in 1 .. Len(stack)
    BY <2>1, <2>3, <2>4, <2>5, <2>11
  <2>12. ASSUME NEW a \in 1 .. Len(stack), NEW b \in 1 .. Len(stack), a < b
         PROVE  Level[stack[a]] < Level[stack[b]]
    BY <2>12 DEF IInv, StackOK
  <2>6. TypeOK'
    <3>1. stack' # <<>>
      BY <2>3, <2>5
    <3>2. QED BY <1>0, <2>1, <2>5, <3>1 DEF IInv, TypeOK, scu
  <2>7. \A i \in 1 .. Len(stack') : drv'[stack'[i]] = "bound"
    <3> SUFFICES ASSUME NEW i \in 1 .. Len(stack') PROVE drv'[stack'[i]] = "bound"
      OBVIOUS
    <3>1. CASE i = 1
      BY <2>1, <2>5, <3>1
    <3>2. CASE i # 1
      <4>1. stack'[i] = stack[i - 1] /\ i - 1 \in 1 .. Len(stack)
        BY <2>11, <3>2
      <4>2. QED BY <2>1, <4>1 DEF IInv, StackOK
    <3>3. QED BY <3>1, <3>2
  <2>8. ASSUME NEW i \in 1 .. Len(stack'), NEW j \in 1 .. Len(stack'), i < j
        PROVE  Level[stack'[i]] < Level[stack'[j]]
    <3>1. stack'[j] = stack[j - 1] /\ j - 1 \in 1 .. Len(stack)
      BY <2>8, <2>11
    <3>2. CASE i = 1
      <4>1. CASE j = 2
        BY <2>4, <2>5, <3>1, <3>2, <4>1
      <4>2. CASE j # 2
        <5>1. Level[stack[1]] < Level[stack[j - 1]]
          <6>0. j \in Int /\ j > 1 /\ Len(stack) \in Nat \ {0}
            BY <2>3, <2>5, <2>8, <3>2
          <6>1. 1 \in 1 .. Len(stack) /\ 1 < j - 1
            BY ONLY <6>0, <4>2
          <6>2. QED BY ONLY <2>12, <3>1, <6>1
        <5>2. stack[1] \in Devices /\ stack[j - 1] \in Devices
          BY <2>3, <3>1
        <5>3. Level[e] \in Nat /\ Level[stack[1]] \in Nat /\ Level[stack[j - 1]] \in Nat
          BY <2>4, <5>2
        <5>4. Level[e] < Level[stack[j - 1]]
          BY ONLY <2>4, <5>1, <5>3
        <5>5. QED BY <2>5, <3>1, <3>2, <5>4
      <4>3. QED BY <4>1, <4>2
    <3>3. CASE i # 1
      <4>1. stack'[i] = stack[i - 1] /\ i - 1 \in 1 .. Len(stack) /\ i - 1 < j - 1
        BY <2>8, <2>11, <3>3
      <4>2. Level[stack[i - 1]] < Level[stack[j - 1]]
        BY ONLY <2>12, <3>1, <4>1
      <4>3. QED BY <3>1, <4>1, <4>2
    <3>4. QED BY <3>2, <3>3
  <2>9. StackOK'
    BY <2>1, <2>7, <2>8 DEF StackOK
  <2>10. QED BY <2>1, <2>2, <2>6, <2>9 DEF IInv, HoldersOK, UnbindOK
<1>3. ASSUME InitDone PROVE IInv'
  <2> DEFINE d == Head(stack)
  <2>1. /\ pc = "init" /\ d # Scu /\ DepReady(d) /\ Ready(d)
        /\ UNCHANGED <<alive, wasLocked, scuLock, initLock, leaked, lockLost>>
    BY <1>3 DEF InitDone
  <2>2. d \in Devices /\ drv[d] = "bound" /\ d \notin holders
    BY <2>1, HeadOK
  <2>3. /\ StackOK' /\ UnbindOK'
        /\ pc' \in {"idle", "init"} /\ next' = next /\ gets' = gets
        /\ stack' \in Seq(Devices) /\ (pc' = "init" => stack' # <<>>)
        /\ drv' = [drv EXCEPT ![d] = "ready"]
    BY <2>1, ReadyOK
  <2>4. drv' \in [Devices -> {"bound", "ready", "gone"}] /\ drv'[Scu] = drv[Scu]
    BY <2>1, <2>2, <2>3 DEF IInv, TypeOK
  <2>5. CASE Dep[d] = Scu
    <3>1. refcnt' = refcnt + 1 /\ holders' = holders \union {d}
      BY <1>3, <2>5 DEF InitDone
    <3>2. alive
      <4>1. drv[Scu] = "ready"
        BY <2>1, <2>5 DEF DepReady
      <4>2. Scu \in holders
        BY <4>1 DEF IInv, HoldersOK, CountsRef
      <4>3. QED BY <4>2 DEF IInv, CountOK
    <3>3. CountOK'
      <4>1. /\ refcnt = Cardinality(holders) + leaked /\ refcnt > 0 /\ drv[Scu] # "bound"
            /\ refcnt \in Nat /\ leaked \in Nat /\ Cardinality(holders) \in Nat
        BY <3>2, HoldersFinite DEF IInv, CountOK, TypeOK
      <4>2. Cardinality(holders') = Cardinality(holders) + 1
        BY <2>2, <3>1, HoldersFinite DEF IInv
      <4>3. alive' /\ leaked' = leaked
        BY <2>1, <3>2
      <4>4. refcnt' = Cardinality(holders') + leaked' /\ refcnt' > 0
        BY <3>1, <4>1, <4>2, <4>3
      <4>5. QED BY <2>4, <4>1, <4>3, <4>4 DEF CountOK
    <3>4. LockOK'
      <4>1. scuLock = "unlocked" /\ (~lockLost => wasLocked = initLock)
        BY <3>2 DEF IInv, LockOK
      <4>2. QED BY <2>1, <3>2, <4>1 DEF LockOK
    <3>5. HoldersOK'
      <4>1. \A x \in Devices : drv'[x] = IF x = d THEN "ready" ELSE drv[x]
        BY <2>2, <2>3 DEF IInv, TypeOK
      <4>2. CountsRef(d)
        BY <2>5 DEF CountsRef
      <4>3. holders = {x \in Devices : CountsRef(x) /\ drv[x] = "ready"}
        BY DEF IInv, HoldersOK
      <4>4. holders' = {x \in Devices : CountsRef(x) /\ drv'[x] = "ready"}
        BY <2>2, <3>1, <4>1, <4>2, <4>3
      <4>5. QED BY <4>4 DEF HoldersOK, CountsRef
    <3>6. TypeOK'
      BY <1>0, <2>1, <2>2, <2>3, <2>4, <3>1 DEF IInv, TypeOK
    <3>7. QED BY <2>3, <3>3, <3>4, <3>5, <3>6 DEF IInv
  <2>6. CASE Dep[d] # Scu
    <3>1. refcnt' = refcnt /\ holders' = holders
      BY <1>3, <2>6 DEF InitDone
    <3>2. CountOK' /\ LockOK'
      BY <2>1, <2>4, <3>1, SameScu DEF scu
    <3>3. HoldersOK'
      BY <2>1, <2>2, <2>3, <2>6, <3>1 DEF IInv, HoldersOK, TypeOK, CountsRef
    <3>4. TypeOK'
      BY <1>0, <2>1, <2>3, <2>4, <3>1 DEF IInv, TypeOK
    <3>5. QED BY <2>3, <3>2, <3>3, <3>4 DEF IInv
  <2>7. QED BY <2>5, <2>6
<1>4. ASSUME InitFails PROVE IInv'
  <2>1. /\ pc = "init" /\ DepReady(Head(stack)) /\ Abort
        /\ UNCHANGED <<alive, wasLocked, scuLock, initLock, holders, lockLost>>
    BY <1>4 DEF InitFails
  <2>2. /\ StackOK' /\ UnbindOK' /\ pc' = "idle" /\ stack' = <<>>
        /\ next' = next /\ gets' = gets /\ drv' = drv
    BY <2>1, AbortOK
  <2>3. HoldersOK'
    BY <2>1, <2>2 DEF IInv, HoldersOK
  <2>4. CASE UNCHANGED <<refcnt, leaked>>
    <3>1. CountOK' /\ LockOK'
      BY <2>1, <2>2, <2>4, SameScu DEF scu
    <3>2. TypeOK'
      BY <1>0, <2>1, <2>2, <2>4 DEF IInv, TypeOK
    <3>3. QED BY <2>2, <2>3, <3>1, <3>2 DEF IInv
  <2>5. CASE Dep[Head(stack)] = Scu /\ refcnt' = refcnt + 1 /\ leaked' = leaked + 1
    <3>1. alive
      <4>1. drv[Scu] = "ready"
        BY <2>1, <2>5 DEF DepReady
      <4>2. Scu \in holders
        BY <4>1 DEF IInv, HoldersOK, CountsRef
      <4>3. QED BY <4>2 DEF IInv, CountOK
    <3>2. CountOK'
      <4>1. /\ refcnt = Cardinality(holders) + leaked /\ refcnt > 0 /\ drv[Scu] # "bound"
            /\ refcnt \in Nat /\ leaked \in Nat /\ Cardinality(holders) \in Nat
        BY <3>1, HoldersFinite DEF IInv, CountOK, TypeOK
      <4>2. refcnt' = Cardinality(holders') + leaked' /\ refcnt' > 0
        BY <2>1, <2>5, <4>1
      <4>3. alive'
        BY <2>1, <3>1
      <4>4. QED BY <2>2, <4>1, <4>2, <4>3 DEF CountOK
    <3>3. LockOK'
      <4>1. scuLock = "unlocked" /\ (~lockLost => wasLocked = initLock)
        BY <3>1 DEF IInv, LockOK
      <4>2. QED BY <2>1, <3>1, <4>1 DEF LockOK
    <3>4. TypeOK'
      BY <1>0, <2>1, <2>2, <2>5 DEF IInv, TypeOK
    <3>5. QED BY <2>2, <2>3, <3>2, <3>3, <3>4 DEF IInv
  <2>6. QED BY <1>4, <2>4, <2>5 DEF InitFails
<1>5. ASSUME scu_driver_init PROVE IInv'
  <2>1. /\ pc = "init" /\ Head(stack) = Scu /\ Ready(Head(stack))
        /\ alive' = TRUE /\ refcnt' = 1 /\ holders' = holders \union {Scu}
        /\ wasLocked' = scuLock /\ scuLock' = "unlocked"
        /\ initLock' = initLock /\ leaked' = leaked /\ lockLost' = lockLost
    BY <1>5 DEF scu_driver_init
  <2>2. drv[Scu] = "bound" /\ Scu \notin holders
    BY <2>1, HeadOK
  <2>3. /\ StackOK' /\ UnbindOK'
        /\ pc' \in {"idle", "init"} /\ next' = next /\ gets' = gets
        /\ stack' \in Seq(Devices) /\ (pc' = "init" => stack' # <<>>)
        /\ drv' = [drv EXCEPT ![Scu] = "ready"]
    BY <2>1, ReadyOK
  <2>4. ~alive /\ holders = {} /\ leaked = 0
    BY <2>2 DEF IInv, CountOK
  <2>5. drv' \in [Devices -> {"bound", "ready", "gone"}] /\ drv'[Scu] = "ready"
    BY <2>3 DEF IInv, TypeOK
  <2>6. CountOK'
    <3>1. Cardinality(holders') = 1
      <4>1. holders' = {Scu}
        BY <2>1, <2>4
      <4>2. QED BY <4>1, FS_Singleton
    <3>2. QED BY <2>1, <2>4, <2>5, <3>1 DEF CountOK
  <2>7. LockOK'
    <3>1. ~lockLost => scuLock = initLock
      BY <2>4 DEF IInv, LockOK
    <3>2. QED BY <2>1, <3>1 DEF LockOK
  <2>8. HoldersOK'
    BY <2>1, <2>3 DEF IInv, HoldersOK, TypeOK, CountsRef
  <2>9. TypeOK'
    BY <1>0, <2>1, <2>3, <2>5 DEF IInv, TypeOK
  <2>10. QED BY <2>3, <2>6, <2>7, <2>8, <2>9 DEF IInv
<1>6. ASSUME scu_driver_init_fails PROVE IInv'
  <2>1. /\ pc = "init" /\ Head(stack) = Scu /\ Abort
        /\ UNCHANGED <<alive, refcnt, wasLocked, initLock, holders, leaked>>
    BY <1>6 DEF scu_driver_init_fails, scu
  <2>2. /\ StackOK' /\ UnbindOK' /\ pc' = "idle" /\ stack' = <<>>
        /\ next' = next /\ gets' = gets /\ drv' = drv
    BY <2>1, AbortOK
  <2>3. ~alive /\ holders = {} /\ refcnt = 0 /\ leaked = 0
    <3>1. drv[Scu] = "bound"
      BY <2>1, HeadOK
    <3>2. QED BY <3>1 DEF IInv, CountOK
  <2>4. CountOK'
    BY <2>1, <2>3 DEF CountOK
  <2>5. LockOK'
    <3>1. CASE UNCHANGED <<scuLock, lockLost>>
      BY <2>1, <2>3, <3>1 DEF IInv, LockOK
    <3>2. CASE lockLost' = TRUE
      BY <2>1, <2>3, <3>2 DEF LockOK
    <3>3. QED BY <1>6, <3>1, <3>2 DEF scu_driver_init_fails
  <2>6. scuLock' \in {"locked", "unlocked"}
    BY <1>6 DEF scu_driver_init_fails, IInv, TypeOK
  <2>7. TypeOK'
    BY <1>0, <2>1, <2>2, <2>6 DEF IInv, TypeOK
  <2>8. QED BY <2>1, <2>2, <2>4, <2>5, <2>7 DEF IInv, HoldersOK
<1>7. ASSUME CmdPut PROVE IInv'
  <2>1. /\ pc = "idle" /\ drv[Cmd] = "ready" /\ scu_put(Cmd)
        /\ drv' = [drv EXCEPT ![Cmd] = "bound"]
        /\ UNCHANGED <<pc, stack, next, gets>>
    BY <1>7 DEF CmdPut
  <2>2. Cmd \in holders
    BY <2>1 DEF IInv, HoldersOK, CountsRef
  <2>3. drv' \in [Devices -> {"bound", "ready", "gone"}] /\ drv'[Scu] = drv[Scu]
    BY <2>1 DEF IInv, TypeOK
  <2>4. drv[Scu] # "bound"
    BY <2>2 DEF IInv, CountOK
  <2>5. CountOK' /\ LockOK'
    BY <2>1, <2>2, <2>3, <2>4, PutOK
  <2>6. HoldersOK'
    <3>1. holders' = holders \ {Cmd}
      BY <2>1 DEF scu_put
    <3>2. QED BY <2>1, <3>1 DEF IInv, HoldersOK, TypeOK, CountsRef
  <2>7. StackOK' /\ UnbindOK'
    BY <2>1 DEF IInv, StackOK, UnbindOK
  <2>8. TypeOK'
    BY <1>0, <2>1, <2>2, <2>3, PutTypes DEF IInv, TypeOK
  <2>9. QED BY <2>5, <2>6, <2>7, <2>8 DEF IInv
<1>8. ASSUME soc_destroy PROVE IInv'
  <2>1. /\ pc = "idle" /\ drv[Cmd] = "bound" /\ pc' = "destroy"
        /\ UNCHANGED <<stack, next, gets, drv, scu, scuLock, initLock, holders, leaked, lockLost>>
    BY <1>8 DEF soc_destroy
  <2>2. CountOK' /\ LockOK'
    BY <2>1, SameScu
  <2>3. TypeOK' /\ HoldersOK' /\ StackOK'
    BY <1>0, <2>1 DEF IInv, TypeOK, HoldersOK, StackOK, scu
  <2>4. UnbindOK'
    BY <2>1 DEF IInv, UnbindOK
  <2>5. QED BY <2>2, <2>3, <2>4 DEF IInv
<1>9. ASSUME soc_unbind_drivers PROVE IInv'
  <2>1. pc = "destroy" /\ stack' = stack /\ gets' = gets /\ next \in 1 .. NDev + 1
    BY <1>9 DEF soc_unbind_drivers, IInv, TypeOK
  <2>2. stack = <<>> /\ drv[Cmd] = "bound"
    BY <2>1 DEF IInv, StackOK, UnbindOK
  <2>3. CASE next > NDev
    <3>1. /\ pc' = "done" /\ next' = next /\ drv' = drv
          /\ UNCHANGED <<scu, scuLock, initLock, holders, leaked, lockLost>>
      BY <1>9, <2>3 DEF soc_unbind_drivers
    <3>2. CountOK' /\ LockOK'
      BY <3>1, SameScu
    <3>3. TypeOK' /\ HoldersOK' /\ StackOK'
      BY <1>0, <2>1, <2>2, <3>1 DEF IInv, TypeOK, HoldersOK, StackOK, scu
    <3>4. UnbindOK'
      BY <2>1, <2>3, <3>1 DEF IInv, UnbindOK
    <3>5. QED BY <3>2, <3>3, <3>4 DEF IInv
  <2>4. CASE next <= NDev
    <3> DEFINE d == Order[next]
    <3>1. d \in Devices /\ d # Cmd
      BY <2>1, <2>4
    <3>2. /\ next' = next + 1 /\ pc' = pc
          /\ IF drv[d] = "ready"
               THEN Destroy(d)
               ELSE /\ drv' = [drv EXCEPT ![d] = "gone"]
                    /\ UNCHANGED <<scu, scuLock, initLock, holders, leaked, lockLost>>
      BY <1>9, <2>1, <2>4 DEF soc_unbind_drivers
    <3>3. drv' = [drv EXCEPT ![d] = "gone"]
      BY <3>2 DEF Destroy
    <3>4. /\ drv' \in [Devices -> {"bound", "ready", "gone"}]
          /\ \A x \in Devices : drv'[x] = IF x = d THEN "gone" ELSE drv[x]
          /\ (drv'[Scu] = "bound" => drv[Scu] = "bound")
      BY <3>1, <3>3 DEF IInv, TypeOK
    <3>5. StackOK'
      BY <2>1, <2>2, <3>2 DEF StackOK
    <3>6. UnbindOK'
      <4>1. ASSUME NEW i \in 1 .. NDev, i < next' PROVE drv'[Order[i]] = "gone"
        <5>1. CASE i = next
          BY <3>1, <3>4, <5>1
        <5>2. CASE i # next
          <6>1. i < next /\ Order[i] \in Devices
            BY <2>1, <3>2, <4>1, <5>2
          <6>2. drv[Order[i]] = "gone"
            BY <2>1, <6>1 DEF IInv, UnbindOK
          <6>3. QED BY <3>4, <6>1, <6>2
        <5>3. QED BY <5>1, <5>2
      <4>2. drv'[Cmd] = "bound"
        BY <2>2, <3>1, <3>4
      <4>3. QED BY <2>1, <3>2, <4>1, <4>2 DEF UnbindOK
    <3>7. holders = {x \in Devices : CountsRef(x) /\ drv[x] = "ready"}
      BY DEF IInv, HoldersOK
    <3>8. ASSUME holders' = holders \ {d} PROVE HoldersOK'
      <4>1. holders' = {x \in Devices : CountsRef(x) /\ drv'[x] = "ready"}
        BY <3>4, <3>7, <3>8
      <4>2. QED BY <4>1 DEF HoldersOK, CountsRef
    <3>9. next' \in 1 .. NDev + 1
      BY <2>1, <2>4, <3>2
    <3>10. CASE drv[d] # "ready" \/ ~CountsRef(d)
      <4>1. UNCHANGED <<scu, scuLock, initLock, holders, leaked, lockLost>>
        BY <3>2, <3>10 DEF Destroy
      <4>2. CountOK' /\ LockOK'
        BY <3>4, <4>1, SameScu
      <4>3. HoldersOK'
        BY <3>7, <3>8, <3>10, <4>1
      <4>4. TypeOK'
        BY <1>0, <2>1, <3>2, <3>4, <3>9, <4>1 DEF IInv, TypeOK, scu
      <4>5. QED BY <3>5, <3>6, <4>2, <4>3, <4>4 DEF IInv
    <3>11. CASE drv[d] = "ready" /\ CountsRef(d) /\ d \notin Keeps
      <4>1. d \in holders /\ scu_put(d)
        BY <3>1, <3>2, <3>7, <3>11 DEF Destroy
      <4>2. drv[Scu] # "bound"
        BY <4>1 DEF IInv, CountOK
      <4>3. CountOK' /\ LockOK'
        BY <3>4, <4>1, <4>2, PutOK
      <4>4. HoldersOK'
        BY <3>8, <4>1 DEF scu_put
      <4>5. TypeOK'
        BY <1>0, <2>1, <3>2, <3>4, <3>9, <4>1, PutTypes DEF IInv, TypeOK
      <4>6. QED BY <3>5, <3>6, <4>3, <4>4, <4>5 DEF IInv
    <3>12. CASE drv[d] = "ready" /\ CountsRef(d) /\ d \in Keeps
      <4>1. /\ d \in holders /\ holders' = holders \ {d} /\ leaked' = leaked + 1
            /\ UNCHANGED <<alive, refcnt, wasLocked, scuLock, initLock, lockLost>>
        BY <3>1, <3>2, <3>7, <3>12 DEF Destroy, scu
      <4>2. /\ alive /\ refcnt = Cardinality(holders) + leaked /\ refcnt > 0
            /\ drv[Scu] # "bound" /\ leaked \in Nat /\ Cardinality(holders) \in Nat
        BY <4>1, HoldersFinite DEF IInv, CountOK, TypeOK
      <4>3. Cardinality(holders') = Cardinality(holders) - 1
        BY <4>1, HoldersFinite DEF IInv
      <4>4. CountOK'
        <5>1. refcnt' = Cardinality(holders') + leaked' /\ refcnt' > 0
          BY <4>1, <4>2, <4>3
        <5>2. alive' /\ drv'[Scu] # "bound"
          BY <3>4, <4>1, <4>2
        <5>3. QED BY <5>1, <5>2 DEF CountOK
      <4>5. LockOK'
        <5>1. scuLock = "unlocked" /\ (~lockLost => wasLocked = initLock)
          BY <4>2 DEF IInv, LockOK
        <5>2. QED BY <4>1, <4>2, <5>1 DEF LockOK
      <4>6. HoldersOK'
        BY <3>8, <4>1
      <4>7. TypeOK'
        BY <1>0, <2>1, <3>2, <3>4, <3>9, <4>1 DEF IInv, TypeOK
      <4>8. QED BY <3>5, <3>6, <4>4, <4>5, <4>6, <4>7 DEF IInv
    <3>13. QED BY <3>10, <3>11, <3>12
  <2>5. QED BY <2>1, <2>3, <2>4
<1>10. CASE UNCHANGED vars
  <2>1. CountOK' /\ LockOK'
    BY <1>10, SameScu DEF vars, soc
  <2>2. QED
    BY <1>0, <1>10, <2>1
    DEF vars, soc, scu, IInv, TypeOK, StackOK, HoldersOK, UnbindOK
<1>11. QED
  BY <1>1, <1>2, <1>3, <1>4, <1>5, <1>6, <1>7, <1>8, <1>9, <1>10 DEF Next

-----------------------------------------------------------------------------
(***************************************************************************)
(* Discovery: which bridge that is, and what becomes of the others.        *)
(***************************************************************************)
\* A failed step, among the given ones, by which r may have stayed open.
Excused(r, steps) ==
  \E s \in H!Steps : <<r[1], s>> \in steps /\ <<r[1], s, r[2]>> \in H!MayStay

Listed(d) == \E i \in 1 .. Len(bridges) : bridges[i].drv = d

\* Every driver that holds something is on the list, or has failed at a step
\* that leaves it open; and every bridge on the list of a machine with a
\* SuperIO and without a FW space works.
HostInv ==
  /\ plat \in Platforms /\ disabled \subseteq H!Drivers
  /\ via \in H!Drivers \union {None} /\ tried \in Nat \ {0}
  /\ hostPc \in {"init", "use", "destroy", "done", "failed", "aborted"}
  /\ bridges \in Seq([drv : H!Drivers, ctx : {"live", "dead", "torn"}])
  /\ hostPc \notin {"failed", "aborted"} =>
       \A r \in open : Listed(r[1]) \/ Excused(r, faults)
  /\ hostPc = "init" => hostAhb = H!NoAhb
  /\ hostPc = "use" /\ hostAhb.drv = "devmem" => Listed("devmem")
  /\ plat.sio /\ ~plat.fw =>
       /\ \A i \in 1 .. Len(bridges) : bridges[i].ctx = "live"
       /\ hostAhb # H!NoAhb => hostAhb.ctx = "live"
  /\ hostPc = "done" => bridges = <<>>

\* More failures excuse more.
LEMMA ExcusedGrows ==
  ASSUME NEW r, NEW S, NEW T, Excused(r, S)
  PROVE  Excused(r, S \union T)
  BY DEF Excused

\* What a destroy function leaves open is excused by the step it failed at
\* (bridge/*.c).
LEMMA DestroyOutcome ==
  ASSUME NEW b \in H!Drivers, NEW c \in H!Destroy(b)
  PROVE  \A x \in c.left : Excused(<<b, x>>, H!Of(b, c.faults))
<1> USE DEF Excused, H!Of, H!MayStay, H!Steps, H!Clean, H!Left
<1>1. CASE b = "ilpc"
  <2>1. c \in H!ilpcb_destroy
    BY <1>1 DEF H!Destroy
  <2>2. QED BY <2>1 DEF H!ilpcb_destroy
<1>2. CASE b = "l2a"
  <2>1. c \in H!l2ab_destroy
    BY <1>2 DEF H!Destroy
  <2>2. QED BY <1>2, <2>1 DEF H!l2ab_destroy
<1>3. CASE b = "p2a"
  <2>1. c \in H!p2ab_destroy
    BY <1>3 DEF H!Destroy
  <2>2. QED BY <1>3, <2>1 DEF H!p2ab_destroy
<1>4. CASE b = "devmem"
  <2>1. c \in H!devmem_destroy
    BY <1>4 DEF H!Destroy
  <2>2. QED BY <1>4, <2>1 DEF H!devmem_destroy
<1>5. CASE b = "debug-uart"
  <2>1. c \in H!debug_destroy
    BY <1>5 DEF H!Destroy
  <2>2. QED BY <1>5, <2>1 DEF H!debug_destroy
<1>6. QED
  BY <1>1, <1>2, <1>3, <1>4, <1>5 DEF H!Drivers

\* What a probe returns: a context that is not null, or nothing open that no
\* failing step excuses; and a bridge that works if there is a SuperIO and no
\* FW space (bridge/*.c).
LEMMA ProbeOutcome ==
  ASSUME NEW b \in H!Drivers, NEW o \in H!Probe(b)
  PROVE  /\ o.ctx \in {"null", "live", "dead", "torn"}
         /\ o.ctx = "null" => \A x \in o.held : Excused(<<b, x>>, H!Of(b, o.faults))
         /\ plat.sio /\ ~plat.fw => o.ctx \in {"null", "live"}
<1> DEFINE Good == /\ o.ctx \in {"null", "live", "dead", "torn"}
                   /\ o.ctx = "null" => \A x \in o.held : Excused(<<b, x>>, H!Of(b, o.faults))
                   /\ plat.sio /\ ~plat.fw => o.ctx \in {"null", "live"}
<1>1. ASSUME o \in H!Failed(H!Destroy(b)) PROVE Good
  <2>1. PICK c \in H!Destroy(b) : o = H!Outcome("null", c.left, c.faults)
    BY <1>1 DEF H!Failed
  <2>2. o.ctx = "null" /\ o.held = c.left /\ o.faults = c.faults
    BY <2>1 DEF H!Outcome
  <2>3. QED BY <2>2, DestroyOutcome
<1>2. ASSUME o = H!Null PROVE Good
  BY <1>2 DEF H!Null, H!Outcome
<1>3. ASSUME NEW held, o = H!Outcome("live", held, {}) PROVE Good
  BY <1>3 DEF H!Outcome
<1>4. CASE b = "ilpc"
  <2>1. o \in H!ilpcb_driver_probe /\ H!Destroy(b) = H!ilpcb_destroy
    BY <1>4 DEF H!Probe, H!Destroy
  <2>2. \/ o = H!Null \/ o = H!Outcome("live", {"io"}, {}) \/ o \in H!Failed(H!Destroy(b))
        \/ ~plat.sio /\ o = H!Outcome("dead", {"io"}, {})
    BY <2>1 DEF H!ilpcb_driver_probe
  <2>3. ASSUME ~plat.sio, o = H!Outcome("dead", {"io"}, {}) PROVE Good
    BY <2>3 DEF H!Outcome
  <2>4. QED BY <1>1, <1>2, <1>3, <2>2, <2>3
<1>5. CASE b = "l2a"
  <2>1. o \in H!l2ab_driver_probe
    BY <1>5 DEF H!Probe
  <2>2. \/ o = H!Null \/ o = H!Outcome("null", {"fw"}, {"init"})
        \/ plat.fw /\ (o = H!Outcome("dead", {"fw", "io"}, {}) \/ o = H!Outcome("torn", {}, {}))
    BY <2>1 DEF H!l2ab_driver_probe
  <2>3. ASSUME o = H!Outcome("null", {"fw"}, {"init"}) PROVE Good
    <3>1. o.ctx = "null" /\ o.held = {"fw"} /\ o.faults = {"init"}
      BY <2>3 DEF H!Outcome
    <3>2. Excused(<<"l2a", "fw">>, H!Of("l2a", {"init"}))
      BY DEF Excused, H!Of, H!MayStay, H!Steps
    <3>3. QED BY <1>5, <3>1, <3>2
  <2>4. ASSUME plat.fw, o = H!Outcome("dead", {"fw", "io"}, {}) \/ o = H!Outcome("torn", {}, {})
        PROVE  Good
    BY <2>4 DEF H!Outcome
  <2>5. QED BY <1>2, <2>2, <2>3, <2>4
<1>6. CASE b = "p2a"
  <2>1. o \in H!p2ab_driver_probe /\ H!Destroy(b) = H!p2ab_destroy
    BY <1>6 DEF H!Probe, H!Destroy
  <2>2. \/ o = H!Null \/ o = H!Outcome("live", {"fd", "map", "key"}, {})
        \/ o \in H!Failed(H!Destroy(b))
    BY <2>1 DEF H!p2ab_driver_probe
  <2>3. QED BY <1>1, <1>2, <1>3, <2>2
<1>7. CASE b = "devmem"
  <2>1. o \in H!devmem_driver_probe /\ H!Destroy(b) = H!devmem_destroy
    BY <1>7 DEF H!Probe, H!Destroy
  <2>2. \/ o = H!Null \/ o = H!Outcome("live", {"fd", "map"}, {})
        \/ o \in H!Failed(H!Destroy(b))
    BY <2>1 DEF H!devmem_driver_probe
  <2>3. QED BY <1>1, <1>2, <1>3, <2>2
<1>8. CASE b = "debug-uart"
  <2>1. o \in H!debug_driver_probe /\ H!Destroy(b) = H!debug_destroy
    BY <1>8 DEF H!Probe, H!Destroy
  <2>2. \/ o \in H!Failed(H!Destroy(b))
        \/ \E held \in {{"fd"}, {"fd", "control"}} : o = H!Outcome("live", held, {})
        \/ \E c \in H!Destroy(b) :
             o = H!Outcome("null", {"fd"} \union c.left, {"stream"} \union c.faults)
    BY <2>1 DEF H!debug_driver_probe
  <2>3. ASSUME NEW c \in H!Destroy(b),
               o = H!Outcome("null", {"fd"} \union c.left, {"stream"} \union c.faults)
        PROVE  Good
    <3>1. o.ctx = "null" /\ o.held = {"fd"} \union c.left /\ o.faults = {"stream"} \union c.faults
      BY <2>3 DEF H!Outcome
    <3>2. H!Of(b, o.faults) = H!Of(b, c.faults) \union {<<b, "stream">>}
      BY <3>1 DEF H!Of
    <3>3. Excused(<<b, "fd">>, {<<b, "stream">>})
      BY <1>8 DEF Excused, H!MayStay, H!Steps
    <3>4. ASSUME NEW x \in o.held PROVE Excused(<<b, x>>, H!Of(b, o.faults))
      <4>1. CASE x = "fd"
        BY <3>2, <3>3, <4>1 DEF Excused
      <4>2. CASE x \in c.left
        BY <3>2, <4>2, DestroyOutcome, ExcusedGrows
      <4>3. QED BY <3>1, <4>1, <4>2
    <3>5. QED BY <3>1, <3>4
  <2>4. QED BY <1>1, <1>3, <2>2, <2>3
<1>9. QED
  BY <1>4, <1>5, <1>6, <1>7, <1>8 DEF H!Drivers

\* host_probe_bridge() keeps the list and what is open in step.
LEMMA ProbeBridgeStep ==
  ASSUME HostInv, NEW b \in H!Drivers, H!host_probe_bridge(b),
         hostPc = "init", hostPc' \in {"init", "use"},
         plat' = plat, disabled' = disabled, via' = via, hostAhb' = hostAhb,
         tried' \in Nat \ {0}, None \notin H!Drivers
  PROVE  HostInv'
<1> DEFINE Node == [drv : H!Drivers, ctx : {"live", "dead", "torn"}]
<1>0. hostAhb' = H!NoAhb /\ hostAhb'.drv # "devmem"
  BY DEF HostInv, H!NoAhb, H!Drivers
<1>1. CASE UNCHANGED <<bridges, open, faults>>
  BY <1>0, <1>1 DEF HostInv, H!NoAhb, Listed, Excused
<1>2. ASSUME NEW o \in H!Probe(b), H!Take(b, o),
             bridges' = IF o.ctx = "null" THEN bridges
                        ELSE <<[drv |-> b, ctx |-> o.ctx]>> \o bridges
      PROVE  HostInv'
  <2> DEFINE node == [drv |-> b, ctx |-> o.ctx]
  <2>1. /\ o.ctx \in {"null", "live", "dead", "torn"}
        /\ o.ctx = "null" => \A x \in o.held : Excused(<<b, x>>, H!Of(b, o.faults))
        /\ plat.sio /\ ~plat.fw => o.ctx \in {"null", "live"}
    BY ProbeOutcome
  <2>2. /\ open' = open \union H!Of(b, o.held) /\ faults' = faults \union H!Of(b, o.faults)
        /\ \A r \in H!Of(b, o.held) : \E x \in o.held : r = <<b, x>>
    BY <1>2 DEF H!Take, H!Of
  <2>3. bridges \in Seq(Node) /\ \A r \in open : Listed(r[1]) \/ Excused(r, faults)
    BY DEF HostInv
  <2>4. /\ bridges' \in Seq(Node)
        /\ \A d : Listed(d) => Listed(d)'
        /\ o.ctx # "null" => Listed(b)'
        /\ plat.sio /\ ~plat.fw => \A i \in 1 .. Len(bridges') : bridges'[i].ctx = "live"
    <3>1. CASE o.ctx = "null"
      BY <1>2, <2>3, <3>1 DEF Listed, HostInv
    <3>2. CASE o.ctx # "null"
      <4>1. node \in Node /\ bridges' = <<node>> \o bridges
        BY <1>2, <2>1, <3>2
      <4>2. /\ bridges' \in Seq(Node) /\ Len(bridges') = Len(bridges) + 1
            /\ bridges'[1] = node
            /\ \A i \in 1 .. Len(bridges) : bridges'[i + 1] = bridges[i]
            /\ \A i \in 1 .. Len(bridges') : i = 1 \/ bridges'[i] = bridges[i - 1]
        BY <2>3, <4>1
      <4>3. node.drv = b /\ node.ctx = o.ctx
        OBVIOUS
      <4> HIDE DEF Node, node
      <4>4. ASSUME NEW d, Listed(d) PROVE Listed(d)'
        <5>1. PICK i \in 1 .. Len(bridges) : bridges[i].drv = d
          BY <4>4 DEF Listed
        <5>2. i + 1 \in 1 .. Len(bridges') /\ bridges'[i + 1].drv = d
          BY <2>3, <4>2, <5>1
        <5>3. QED BY <5>2 DEF Listed
      <4>5. Listed(b)'
        BY <2>3, <4>2, <4>3 DEF Listed
      <4>6. ASSUME plat.sio /\ ~plat.fw, NEW i \in 1 .. Len(bridges')
            PROVE  bridges'[i].ctx = "live"
        <5>1. CASE i = 1
          BY <2>1, <3>2, <4>2, <4>3, <4>6, <5>1
        <5>2. CASE i # 1
          <6>1. i - 1 \in 1 .. Len(bridges) /\ bridges'[i] = bridges[i - 1]
            BY <2>3, <4>2, <5>2
          <6>2. QED BY <4>6, <6>1 DEF HostInv
        <5>3. QED BY <5>1, <5>2
      <4>7. QED BY <4>2, <4>4, <4>5, <4>6
    <3>3. QED BY <3>1, <3>2
  <2>5. ASSUME NEW r \in open' PROVE Listed(r[1])' \/ Excused(r, faults')
    <3>1. CASE r \in open
      BY <2>2, <2>3, <2>4, <3>1, ExcusedGrows
    <3>2. CASE r \in H!Of(b, o.held)
      <4>1. PICK x \in o.held : r = <<b, x>>
        BY <2>2, <3>2
      <4>2. CASE o.ctx = "null"
        <5>1. Excused(r, H!Of(b, o.faults))
          BY <2>1, <4>1, <4>2
        <5>2. QED BY <2>2, <5>1 DEF Excused
      <4>3. CASE o.ctx # "null"
        BY <2>4, <4>1, <4>3
      <4>4. QED BY <4>2, <4>3
    <3>3. QED BY <2>2, <3>1, <3>2
  <2>6. \A r \in open' : Listed(r[1])' \/ Excused(r, faults)'
    BY <2>5 DEF Excused
  <2>7. bridges' \in Seq([drv : H!Drivers, ctx : {"live", "dead", "torn"}])
    BY <2>4
  <2> HIDE DEF Node
  <2>8. QED
    BY <1>0, <2>4, <2>6, <2>7 DEF HostInv, H!NoAhb
<1>3. QED
  BY <1>1, <1>2 DEF H!host_probe_bridge

\* host_destroy() takes the head off the list, and what stays open of it is
\* excused.
LEMMA DestroyStep ==
  ASSUME HostInv, bridges # <<>>, hostPc \in {"use", "destroy"}, hostPc' = "destroy",
         bridges' = Tail(bridges), NEW c \in H!Destroy(bridges[1].drv),
         open' = {r \in open : r[1] # bridges[1].drv \/ r[2] \in c.left},
         faults' = faults \union H!Of(bridges[1].drv, c.faults),
         UNCHANGED <<plat, disabled, via, tried, hostAhb>>
  PROVE  HostInv'
<1> DEFINE Node == [drv : H!Drivers, ctx : {"live", "dead", "torn"}]
           b == bridges[1].drv
<1>1. bridges \in Seq(Node) /\ \A r \in open : Listed(r[1]) \/ Excused(r, faults)
  BY DEF HostInv
<1> HIDE DEF Node
<1>2. b \in H!Drivers
  <2>1. 1 \in 1 .. Len(bridges)
    BY <1>1
  <2>2. bridges[1] \in Node
    BY <1>1, <2>1
  <2>3. QED BY <2>2 DEF Node
<1>3. \A x \in c.left : Excused(<<b, x>>, H!Of(b, c.faults))
  BY <1>2, DestroyOutcome
<1>4. /\ bridges' \in Seq(Node) /\ Len(bridges') = Len(bridges) - 1
      /\ \A i \in 1 .. Len(bridges') :
           i + 1 \in 1 .. Len(bridges) /\ bridges'[i] = bridges[i + 1]
  BY <1>1
<1>5. ASSUME NEW r \in open' PROVE Listed(r[1])' \/ Excused(r, faults)'
  <2>1. CASE Excused(r, faults)
    BY <2>1 DEF Excused
  <2>2. CASE r[1] = b
    <3>1. r[2] \in c.left
      BY <2>2
    <3>2. Excused(r, H!Of(b, c.faults))
      BY <1>3, <2>2, <3>1 DEF Excused
    <3>3. QED BY <3>2 DEF Excused
  <2>3. CASE r[1] # b /\ Listed(r[1])
    <3>1. PICK i \in 1 .. Len(bridges) : bridges[i].drv = r[1]
      BY <2>3 DEF Listed
    <3>2. i # 1
      BY <2>3, <3>1
    <3>3. i - 1 \in 1 .. Len(bridges') /\ bridges'[i - 1] = bridges[i]
      BY <1>1, <1>4, <3>1, <3>2
    <3>4. QED BY <3>1, <3>3 DEF Listed
  <2>4. QED BY <1>1, <2>1, <2>2, <2>3
<1>6. ASSUME plat.sio /\ ~plat.fw, NEW i \in 1 .. Len(bridges')
      PROVE  bridges'[i].ctx = "live"
  BY <1>4, <1>6 DEF HostInv
<1>7. bridges' \in Seq([drv : H!Drivers, ctx : {"live", "dead", "torn"}])
  BY <1>4 DEF Node
<1>8. QED
  BY <1>5, <1>6, <1>7 DEF HostInv, H!NoAhb

\* One step per action of host.c.
LEMMA NextHostInv ==
  ASSUME H!HostAssumption, HostInv, [H!Next]_(H!vars)
  PROVE  HostInv'
<1>1. CASE H!host_init
  <2>1. CASE tried <= Len(BridgeOrder)
    <3>1. BridgeOrder[tried] \in H!Drivers
      BY <2>1 DEF H!HostAssumption, HostInv
    <3>2. H!host_probe_bridge(BridgeOrder[tried]) /\ tried' = tried + 1
          /\ hostPc' = hostPc /\ hostPc = "init"
          /\ plat' = plat /\ disabled' = disabled /\ via' = via /\ hostAhb' = hostAhb
      BY <1>1, <2>1 DEF H!host_init
    <3>3. tried' \in Nat \ {0}
      BY <3>2 DEF HostInv
    <3>4. QED BY <3>1, <3>2, <3>3, ProbeBridgeStep DEF H!HostAssumption
  <2>2. CASE ~(tried <= Len(BridgeOrder))
    BY <1>1, <2>2 DEF H!host_init, HostInv, H!NoAhb, H!HostAssumption, H!Drivers, Listed, Excused
  <2>3. QED BY <2>1, <2>2
<1>2. CASE H!host_init_named
  <2>1. via \in H!Drivers
    BY <1>2 DEF H!host_init_named, HostInv
  <2>2. H!host_probe_bridge(via) /\ tried' = tried /\ hostPc' = "use" /\ hostPc = "init"
        /\ plat' = plat /\ disabled' = disabled /\ via' = via /\ hostAhb' = hostAhb
    BY <1>2 DEF H!host_init_named
  <2>3. tried' \in Nat \ {0}
    BY <2>2 DEF HostInv
  <2>4. QED BY <2>1, <2>2, <2>3, ProbeBridgeStep DEF H!HostAssumption
<1>3. CASE H!host_init_nomem
  BY <1>3 DEF H!host_init_nomem, HostInv, H!NoAhb
<1>4. CASE H!host_get_ahb
  <2>1. 1 \in 1 .. Len(bridges) /\ hostAhb' = bridges[1]
    BY <1>4 DEF H!host_get_ahb, HostInv
  <2>2. QED
    BY <1>4, <2>1 DEF H!host_get_ahb, HostInv, H!NoAhb, Listed, Excused
<1>5. CASE H!devmem_setup_win
  <2>1. /\ \/ open' = open \union {H!Window} /\ faults' = faults
           \/ open' = open \ {H!Window} /\ faults' = faults
           \/ /\ open' = (open \ {H!Window}) \union {<<"devmem", "old">>}
              /\ faults' = faults \union {<<"devmem", "window">>}
        /\ hostPc = "use" /\ hostAhb.drv = "devmem"
        /\ UNCHANGED <<plat, disabled, via, hostPc, tried, bridges, hostAhb>>
    BY <1>5 DEF H!devmem_setup_win
  <2>2. Listed("devmem") /\ \A r \in open : Listed(r[1]) \/ Excused(r, faults)
    BY <2>1 DEF HostInv
  <2>3. ASSUME NEW r \in open' PROVE Listed(r[1]) \/ Excused(r, faults')
    <3>1. CASE r \in open
      BY <2>1, <2>2, <3>1 DEF Excused
    <3>2. CASE r \notin open
      <4>1. r[1] = "devmem"
        BY <2>1, <3>2 DEF H!Window
      <4>2. QED BY <2>2, <4>1
    <3>3. QED BY <3>1, <3>2
  <2>4. \A r \in open' : Listed(r[1])' \/ Excused(r, faults)'
    BY <2>1, <2>3 DEF Listed, Excused
  <2>5. QED
    BY <2>1, <2>4 DEF HostInv, H!NoAhb, Listed
<1>6. CASE H!host_destroy
  <2>1. CASE bridges = <<>>
    BY <1>6, <2>1 DEF H!host_destroy, HostInv, H!NoAhb, Listed, Excused
  <2>2. CASE bridges # <<>>
    <3>1. Head(bridges) = bridges[1]
      BY DEF HostInv
    <3>2. PICK c \in H!Destroy(bridges[1].drv) :
            /\ open' = {r \in open : r[1] # bridges[1].drv \/ r[2] \in c.left}
            /\ faults' = faults \union H!Of(bridges[1].drv, c.faults)
      BY <1>6, <2>2, <3>1 DEF H!host_destroy
    <3>3. /\ hostPc \in {"use", "destroy"} /\ hostPc' = "destroy" /\ bridges' = Tail(bridges)
          /\ UNCHANGED <<plat, disabled, via, tried, hostAhb>>
      BY <1>6, <2>2 DEF H!host_destroy
    <3>4. QED BY <2>2, <3>2, <3>3, DestroyStep
  <2>3. QED BY <2>1, <2>2
<1>7. CASE H!DestroyAborts
  BY <1>7 DEF H!DestroyAborts, HostInv, H!NoAhb, Listed
<1>8. CASE UNCHANGED H!vars
  BY <1>8 DEF H!vars, HostInv, H!NoAhb, Listed, Excused
<1>9. QED
  BY <1>1, <1>2, <1>3, <1>4, <1>5, <1>6, <1>7, <1>8 DEF H!Next

-----------------------------------------------------------------------------
(***************************************************************************)
(* What a session promises.                                                *)
(***************************************************************************)
\* For every set of drivers: the SCU context outlives its users, is unlocked
\* while it has any, and is left locked as it was found once soc_destroy() is
\* through, short of a leaked reference or a failed access to the lock.
THEOREM ScuCorrect == SessionSpec => [](HeldUsable /\ LockRestored)
<1>1. IInv /\ [Next]_vars => IInv'
  BY NextIInv
<1>2. ASSUME IInv PROVE HeldUsable /\ LockRestored
  <2>1. holders # {} => alive
    BY <1>2 DEF IInv, CountOK
  <2>2. HeldUsable
    BY <1>2, <2>1 DEF IInv, LockOK, HeldUsable
  <2>3. ASSUME pc = "done", ~lockLost, leaked = 0 PROVE scuLock = initLock
    <3>1. holders = {}
      <4>1. ASSUME NEW x \in Devices PROVE drv[x] # "ready"
        <5>1. CASE x = Cmd
          BY <1>2, <2>3, <5>1 DEF IInv, UnbindOK
        <5>2. CASE x # Cmd
          <6>1. PICK i \in 1 .. NDev : Order[i] = x
            BY <5>2, DriverAssumption
          <6>2. i < next
            BY <1>2, <2>3, DriverAssumption DEF IInv, UnbindOK
          <6>3. QED BY <1>2, <2>3, <6>1, <6>2 DEF IInv, UnbindOK
        <5>3. QED BY <5>1, <5>2
      <4>2. QED BY <1>2, <4>1 DEF IInv, HoldersOK
    <3>2. ~alive
      <4>1. CASE alive
        <5>1. refcnt = Cardinality(holders) + leaked /\ refcnt > 0
          BY <1>2, <4>1 DEF IInv, CountOK
        <5>2. QED BY <2>3, <3>1, <5>1, FS_EmptySet
      <4>2. QED BY <4>1
    <3>3. QED BY <1>2, <2>3, <3>2 DEF IInv, LockOK
  <2>4. QED BY <2>1, <2>2, <2>3 DEF LockRestored
<1>3. SessionSpec => Spec
  <2>1. SessionInit => Init
    BY DEF SessionInit
  <2>2. [SessionNext]_sessionVars => [Next]_vars
    BY DEF SessionNext, sessionVars, soc_probe, Command, Access, Bridge
  <2>3. QED BY <2>1, <2>2, PTL DEF SessionSpec, Spec
<1>4. QED BY InitIInv, <1>1, <1>2, <1>3, PTL DEF Spec

\* The invariant holds throughout.
LEMMA AlwaysHostInv == SessionSpec => []HostInv
<1>1. SessionInit => HostInv
  BY DEF SessionInit, H!Init, HostInv, H!NoAhb
<1>2. HostInv /\ [SessionNext]_sessionVars => HostInv'
  <2>1. [SessionNext]_sessionVars => [H!Next]_(H!vars)
    BY DEF SessionNext, sessionVars, soc_probe, Command, Access, Bridge, host, H!vars, H!Next
  <2>2. QED
    BY <2>1, NextHostInv, SessionAssumption
<1>3. QED
  BY <1>1, <1>2, PTL DEF SessionSpec

\* On every platform, with any bridges disabled or named and the drivers in
\* any order: behind host_destroy() the P2A is locked and everything that a
\* probe or an access has opened is closed, save what a step of the same
\* driver that failed may leave (host.c, bridge/*.c).
THEOREM ReleasedCorrect == SessionSpec => []Released
<1>1. HostInv => Released
  <2> SUFFICES ASSUME HostInv, hostPc = "done", NEW r \in open
               PROVE  Excused(r, faults)
    BY DEF Released, H!Released, Excused
  <2>1. Len(bridges) = 0
    BY DEF HostInv
  <2>2. QED BY <2>1 DEF HostInv, Listed
<1>2. QED
  BY <1>1, AlwaysHostInv, PTL

\* On every machine with a SuperIO and without a FW space, the bridge that
\* host_get_ahb() returns works, whichever drivers there are and in any order.
THEOREM PickedCorrect == SessionSpec => []Picked
<1>1. HostInv => Picked
  BY DEF HostInv, Picked, H!Picked
<1>2. QED
  BY <1>1, AlwaysHostInv, PTL

=============================================================================
