---------------------------- MODULE BridgesProofs ----------------------------
(***************************************************************************)
(* Proofs about the bridges, for every address space, window, page size,   *)
(* register block and number of calls, and for every way in which the      *)
(* accesses of a bridge fail.                                              *)
(***************************************************************************)
EXTENDS Bridges, SequenceTheorems, TLAPS

\* A call in progress, as ahb.h hands it to a driver.
CallOK ==
  busy => /\ phys \in Nat /\ len \in Nat \ {0} /\ done \in 0 .. len /\ op \in Ops
          /\ op \in {"readl", "writel"} => len = 1

\* The remap register is what the driver believes it to be wherever it may be
\* moved, and a call of several windows is at the start of one.
P2abInv ==
  /\ state \in {"down", "probe", "up", "reset", "gone"}
  /\ state \in {"probe", "up"} => hwRbar = rbar
  /\ CallOK /\ (busy => state = "up")
  /\ busy => len = 1 \/ done = len \/ (phys + done) % Window = 0

\* The window that is kept has a length, and a copy is all or nothing.
DevmemInv ==
  /\ state \in {"down", "up", "gone", "abort"}
  /\ wlen \in Nat
  /\ CallOK /\ (busy => done \in {0, len})

\* The address registers hold the address of the word that is about to be
\* triggered, a call that has not failed is behind its last word when it
\* locks, and the SuperIO is locked between the calls.
IlpcbInv ==
  /\ state \in {"down", "up", "gone"}
  /\ pc \in {"idle", "unlock", "setup", "addr", "trigger", "lock"}
  /\ (busy <=> pc # "idle") /\ fail \in BOOLEAN
  /\ CallOK /\ (busy /\ op = "write" => len = 1)
  /\ busy => state = "up"
  /\ busy /\ pc # "lock" => ~fail
  /\ pc = "trigger" => done < len /\ areg = phys + done
  /\ pc = "lock" /\ ~fail => done = len
  /\ I!SioLocked

\* The steps that the functions of ts16.c and debug.c consist of.
Failures ==
  {"abandon", "drop", "cleanup_port", "cleanup_kill", "cleanup_sleep", "console_destroy",
   "cleanup_port_password", "run_empty", "ignore_empty", "return"}
Prompts == {"login: ", "password: ", "#> "}
Tells == {"user", "password", "on", "off", "kill"} \union T!Baud
Steps ==
  ({"tell"} \X Tells \X Failures) \union ({"run"} \X {"q", "password", ""} \X Failures)
    \union ({"expect"} \X {"$ "} \X Failures)
    \union ({"connect", "fdopen"} \X T!Link \X Failures)
    \union ({"sleep"} \X {"1"} \X {""}) \union ({"close"} \X T!Link \X {""})
    \union ({"set"} \X {"end", "up", "released"} \X {""})

\* What the port is set to once a command is executed, and once it has
\* executed the one that was typed.
Ports == [bin : BOOLEAN, baud : T!Baud, stale : BOOLEAN]

Effect(cmd, p) ==
  CASE cmd \in {"on", "off"} -> [p EXCEPT !.bin = (cmd = "on"), !.stale = TRUE]
    [] cmd = "kill" -> [p EXCEPT !.stale = FALSE]
    [] cmd \in T!Baud -> [p EXCEPT !.baud = cmd]
    [] OTHER -> p

Final == IF told = <<>> THEN port ELSE Effect(told[1], port)

\* The terminal server stayed; memory ran out at most once; nothing happened.
Stays == "ctl" \notin broken
Spared == Stays /\ starved <= 1
Calm == broken = {} /\ starved = 0

Pending == [bin |-> TRUE, baud |-> "115200", stale |-> TRUE]
Slow == [bin |-> TRUE, baud |-> "1200", stale |-> FALSE]
Fast == [bin |-> TRUE, baud |-> "115200", stale |-> FALSE]

\* The port will be like this, and it is.
Soon(p) == Final = p
Now(p) == port = p /\ Final = p

\* What is typed is executed before more is typed, and culvert learns of a
\* connection that broke from nothing but a break.
DialogOK ==
  \/ told = <<>> /\ shown = <<>>
  \/ \E c \in Tells : told = <<c>> /\ shown = <<>>
  \/ \E p \in Prompts : told = <<>> /\ shown = <<p>>

ConnOK ==
  /\ conn \in [T!Link -> {"none", "up", "reset", "dead"}] /\ broken \subseteq T!Link
  /\ \A l \in T!Link : conn[l] \in {"reset", "dead"} => l \in broken
  /\ conn["ctl"] = "up" => "ctl" \notin broken

DataOK ==
  /\ port \in Ports /\ starved \in Nat /\ bmc \in {"console", "debug"}
  /\ job \in {"probe", "release", "reinit", "destroy"} /\ force \in BOOLEAN

LinksOK == DialogOK /\ ConnOK /\ DataOK

Held == conn["ctl"] # "none"

\* What is left of each function: debug_enter(), ...
Up7 == T!Set("up")
Up6 == T!Sleep \o Up7
Up5 == T!Tell("115200", "return") \o Up6
Up4 == << <<"expect", "$ ", "cleanup_port_password">> >> \o Up5
Up3 == T!Run("password", "cleanup_port_password") \o Up4
Up2 == T!Sleep \o Up3
Up1 == T!Tell("1200", "return") \o Up2
Quit3 == T!Run("q", "return") \o Up1
Quit2 == T!Sleep \o Quit3
Quit1 == T!Tell("115200", "return") \o Quit2

\* ... ts16_init() before it, ...
Login9 == << <<"fdopen", "raw", "console_destroy">> >> \o T!debug_enter
Login8 == << <<"connect", "raw", "console_destroy">> >> \o Login9
Login7 == T!Sleep \o Login8
Login6 == T!Tell("kill", "cleanup_port") \o Login7
Login5 == T!Tell("on", "drop") \o Login6
Login4 == T!Tell("password", "drop") \o Login5
Login3 == T!Tell("user", "drop") \o Login4
Login2 == << <<"fdopen", "ctl", "drop">> >> \o Login3
Login1 == << <<"connect", "ctl", "drop">> >> \o Login2

\* ... debug_exit() and what follows it, ...
Exit5(rest) == T!Sleep \o rest
Exit4(rest) == T!Tell("115200", "return") \o Exit5(rest)
Exit3(rest) == T!Run("", "ignore_empty") \o Exit4(rest)
Exit2(rest) == T!Sleep \o Exit3(rest)
Exit1(rest) == T!Run("q", "return") \o Exit2(rest)

\* ... cleanup_port_password, ...
Failed3 == T!Run("", "return") \o T!Return
Failed2 == T!Sleep \o Failed3
Failed1 == T!Tell("115200", "run_empty") \o Failed2

\* ... and the ends of ts16_control_destroy() and of ts16_init().
End == T!Set("end")
Drop == T!Close("ctl") \o End
Off3 == T!Sleep \o Drop
Off2 == T!Tell("kill", "abandon") \o Off3
Off1 == T!Tell("off", "abandon") \o Off2
Off0 == T!Close("raw") \o Off1
Clean2 == T!Tell("kill", "cleanup_sleep") \o Off3
Clean1 == T!Tell("off", "cleanup_kill") \o Clean2
LoginOK ==
  /\ job = "probe"
  /\ \/ /\ todo = Login1 /\ conn["ctl"] = "none" /\ Stays
        /\ told = <<>> /\ shown = <<>> /\ Now(T!Text)
     \/ Held /\ todo \in {Login2, Login3, Login4, Login5} /\ (Stays => Now(T!Text))
     \/ Held /\ todo = Login6 /\ (Stays => Soon(Pending))
     \/ Held /\ todo \in {Login7, Login8, Login9} /\ (Stays => Soon(Fast))

EnterOK ==
  /\ job \in {"probe", "reinit"} /\ Held
  /\ \/ todo \in {Quit1, Quit2} /\ (Stays => Soon(Fast))
     \/ todo = Quit3 /\ (Stays => Now(Fast))
     \/ todo = Up1 /\ (Stays => Soon(Fast) /\ T!Waits)
     \/ todo = Up2 /\ (Stays => Soon(Slow) /\ T!Waits)
     \/ todo = Up3 /\ (Stays => Now(Slow) /\ T!Waits)
     \/ todo \in {Up4, Up5} /\ (Stays => Soon(Slow) /\ bmc = "debug")
     \/ todo = Up6 /\ (Stays => Soon(Fast) /\ bmc = "debug")
     \/ todo = Up7 /\ (Stays => Now(Fast) /\ bmc = "debug")

\* Whoever fails to enter debug mode has been through a failure.
FailedOK ==
  job \in {"probe", "reinit"} /\ Held /\ ~Calm /\ todo \in {Failed1, Failed2, Failed3}

ReleaseOK ==
  /\ job = "release" /\ Held
  /\ \/ todo = Exit1(T!Set("released")) /\ (Stays => Now(Fast))
     \/ /\ todo \in {Exit2(T!Set("released")), Exit3(T!Set("released")),
                     Exit4(T!Set("released")), Exit5(T!Set("released"))}
        /\ (Stays => Soon(Fast) /\ bmc = "console")
     \/ todo = T!Set("released") /\ (Stays => Now(Fast) /\ bmc = "console")
     \/ todo \in {Exit4(<<>>), Exit5(<<>>)} /\ ~Calm

DestroyOK ==
  /\ job = "destroy" /\ Held
  /\ \/ todo = Exit1(Off0) /\ (Calm => Now(Fast))
     \/ /\ todo \in {Exit2(Off0), Exit3(Off0), Exit4(Off0), Exit5(Off0)}
        /\ (Calm => Soon(Fast) /\ bmc = "console")

\* A bridge that was in use leaves the BMC at its console, at 115200.
Left(p) == Calm /\ job = "destroy" => p.baud = "115200" /\ bmc = "console"
Plain(p) == ~p.bin /\ ~p.stale
Rest == Left(port) /\ Left(Final) /\ (Spared => Plain(port) /\ Plain(Final))

EndOK ==
  /\ job \in {"probe", "destroy"}
  /\ \/ todo \in {Off0, Off1} /\ Held /\ Left(Final)
     \/ todo = Off2 /\ Held /\ Left(Final) /\ (Stays => ~Final.bin)
     \/ todo = Clean1 /\ ~Calm /\ (Stays => starved >= 1)
     \/ todo = Clean2 /\ ~Calm /\ (Stays => starved >= 1) /\ (Spared => ~Final.bin)
     \/ todo = Off3 /\ Left(Final) /\ (Spared => Plain(Final))
     \/ todo = Drop /\ Rest
     \/ todo = End /\ (conn["ctl"] = "none" => Rest)

\* Nothing is in progress.
IdleOK ==
  /\ todo = <<>>
  /\ \/ state = "up" /\ Held /\ (Stays => Now(Fast) /\ bmc = "debug")
     \/ state = "released" /\ Held /\ (Stays => Now(Fast) /\ bmc = "console")
     \/ state = "off" /\ Held /\ ~Calm
     \/ state = "end" /\ job \in {"probe", "destroy"} /\ (conn["ctl"] = "none" => Rest)
     \/ state = "killed"

PlaceOK ==
  \/ /\ state = "off"
     /\ LoginOK \/ EnterOK \/ FailedOK \/ ReleaseOK \/ DestroyOK \/ EndOK
  \/ IdleOK

\* Where culvert is between the first step of ts16_init() and the last one of
\* ts16_control_destroy(), and what it has made of the port and the BMC.
Ts16Inv ==
  /\ state \in {"off", "up", "released", "end", "killed"} /\ todo \in Seq(Steps)
  /\ LinksOK /\ PlaceOK

\* What the debug shell prints, without a garbled line.
Items == [kind : {"prompt", "echo", "newline", "word", "line"}, data : Seq(Nat \X Nat)]

\* No line was garbled, and no prompt was left for somebody else.
Sound == noise = 0 /\ ~owed

\* What has not been taken out of the terminal, and what no line has been
\* taken from.
Queue == rx \o wire
Stream == stdio \o Queue

\* The call in progress.
InCall ==
  /\ phys \in Nat /\ len \in Nat \ {0} /\ done \in 0 .. len /\ phys + len <= Size
  /\ op \in Ops /\ (op \in {"readl", "writel"} => len = 1)
  /\ state = "up" /\ (pc # "line" => consumed = 0)

\* What it has moved, and what the last one has.
MovedOK ==
  IF busy
    THEN IF op \in Writes
           THEN \A i \in 0 .. done - 1 : mem[phys + i] = <<calls, i>>
           ELSE buf = [k \in 1 .. done + consumed |-> mem[phys + k - 1]]
    ELSE U!Delivered

\* Outside a dump everything goes through the terminal, and of the stream's
\* buffer no more is left than the prompt of a dump before.
TermOK ==
  /\ stdio \in {<<>>, <<U!Prompt>>}
  /\ \/ state = "off" /\ pc = "idle" /\ Queue \in {<<>>, <<U!Echo, U!Newline>>}
     \/ /\ state = "enter" /\ pc = "idle"
        /\ Queue \in {<<U!Prompt>>, <<U!Echo, U!Newline, U!Prompt>>}
     \/ state = "up" /\ pc \in {"idle", "run"} /\ Queue = <<>>
     \/ /\ state = "up" /\ pc = "expect" /\ op \in Writes
        /\ Queue = <<U!Echo, U!Prompt>>
     \/ /\ state = "up" /\ pc = "expect" /\ op \notin Writes /\ done < len
        /\ Queue = <<U!Echo, U!Item("word", U!Words(phys + done, 1)), U!Prompt>>

\* A dump is an echo, the lines and a prompt, behind the one of the dump before
\* that may have been left.
LineCount == (U!Chunk + LineLen - 1) \div LineLen
Dialogue(i) ==
  IF i = 0 THEN U!Echo
  ELSE IF i \in 1 .. LineCount THEN U!DumpLines(phys + done, U!Chunk)[i] ELSE U!Prompt

\* All of it is on its way from its item p on.
Coming(p) ==
  /\ Len(Stream) = LineCount + 2 - p
  /\ \A i \in 1 .. LineCount + 2 - p : Stream[i] = Dialogue(p + i - 1)

DumpOK ==
  /\ state = "up" /\ op = "read" /\ len >= DumpMin /\ done < len
  /\ \/ pc = "echo" /\ \E p \in {-1, 0} : Coming(p)
     \/ pc = "line" /\ \E p \in 1 .. LineCount : consumed = (p - 1) * LineLen /\ Coming(p)

TermTypes ==
  /\ wire \in Seq(Items) /\ rx \in Seq(Items) /\ stdio \in Seq(Items)
  /\ mem \in [Addr -> Nat \X Nat] /\ calls \in Nat
  /\ (busy <=> pc # "idle")

\* The debug shell is in step as long as both ends saw everything.
DebugOK == TermTypes /\ (busy => InCall) /\ MovedOK /\ (TermOK \/ DumpOK)

DebugInv ==
  /\ state \in {"off", "enter", "up"} /\ noise \in Nat
  /\ Sound => DebugOK

IInv ==
  /\ kind \in {"p2a", "devmem", "ilpc", "debug", "ts16"}
  /\ kind = "p2a" => P2abInv
  /\ kind = "devmem" => DevmemInv
  /\ kind = "ilpc" => IlpcbInv
  /\ kind = "debug" => DebugInv
  /\ kind = "ts16" => Ts16Inv

-----------------------------------------------------------------------------
(***************************************************************************)
(* Windows and pages.                                                      *)
(***************************************************************************)
\* The constants of the bridges.
LEMMA Consts ==
  /\ Window \in Nat \ {0} /\ PgSize \in Nat \ {0}
  /\ IoBase \in Nat /\ IoLen \in Nat /\ Size \in Nat
  /\ \A r \in Requests :
       /\ r[1] \in Ops /\ r[2] \in Nat /\ r[3] \in Nat \ {0}
       /\ r[1] \in {"readl", "writel"} => r[3] = 1
  BY BridgesAssumption, AhbAssumption
  DEF P!WindowAssumption, D!PageAssumption, AhbAssumption, Addr

\* A remainder lies below the divisor.
LEMMA Remainder ==
  ASSUME NEW w \in Nat \ {0}, NEW x \in Nat
  PROVE  x % w \in 0 .. w - 1 /\ x % w <= x /\ (x < w => x % w = x)
  BY SMT

\* The next window starts where this one ends.
LEMMA NextWindow ==
  ASSUME NEW w \in Nat \ {0}, NEW x \in Nat, x % w = 0
  PROVE  (x + w) % w = 0
<1> DEFINE q == x \div w  p == (x + w) \div w  r == (x + w) % w  k == (q + 1) - p
<1>1. q \in Int /\ p \in Int /\ x = w * q
  BY SMT
<1>2. x + w = w * p + r /\ r \in 0 .. w - 1
  BY SMT
<1>3. k \in Int /\ w * k = r
  BY <1>1, <1>2, SMT
<1> HIDE DEF q, p, r, k
<1>4. k >= 1 => w * k >= w
  BY <1>3, SMT
<1>5. k <= -1 => w * k < 0
  BY <1>3, SMT
<1>6. k = 0
  BY <1>2, <1>3, <1>4, <1>5, SMT
<1>7. r = 0
  BY <1>3, <1>6, SMT
<1>8. QED
  BY <1>7 DEF r

\* Whole pages hold what they are mapped for.
LEMMA WholePages ==
  ASSUME NEW b \in Nat, NEW n \in Nat
  PROVE  b + n <= D!MapEnd(b, n)
<1> DEFINE q == (n + PgSize - 1) \div PgSize
<1>1. n + PgSize - 1 \in Nat /\ PgSize \in Nat \ {0}
  BY Consts
<1>2. q * PgSize > n - 1
  BY <1>1, SMT
<1>3. QED
  BY <1>1, <1>2 DEF D!MapEnd

\* A request is taken as the caller made it, by any driver.
LEMMA CallBegins ==
  ASSUME NEW r \in Requests, A!Begin(r[1], r[2], r[3])
  PROVE  /\ A!AhbNext /\ CallOK' /\ busy' /\ ~busy
         /\ op' = r[1] /\ phys' = r[2] /\ len' = r[3] /\ done' = 0
<1>1. A!AhbNext
  BY DEF A!AhbNext
<1>2. QED
  BY <1>1, Consts DEF A!Begin, CallOK

\* What has been moved is a part of the call.
LEMMA Moves ==
  ASSUME CallOK, busy, NEW n \in 1 .. len - done, NEW at, at = phys + done, A!Move(n, at)
  PROVE  A!AhbNext /\ CallOK' /\ busy' /\ done' = done + n /\ UNCHANGED <<op, phys, len>>
<1>1. A!AhbNext
  BY DEF A!AhbNext
<1>2. /\ busy' = busy /\ op' = op /\ phys' = phys /\ len' = len /\ done' = done + n
      /\ phys \in Nat /\ len \in Nat /\ done \in Nat /\ n \in Nat /\ n <= len - done
  BY DEF A!Move, CallOK
<1>3. CallOK'
  BY <1>2 DEF CallOK
<1>4. QED
  BY <1>1, <1>2, <1>3

\* A call returns, and succeeds only when all of it has been moved.
LEMMA Returned ==
  ASSUME busy, NEW code \in {"ok", "fail"}, code = "ok" => done = len, A!Return(code)
  PROVE  A!AhbNext /\ CallOK' /\ ~busy'
  BY DEF A!AhbNext, A!Return, CallOK

\* What does not touch the call keeps it.
LEMMA Rests ==
  ASSUME UNCHANGED ahbVars
  PROVE  /\ (CallOK => CallOK') /\ UNCHANGED <<busy, op, phys, len, done>>
  BY DEF ahbVars, CallOK

-----------------------------------------------------------------------------
(***************************************************************************)
(* The PCIe bridge.                                                        *)
(***************************************************************************)
\* A step of the PCIe bridge is a step of an AHB, or none (bridge/p2a.c).
LEMMA P2abStep ==
  ASSUME P2abInv, P!Next
  PROVE  P2abInv' /\ (A!AhbNext \/ UNCHANGED ahbVars)
<1>1. ASSUME NEW r \in FittingRequests, P!Call(r)
      PROVE  P2abInv' /\ A!AhbNext
  <2>1. r \in Requests /\ (r[3] = 1 \/ r[2] % Window = 0)
    BY DEF FittingRequests
  <2>2. A!Begin(r[1], r[2], r[3]) /\ state = "up" /\ UNCHANGED <<state, rbar, hwRbar>>
    BY <1>1 DEF P!Call, P!Begin, A!Begin, P!p2a
  <2>3. /\ A!AhbNext /\ CallOK' /\ busy'
        /\ phys' = r[2] /\ len' = r[3] /\ done' = 0 /\ r[2] + 0 = r[2]
    BY <2>1, <2>2, CallBegins, Consts
  <2>4. QED
    BY <2>1, <2>2, <2>3 DEF P2abInv
<1>2. CASE P!Piece
  <2> DEFINE x == phys + done
  <2>1. /\ state = "up" /\ busy /\ hwRbar = rbar /\ CallOK
        /\ phys \in Nat /\ len \in Nat \ {0} /\ done \in 0 .. len - 1
        /\ x \in Nat /\ Window \in Nat \ {0}
        /\ (len = 1 \/ x % Window = 0)
    BY <1>2, Consts DEF P!Piece, P2abInv, CallOK
  <2>2. rbar' = x - (x % Window) /\ hwRbar' = rbar'
    BY <1>2, <2>1 DEF P!Piece, P!p2ab_map, P!Base
  <2>3. P!Offset = x % Window /\ x % Window \in 0 .. Window - 1
    BY <2>1, Remainder DEF P!Offset
  <2>4. /\ P!Ingress \in 1 .. len - done /\ P!Ingress <= Window
        /\ P!Ingress = len - done \/ P!Ingress = Window
    BY <2>1 DEF P!Ingress
  <2>5. P!Offset + P!Ingress <= Window
    <3>1. CASE len = 1
      <4>1. P!Ingress = 1
        BY <2>1, <2>4, <3>1
      <4>2. QED
        BY <2>1, <2>3, <4>1
    <3>2. CASE x % Window = 0
      BY <2>3, <2>4, <3>2
    <3>3. QED
      BY <2>1, <3>1, <3>2
  <2>6. hwRbar' + P!Offset = x
    BY <2>1, <2>2, <2>3
  <2>7. A!Move(P!Ingress, hwRbar' + P!Offset) /\ state' = "up"
    BY <1>2, <2>1, <2>5 DEF P!Piece, P!Move, A!Move, P!Writes, A!Writes, P!Addr, A!Addr
  <2> DEFINE n == P!Ingress
  <2>8. A!AhbNext /\ CallOK' /\ busy' /\ done' = done + n /\ UNCHANGED <<op, phys, len>>
    <3>1. PICK at : at = hwRbar' + P!Offset
      OBVIOUS
    <3>2. A!Move(n, at) /\ at = phys + done /\ n \in 1 .. len - done
      BY <2>4, <2>6, <2>7, <3>1
    <3> HIDE DEF n
    <3>3. QED
      BY <2>1, <3>2, Moves
  <2>9. len' = 1 \/ done' = len' \/ (phys' + done') % Window = 0
    <3>1. CASE n = len - done
      BY <2>1, <2>8, <3>1
    <3>2. CASE n = Window /\ x % Window = 0
      <4>1. (x + Window) % Window = 0
        BY <2>1, <3>2, NextWindow
      <4>2. phys' + done' = x + Window
        BY <2>1, <2>8, <3>2
      <4>3. QED
        BY <4>1, <4>2
    <3>3. QED
      BY <2>1, <2>4, <2>8, <3>1, <3>2
  <2>10. QED
    BY <2>1, <2>2, <2>7, <2>8, <2>9 DEF P2abInv
<1>3. CASE P!Done
  <2>1. busy /\ done = len /\ A!Return("ok") /\ UNCHANGED <<state, rbar, hwRbar>>
    BY <1>3 DEF P!Done, P!Return, A!Return, P!p2a
  <2>2. QED
    BY <2>1, Returned DEF P2abInv
<1>4. CASE P!p2ab_init \/ P!p2ab_probe \/ P!SocReset \/ P!p2ab_driver_reinit \/ P!p2ab_destroy
  <2>1. UNCHANGED ahbVars
    BY <1>4 DEF P!p2ab_init, P!p2ab_probe, P!SocReset, P!p2ab_driver_reinit, P!p2ab_destroy,
       P!ahbVars, ahbVars
  <2>2. UNCHANGED <<busy, op, phys, len, done>> /\ (CallOK => CallOK')
    BY <2>1, Rests
  <2>3. QED
    BY <1>4, <2>1, <2>2 DEF P!p2ab_init, P!p2ab_probe, P!SocReset, P!p2ab_driver_reinit,
       P!p2ab_destroy, P!p2ab_map, P2abInv
<1>5. QED
  BY <1>1, <1>2, <1>3, <1>4 DEF P!Next

-----------------------------------------------------------------------------
(***************************************************************************)
(* The bridge through /dev/mem.                                            *)
(***************************************************************************)
\* A step of this bridge is a step of an AHB, or none, and no access leaves
\* the pages that are mapped (bridge/devmem.c).
LEMMA DevmemStep ==
  ASSUME DevmemInv, D!Next
  PROVE  DevmemInv' /\ (A!AhbNext \/ UNCHANGED ahbVars)
<1>1. ASSUME NEW r \in Requests, D!Call(r)
      PROVE  DevmemInv' /\ A!AhbNext
  <2>1. A!Begin(r[1], r[2], r[3]) /\ state = "up" /\ UNCHANGED <<state, wlen>>
    BY <1>1 DEF D!Call, D!Begin, A!Begin, D!dm
  <2>2. QED
    BY <2>1, CallBegins DEF DevmemInv
<1>2. ASSUME busy, state' = "up", wlen' \in Nat, done = 0,
             NEW at, at = phys, A!Move(len, at)
      PROVE  DevmemInv' /\ A!AhbNext
  <2>1. CallOK /\ len \in 1 .. len - done /\ at = phys + done
    BY <1>2 DEF DevmemInv, CallOK
  <2>2. A!AhbNext /\ CallOK' /\ busy' /\ done' = done + len /\ len' = len
    <3>1. PICK n \in 1 .. len - done : n = len
      BY <2>1
    <3>2. A!Move(n, at)
      BY <1>2, <3>1
    <3>3. A!AhbNext /\ CallOK' /\ busy' /\ done' = done + n /\ UNCHANGED <<op, phys, len>>
      BY <1>2, <2>1, <3>2, Moves
    <3>4. QED
      BY <3>1, <3>3
  <2>3. done' = len'
    BY <1>2, <2>1, <2>2 DEF CallOK
  <2>4. QED
    BY <1>2, <2>2, <2>3 DEF DevmemInv
<1>3. CASE D!WindowAccess
  <2> DEFINE off == phys % PgSize  al == phys - off
  <2>1. /\ state = "up" /\ busy /\ done = 0 /\ phys \in Nat /\ len \in Nat \ {0} /\ wlen \in Nat
    BY <1>3 DEF D!WindowAccess, DevmemInv, CallOK
  <2>2. off \in Nat /\ al \in Nat /\ al + off = phys /\ D!Aligned = al /\ D!Offset = off
    <3>1. off \in 0 .. PgSize - 1 /\ off <= phys
      BY <2>1, Consts, Remainder
    <3>2. D!Aligned = al /\ D!Offset = off
      BY DEF D!Aligned, D!Offset
    <3>3. PICK o : o = off
      OBVIOUS
    <3>4. o \in Nat /\ phys - o \in Nat /\ (phys - o) + o = phys
      <4>1. o \in Nat /\ o <= phys
        BY <3>1, <3>3, Consts
      <4>2. QED
        BY <2>1, <4>1
    <3>5. QED
      BY <3>2, <3>3, <3>4
  <2> HIDE DEF off, al
  <2>3. wphys' = al /\ wlen' \in Nat /\ wlen' >= off + len
    <3>1. CASE D!Reusable
      BY <1>3, <2>1, <2>2, <3>1 DEF D!WindowAccess, D!Reusable
    <3>2. CASE ~D!Reusable
      BY <1>3, <2>1, <2>2, <3>2 DEF D!WindowAccess, D!SetWindow
    <3>3. QED
      BY <3>1, <3>2
  <2>4. wphys' + D!Offset + len <= D!MapEnd(wphys', wlen')
    <3>1. PICK b \in Nat, n \in Nat : b = wphys' /\ n = wlen'
      BY <2>2, <2>3
    <3>2. b + n <= D!MapEnd(b, n) /\ D!MapEnd(b, n) \in Int
      <4>1. D!MapEnd(b, n) \in Int
        BY Consts DEF D!MapEnd
      <4>2. QED
        BY <4>1, WholePages
    <3>3. b + off + len <= b + n
      <4>1. off \in Nat /\ len \in Nat /\ n >= off + len
        BY <2>1, <2>2, <2>3, <3>1
      <4>2. QED
        BY <4>1
    <3>4. b + off + len <= D!MapEnd(b, n)
      BY <2>1, <2>2, <3>2, <3>3
    <3>5. QED
      BY <2>2, <3>1, <3>4
  <2>5. D!Move(len, wphys' + D!Offset) /\ state' = "up"
    BY <1>3, <2>1, <2>4 DEF D!WindowAccess
  <2>6. A!Move(len, wphys' + D!Offset)
    BY <2>5 DEF D!Move, A!Move, D!Writes, A!Writes, D!Addr, A!Addr
  <2>7. wphys' + D!Offset = phys
    BY <2>2, <2>3
  <2>8. QED
    BY <1>2, <2>1, <2>3, <2>5, <2>6, <2>7
<1>4. CASE D!IoAccess
  <2>1. /\ state = "up" /\ busy /\ done = 0 /\ len = 1 /\ wlen \in Nat
        /\ UNCHANGED <<state, wlen>>
    BY <1>4 DEF D!IoAccess, D!InIo, DevmemInv, CallOK, D!dm
  <2>2. A!Move(len, phys)
    BY <1>4, <2>1 DEF D!IoAccess, D!Move, A!Move, D!Writes, A!Writes, D!Addr, A!Addr
  <2>3. QED
    BY <1>2, <2>1, <2>2
<1>5. CASE D!WindowFails
  <2>1. busy /\ A!Return("fail") /\ UNCHANGED state /\ wlen' = 0
    BY <1>5 DEF D!WindowFails, D!Return, A!Return, D!SetWindow
  <2>2. QED
    BY <2>1, Returned DEF DevmemInv
<1>6. CASE D!Done
  <2>1. busy /\ done = len /\ A!Return("ok") /\ UNCHANGED <<state, wlen>>
    BY <1>6 DEF D!Done, D!Return, A!Return, D!dm
  <2>2. QED
    BY <2>1, Returned DEF DevmemInv
<1>7. CASE D!devmem_init \/ D!devmem_destroy
  <2>1. UNCHANGED ahbVars
    BY <1>7 DEF D!devmem_init, D!devmem_destroy, D!ahbVars, ahbVars
  <2>2. UNCHANGED <<busy, op, phys, len, done>> /\ (CallOK => CallOK')
    BY <2>1, Rests
  <2>3. QED
    BY <1>7, <2>1, <2>2 DEF D!devmem_init, D!devmem_destroy, DevmemInv
<1>8. QED
  BY <1>1, <1>3, <1>4, <1>5, <1>6, <1>7 DEF D!Next

-----------------------------------------------------------------------------
(***************************************************************************)
(* The iLPC bridge.                                                        *)
(***************************************************************************)
\* A step of the iLPC bridge is a step of an AHB, or none, and the SuperIO is
\* locked between the calls (bridge/ilpc.c).
LEMMA IlpcbStep ==
  ASSUME IlpcbInv, I!Next
  PROVE  IlpcbInv' /\ (A!AhbNext \/ UNCHANGED ahbVars)
<1>1. ASSUME NEW r \in UnitWrites, I!Call(r)
      PROVE  IlpcbInv' /\ A!AhbNext
  <2>1. r \in Requests /\ (r[1] = "write" => r[3] = 1)
    BY DEF UnitWrites
  <2>2. /\ A!Begin(r[1], r[2], r[3]) /\ state = "up" /\ state' = "up"
        /\ pc' = "unlock" /\ fail' = FALSE
    BY <1>1 DEF I!Call, I!Begin, A!Begin
  <2>3. A!AhbNext /\ CallOK' /\ busy' /\ op' = r[1] /\ len' = r[3]
    BY <2>1, <2>2, CallBegins
  <2>4. QED
    BY <2>1, <2>2, <2>3 DEF IlpcbInv, I!SioLocked
<1>2. ASSUME UNCHANGED ahbVars, UNCHANGED state, busy, fail' \in BOOLEAN,
             fail' => pc' = "lock",
             pc' \in {"setup", "addr", "trigger", "lock"},
             pc' = "trigger" => done < len /\ areg' = phys + done,
             pc' = "lock" /\ ~fail' => done = len
      PROVE  IlpcbInv'
  <2>1. UNCHANGED <<busy, op, phys, len, done>> /\ CallOK'
    BY <1>2, Rests DEF IlpcbInv
  <2>2. QED
    BY <1>2, <2>1 DEF IlpcbInv, I!SioLocked
<1>3. CASE I!Unlock \/ I!Setup \/ I!Address
  <2>1. /\ UNCHANGED ahbVars /\ UNCHANGED state /\ busy /\ ~fail /\ CallOK
        /\ fail \in BOOLEAN /\ (op = "write" => len = 1)
    BY <1>3 DEF I!Unlock, I!Setup, I!Address, I!ahbVars, ahbVars, IlpcbInv
  <2>2. done < len => I!Target = phys + done
    BY <2>1 DEF I!Target, CallOK
  <2>3. /\ fail' \in BOOLEAN /\ (fail' => pc' = "lock")
        /\ pc' \in {"setup", "addr", "trigger", "lock"}
        /\ pc' = "trigger" => done < len /\ areg' = phys + done
        /\ pc' = "lock" /\ ~fail' => done = len
    <3>0. fail = FALSE
      <4>1. fail \in BOOLEAN
        BY <2>1
      <4>2. ~fail
        BY <2>1
      <4>3. QED
        BY ONLY <4>1, <4>2
    <3>1. \/ pc' \in {"setup", "addr"} /\ fail' = FALSE
          \/ pc' = "lock" /\ fail' = FALSE /\ done = len
          \/ pc' = "trigger" /\ fail' = FALSE /\ done < len /\ areg' = phys + done
          \/ pc' = "lock" /\ fail' = TRUE
      <4>1. CASE I!Unlock
        BY <3>0, <4>1 DEF I!Unlock, I!Goto, I!GiveUp
      <4>2. CASE I!Setup
        BY <3>0, <4>2 DEF I!Setup, I!Goto, I!GiveUp
      <4>3. CASE I!Address
        BY <2>2, <3>0, <4>3 DEF I!Address, I!Goto, I!GiveUp
      <4>4. QED
        BY <1>3, <4>1, <4>2, <4>3
    <3>2. QED
      BY <3>1
  <2>4. QED
    BY <1>2, <2>1, <2>3
<1>4. CASE I!TriggerRead \/ I!TriggerWrite
  <2>1. /\ busy /\ ~fail /\ CallOK /\ done < len /\ areg = phys + done /\ UNCHANGED state
        /\ op = "write" => len = 1
    BY <1>4 DEF I!TriggerRead, I!TriggerWrite, IlpcbInv
  <2>6. fail' \in BOOLEAN
    BY <1>4 DEF I!TriggerRead, I!TriggerWrite, I!Goto, I!GiveUp, IlpcbInv
  <2>2. \/ UNCHANGED ahbVars /\ pc' = "lock" /\ fail'
        \/ A!Move(1, areg) /\ pc' = "addr" /\ ~fail'
        \/ A!Move(1, areg) /\ pc' = "lock" /\ fail'
    BY <1>4, <2>1 DEF I!TriggerRead, I!TriggerWrite, I!Goto, I!GiveUp, I!ahbVars, ahbVars,
       I!Move, A!Move, I!Writes, A!Writes, I!Addr, A!Addr
  <2>3. CASE UNCHANGED ahbVars /\ pc' = "lock" /\ fail'
    BY <1>2, <2>1, <2>3, <2>6
  <2>4. CASE A!Move(1, areg) /\ ((pc' = "addr" /\ ~fail') \/ (pc' = "lock" /\ fail'))
    <3>0. 1 \in 1 .. len - done
      BY <2>1 DEF CallOK
    <3>1. PICK n \in 1 .. len - done : n = 1
      BY <3>0
    <3>5. PICK at : at = areg
      OBVIOUS
    <3>2. A!Move(n, at) /\ at = phys + done
      BY <2>1, <2>4, <3>1, <3>5
    <3>3. A!AhbNext /\ CallOK' /\ busy' /\ UNCHANGED <<op, phys, len>>
      BY <2>1, <3>2, Moves
    <3>4. QED
      BY <2>1, <2>4, <2>6, <3>3 DEF IlpcbInv, I!SioLocked
  <2>5. QED
    BY <2>2, <2>3, <2>4
<1>5. CASE I!Lock
  <2> DEFINE code == IF fail THEN "fail" ELSE "ok"
  <2>1. /\ busy /\ (~fail => done = len) /\ UNCHANGED <<state, fail>> /\ pc' = "idle"
        /\ fail \in BOOLEAN
    BY <1>5 DEF I!Lock, IlpcbInv
  <2>2. A!Return(code) /\ code \in {"ok", "fail"} /\ (code = "ok" => done = len)
    BY <1>5, <2>1 DEF I!Lock, I!Return, A!Return
  <2> HIDE DEF code
  <2>3. A!AhbNext /\ CallOK' /\ ~busy'
    BY <2>1, <2>2, Returned
  <2>4. sioLock' = "locked" \/ lockLost'
    BY <1>5 DEF I!Lock
  <2>5. QED
    BY <2>1, <2>3, <2>4 DEF IlpcbInv, I!SioLocked
<1>6. CASE I!ilpcb_probe \/ I!ilpcb_destroy
  <2>1. UNCHANGED ahbVars /\ UNCHANGED <<pc, fail>>
    BY <1>6 DEF I!ilpcb_probe, I!ilpcb_destroy, I!ahbVars, ahbVars
  <2>2. UNCHANGED <<busy, op, phys, len, done>> /\ CallOK'
    BY <2>1, Rests DEF IlpcbInv
  <2>3. state' # "up" \/ sioLock' = "locked" \/ lockLost'
    BY <1>6 DEF I!ilpcb_probe, I!ilpcb_destroy, I!sio_probe, I!RevProbe
  <2>4. QED
    BY <1>6, <2>1, <2>2, <2>3 DEF I!ilpcb_probe, I!ilpcb_destroy, IlpcbInv, I!SioLocked
<1>7. QED
  BY <1>1, <1>3, <1>4, <1>5, <1>6 DEF I!Next

-----------------------------------------------------------------------------
(***************************************************************************)
(* The debug UART, whose calls are not those of this AHB.                  *)
(***************************************************************************)
\* The constants of the debug UART, and what its callers ask for.
LEMMA DebugConsts ==
  /\ LineLen \in Nat \ {0} /\ DumpMin \in Nat \ {0} /\ DumpMax \in Nat \ {0}
  /\ ByteMax \in Nat \ {0} /\ UMax \in Nat \ {0} /\ Size \in Nat
  /\ \A r \in DebugRequests :
       /\ r[1] \in Ops /\ r[2] \in Nat /\ r[3] \in Nat \ {0} /\ r[2] + r[3] <= Size
       /\ r[1] \in {"readl", "writel"} => r[3] = 1
  BY BridgesAssumption, AhbAssumption DEF U!DebugAssumption, AhbAssumption, Addr

\* What is printed is told apart by its kind.
LEMMA Printed ==
  /\ U!Prompt \in Items /\ U!Echo \in Items /\ U!Newline \in Items
  /\ U!Prompt.kind = "prompt" /\ U!Echo.kind = "echo" /\ U!Newline.kind = "newline"
  /\ \A k, d : U!Item(k, d).kind = k /\ U!Item(k, d).data = d
  /\ \A d \in Seq(Nat \X Nat) :
       U!Item("word", d) \in Items /\ U!Item("line", d) \in Items
  BY DEF U!Prompt, U!Echo, U!Newline, U!Item, Items

\* What has arrived was on its way before (the line).
LEMMA Arrives ==
  ASSUME NEW r \in Seq(Items), NEW w \in Seq(Items), w # <<>>
  PROVE  /\ Append(r, Head(w)) \in Seq(Items) /\ Tail(w) \in Seq(Items)
         /\ Append(r, Head(w)) \o Tail(w) = r \o w
<1>1. w = SubSeq(w, 1, Len(w)) /\ Tail(w) = SubSeq(w, 2, Len(w)) /\ Tail(w) \in Seq(Items)
      /\ Head(w) = w[1] /\ Head(w) \in Items
  BY SubSeqFull, TailIsSubSeq, HeadTailProperties
<1>2. Len(w) \in Nat \ {0}
  BY EmptySeq
<1>3. 1 \in 1 .. Len(w) /\ Len(w) \in 1 .. Len(w) /\ 1 + 1 = 2
  BY <1>2, SMT
<1>4. SubSeq(w, 1, Len(w)) = <<w[1]>> \o SubSeq(w, 1 + 1, Len(w))
  BY <1>3, SubSeqRecursiveFirst
<1>5. w = <<Head(w)>> \o Tail(w)
  BY <1>1, <1>3, <1>4, Zenon
<1>6. <<Head(w)>> \in Seq(Items) /\ Append(r, Head(w)) \in Seq(Items)
  BY <1>1, SMT
<1> DEFINE h == Head(w)  t == Tail(w)
<1>7. Append(r, h) = r \o <<h>>
  <2> h \in Items
    BY <1>1
  <2> HIDE DEF h
  <2>1. QED
    BY AppendIsConcat
<1> HIDE DEF h, t
<1>8. Append(r, h) \o t = r \o (<<h>> \o t)
  <2>1. <<h>> \in Seq(Items) /\ t \in Seq(Items)
    BY <1>1, <1>6 DEF h, t
  <2> DEFINE q == <<h>>
  <2>2. q \in Seq(Items)
    BY <2>1
  <2> HIDE DEF q
  <2>3. (r \o q) \o t = r \o (q \o t)
    BY <2>1, <2>2, ConcatAssociative
  <2>4. QED
    BY <1>7, <2>3 DEF q
<1>9. QED
  BY <1>1, <1>5, <1>6, <1>8, Zenon DEF h, t

\* What was found at the end of the queue has brought everything with it.
LEMMA AtEnd ==
  ASSUME NEW r \in Seq(Items), NEW w \in Seq(Items), Len(r) >= Len(r \o w)
  PROVE  w = <<>> /\ r \o w = r
<1>1. Len(r \o w) = Len(r) + Len(w) /\ Len(r) \in Nat /\ Len(w) \in Nat
  BY SMT
<1>2. Len(w) = 0
  BY <1>1, SMT
<1>3. w = <<>>
  BY <1>2, EmptySeq
<1>4. QED
  BY <1>3, ConcatEmptySeq

\* What the shell answers depends on the call, and on nothing else.
LEMMA SameDump ==
  ASSUME UNCHANGED <<op, phys, len, done, mem>>
  PROVE  /\ U!Command' = U!Command /\ U!Chunk' = U!Chunk /\ LineCount' = LineCount
         /\ U!Words(phys + done, 1)' = U!Words(phys + done, 1)
         /\ \A i \in Int : Dialogue(i)' = Dialogue(i)
<1>1. op' = op /\ phys' = phys /\ len' = len /\ done' = done /\ mem' = mem
  OBVIOUS
<1>2. U!Command' = U!Command
  BY <1>1, Zenon DEF U!Command
<1>3. U!Chunk' = U!Chunk
  BY <1>1, <1>2, Zenon DEF U!Chunk, U!AtMost
<1>4. LineCount' = LineCount
  BY <1>3, Zenon DEF LineCount
<1>5. U!Words(phys + done, 1)' = U!Words(phys + done, 1)
  BY <1>1, Zenon DEF U!Words
<1>6. U!DumpLines(phys + done, U!Chunk)' = U!DumpLines(phys + done, U!Chunk)
  BY <1>1, <1>3, Zenon DEF U!DumpLines, U!Words
<1>7. ASSUME NEW i \in Int PROVE Dialogue(i)' = Dialogue(i)
  BY <1>4, <1>6, Zenon DEF Dialogue
<1>8. QED
  BY <1>2, <1>3, <1>4, <1>5, <1>7

\* A dump is on its way as long as the stream is what it was.
LEMMA StillLeft ==
  ASSUME UNCHANGED <<op, phys, len, done, mem>>, Stream' = Stream, LineCount \in Nat,
         NEW p \in Int, Coming(p)
  PROVE  Coming(p)'
<1>1. LineCount' = LineCount /\ \A i \in Int : Dialogue(i)' = Dialogue(i)
  BY SameDump
<1>2. \A i \in 1 .. LineCount + 2 - p : p + i - 1 \in Int
  BY SMT
<1>3. QED
  BY <1>1, <1>2, Zenon DEF Coming

\* The size of a dump, and of what is moved at once.
LEMMA Chunks ==
  ASSUME busy => InCall, busy, done < len
  PROVE  /\ U!Chunk \in 1 .. len - done /\ LineCount \in Nat \ {0} /\ InCall
         /\ (LineCount - 1) * LineLen < U!Chunk /\ U!Chunk <= LineCount * LineLen
         /\ len \in Nat /\ done \in Nat /\ phys \in Nat /\ Size \in Nat
         /\ phys + done + U!Chunk <= Size
<1>1. len \in Nat /\ done \in Nat /\ phys \in Nat /\ Size \in Nat /\ phys + len <= Size /\ InCall
  BY DebugConsts DEF InCall
<1>2. ASSUME NEW n \in Nat \ {0} PROVE U!AtMost(n) \in 1 .. len - done
  BY <1>1, <1>2 DEF U!AtMost
<1>3. U!Chunk \in 1 .. len - done
  <2>1. 1 \in 1 .. len - done
    BY <1>1, SMT
  <2>2. U!AtMost(DumpMax) \in 1 .. len - done /\ U!AtMost(UMax) \in 1 .. len - done
    BY <1>2, DebugConsts
  <2> HIDE DEF U!AtMost
  <2>3. QED
    BY <2>1, <2>2 DEF U!Chunk
<1> DEFINE n == U!Chunk  w == LineLen  q == (n + w - 1) \div w
<1>4. n \in Nat \ {0} /\ w \in Nat \ {0} /\ LineCount = q
  BY <1>1, <1>3, DebugConsts DEF LineCount
<1> HIDE DEF n, w
<1>5. q \in Nat \ {0} /\ q * w <= n + w - 1 /\ n + w - 1 < q * w + w
  BY <1>4, SMT
<1>6. (q - 1) * w = q * w - w
  BY <1>4, <1>5, SMT
<1> HIDE DEF q
<1>7. (q - 1) * w < n /\ n <= q * w
  BY <1>4, <1>5, <1>6, SMT
<1>8. phys + done + U!Chunk <= Size
  BY <1>1, <1>3, SMT
<1>9. QED
  BY <1>1, <1>3, <1>4, <1>5, <1>7, <1>8 DEF n, w

\* Only the terminal has moved.
LEMMA CallKept ==
  ASSUME UNCHANGED <<ahbVars, state, pc, consumed>>
  PROVE  /\ UNCHANGED <<op, phys, len, done, mem, busy, calls>>
         /\ (InCall => InCall') /\ (MovedOK => MovedOK')
<1>1. /\ mem' = mem /\ busy' = busy /\ op' = op /\ phys' = phys /\ len' = len /\ done' = done
      /\ buf' = buf /\ rc' = rc /\ calls' = calls
      /\ state' = state /\ pc' = pc /\ consumed' = consumed
  BY DEF ahbVars
<1>2. InCall => InCall'
  BY <1>1, Zenon DEF InCall
<1>3. U!Delivered => U!Delivered'
  BY <1>1, Zenon DEF U!Delivered, U!Writes
<1>4. MovedOK => MovedOK'
  BY <1>1, <1>3, Zenon DEF MovedOK, Writes
<1>5. QED
  BY <1>1, <1>2, <1>4

\* A dump goes on as long as its items are in the stream.
LEMMA DumpKept ==
  ASSUME UNCHANGED <<ahbVars, state, pc, consumed>>, Stream' = Stream,
         busy => InCall, busy, DumpOK
  PROVE  DumpOK'
<1>1. /\ UNCHANGED <<op, phys, len, done, mem>> /\ state' = state /\ pc' = pc
      /\ consumed' = consumed /\ op' = op /\ len' = len /\ done' = done
  BY CallKept
<1>2. done < len
  BY DEF DumpOK
<1>3. LineCount \in Nat /\ LineCount' = LineCount
  BY <1>1, <1>2, Chunks, SameDump
<1>4. \A p \in Int : Coming(p) => Coming(p)'
  BY <1>1, <1>3, StillLeft
<1>5. CASE pc = "echo" /\ \E p \in {-1, 0} : Coming(p)
  <2>1. -1 \in Int /\ 0 \in Int
    OBVIOUS
  <2>2. \E p \in {-1, 0} : Coming(p)'
    BY <1>4, <1>5, <2>1, Zenon
  <2>3. QED
    BY <1>1, <1>5, <2>2, Zenon DEF DumpOK
<1>6. CASE pc = "line" /\ \E p \in 1 .. LineCount : consumed = (p - 1) * LineLen /\ Coming(p)
  <2>1. PICK p \in 1 .. LineCount : consumed = (p - 1) * LineLen /\ Coming(p)
    BY <1>6
  <2>2. p \in Int
    BY <1>3
  <2>3. Coming(p)' /\ consumed' = (p - 1) * LineLen
    BY <1>1, <1>4, <2>1, <2>2, Zenon
  <2>4. \E x \in 1 .. LineCount' : consumed' = (x - 1) * LineLen /\ Coming(x)'
    BY <1>3, <2>3, Zenon
  <2>5. QED
    BY <1>1, <1>6, <2>4, Zenon DEF DumpOK
<1>7. QED
  BY <1>5, <1>6 DEF DumpOK

\* What is read or written alone is on its way as long as it is in the terminal.
LEMMA TermKept ==
  ASSUME UNCHANGED <<ahbVars, state, pc, consumed>>, stdio' = stdio, Queue' = Queue, TermOK
  PROVE  TermOK'
<1>1. /\ UNCHANGED <<op, phys, len, done, mem>> /\ state' = state /\ pc' = pc
      /\ op' = op /\ len' = len /\ done' = done
  BY CallKept
<1>2. U!Words(phys + done, 1)' = U!Words(phys + done, 1)
  BY <1>1, SameDump
<1>3. QED
  BY <1>1, <1>2, Zenon DEF TermOK, Writes, U!Prompt, U!Echo, U!Newline

\* What arrives does not change what is on its way (the line).
LEMMA DeliverStep ==
  ASSUME DebugOK, U!Deliver
  PROVE  DebugOK'
<1>1. /\ wire # <<>> /\ rx' = Append(rx, Head(wire)) /\ wire' = Tail(wire) /\ stdio' = stdio
      /\ UNCHANGED <<ahbVars, state, pc, consumed>>
      /\ TermTypes /\ wire \in Seq(Items) /\ rx \in Seq(Items)
  BY DEF U!Deliver, DebugOK, TermTypes, ahbVars, U!ahbVars
<1>2. wire' \in Seq(Items) /\ rx' \in Seq(Items) /\ Queue' = Queue
  BY <1>1, Arrives, Zenon DEF Queue
<1>3. Stream' = Stream
  BY <1>1, <1>2, Zenon DEF Stream
<1>4. UNCHANGED <<op, phys, len, done, mem, busy, calls>> /\ pc' = pc
      /\ (InCall => InCall') /\ (MovedOK => MovedOK')
  BY <1>1, CallKept
<1>5. TermTypes'
  BY <1>1, <1>2, <1>4 DEF TermTypes, Addr
<1>6. TermOK => TermOK'
  BY <1>1, <1>2, TermKept
<1>7. DumpOK => DumpOK'
  <2>1. DumpOK => busy
    BY <1>1 DEF DumpOK, TermTypes
  <2>2. QED
    BY <1>1, <1>3, <2>1, DumpKept DEF DebugOK
<1>8. QED
  BY <1>4, <1>5, <1>6, <1>7 DEF DebugOK

\* An empty queue is empty at both ends.
LEMMA Idle ==
  ASSUME TermTypes, Queue = <<>>
  PROVE  rx = <<>> /\ wire = <<>>
<1>1. wire \in Seq(Items) /\ rx \in Seq(Items) /\ rx \o wire = <<>>
  BY DEF TermTypes, Queue
<1>2. QED
  BY <1>1, ConcatEqualIffEmpty

\* What is printed joins the queue.
LEMMA Prints ==
  ASSUME TermTypes, NEW items \in Seq(Items), rx' = rx, wire' = wire \o items
  PROVE  Queue' = Queue \o items /\ wire' \in Seq(Items)
<1>1. wire \in Seq(Items) /\ rx \in Seq(Items)
  BY DEF TermTypes
<1>2. (rx \o wire) \o items = rx \o (wire \o items) /\ wire \o items \in Seq(Items)
  <2>1. ASSUME NEW a \in Seq(Items), NEW b \in Seq(Items), NEW c \in Seq(Items)
        PROVE  (a \o b) \o c = a \o (b \o c) /\ b \o c \in Seq(Items)
    BY ONLY <2>1, ConcatAssociative, ConcatProperties
  <2>2. QED BY <1>1, <2>1, Zenon
<1>3. QED
  BY <1>2 DEF Queue

\* A prompt that has arrived has brought along all that is on its way, when it
\* is the last item.
LEMMA PromptLast ==
  ASSUME TermTypes, U!Prompted, Queue \in Seq(Items),
         \A i \in 1 .. Len(Queue) - 1 : Queue[i] # U!Prompt
  PROVE  wire = <<>> /\ rx = Queue
<1>1. wire \in Seq(Items) /\ rx \in Seq(Items)
  BY DEF TermTypes
<1>2. PICK i \in 1 .. Len(rx) : rx[i] = U!Prompt
  BY <1>1 DEF U!Prompted
<1>3. Len(Queue) = Len(rx) + Len(wire) /\ Len(rx) \in Nat /\ Len(wire) \in Nat
      /\ \A j \in 1 .. Len(rx) + Len(wire) : Queue[j] = IF j <= Len(rx) THEN rx[j] ELSE wire[j - Len(rx)]
  BY <1>1, ConcatProperties, LenProperties DEF Queue
<1>4. Queue[i] = U!Prompt /\ i \in 1 .. Len(Queue)
  BY <1>2, <1>3
<1>5. i = Len(Queue)
  BY <1>3, <1>4
<1>6. Len(rx) >= Len(Queue)
  BY <1>2, <1>3, <1>5
<1>7. QED
  BY <1>1, <1>6, AtEnd DEF Queue

\* What two and one, or one, some and one, items make.
LEMMA Rows ==
  ASSUME NEW x, NEW y, NEW z
  PROVE  /\ <<x, y>> \o <<z>> = <<x, y, z>>
         /\ (<<x>> \o <<>>) \o <<z>> = <<x, z>> /\ (<<x>> \o <<y>>) \o <<z>> = <<x, y, z>>
<1> DEFINE X == {x, y, z}  q == <<x, y>>  o == <<x>>  r == <<y>>  e == <<z>>
<1>1. /\ q \in Seq(X) /\ Len(q) = 2 /\ q[1] = x /\ q[2] = y
      /\ o \in Seq(X) /\ Len(o) = 1 /\ o[1] = x
      /\ r \in Seq(X) /\ Len(r) = 1 /\ r[1] = y
      /\ e \in Seq(X) /\ Len(e) = 1 /\ e[1] = z
  OBVIOUS
<1>2. ASSUME NEW t \in Seq(X), Len(t) = 3, t[1] = x, t[2] = y, t[3] = z
      PROVE  t = <<x, y, z>>
  BY <1>2
<1>3. ASSUME NEW t \in Seq(X), Len(t) = 2, NEW b \in X, NEW c \in X, t[1] = b, t[2] = c
      PROVE  t = <<b, c>>
  BY <1>3
<1> HIDE DEF q, o, r, e
<1>4. /\ q \o e \in Seq(X) /\ Len(q \o e) = 3
      /\ (q \o e)[1] = x /\ (q \o e)[2] = y /\ (q \o e)[3] = z
  <2>1. /\ q \o e \in Seq(X) /\ Len(q \o e) = 2 + 1
        /\ \A i \in 1 .. 2 + 1 : (q \o e)[i] = IF i <= 2 THEN q[i] ELSE e[i - 2]
    <3> HIDE DEF X
    <3>1. /\ q \o e \in Seq(X) /\ Len(q \o e) = Len(q) + Len(e)
          /\ \A i \in 1 .. Len(q) + Len(e) :
               (q \o e)[i] = IF i <= Len(q) THEN q[i] ELSE e[i - Len(q)]
      BY <1>1, ConcatProperties, Zenon
    <3>2. QED
      BY <1>1, <3>1, Zenon
  <2> DEFINE s == q \o e
  <2> HIDE DEF s, X
  <2>2. s[1] = q[1] /\ s[2] = q[2] /\ s[3] = e[1]
    BY <2>1 DEF s
  <2>3. QED
    BY <1>1, <2>1, <2>2 DEF s
<1>5. /\ o \o e \in Seq(X) /\ Len(o \o e) = 2 /\ (o \o e)[1] = x /\ (o \o e)[2] = z
      /\ o \o r \in Seq(X) /\ Len(o \o r) = 2 /\ (o \o r)[1] = x /\ (o \o r)[2] = y
      /\ o \o <<>> = o
  BY <1>1, ConcatProperties, ConcatEmptySeq
<1>6. q \o e = <<x, y, z>>
  BY <1>2, <1>4
<1>7. o \o e = <<x, z>> /\ o \o r = <<x, y>>
  <2>1. x \in X /\ y \in X /\ z \in X
    OBVIOUS
  <2> HIDE DEF X
  <2>2. QED
    BY <1>3, <1>5, <2>1
<1>8. QED
  BY <1>5, <1>6, <1>7, Zenon DEF q, o, r, e

\* The entry to debug mode (debug_enter()).
LEMMA EnterSendStep ==
  ASSUME DebugOK, U!EnterSend
  PROVE  DebugOK' /\ state' = "enter"
<1>1. /\ state = "off" /\ state' = "enter" /\ wire' = Append(wire, U!Prompt) /\ rx' = rx
      /\ stdio' = stdio /\ pc' = pc /\ UNCHANGED ahbVars
      /\ TermTypes /\ wire \in Seq(Items) /\ rx \in Seq(Items)
  BY DEF U!EnterSend, DebugOK, TermTypes, ahbVars, U!ahbVars
<1>2. wire' = wire \o <<U!Prompt>> /\ <<U!Prompt>> \in Seq(Items)
  BY <1>1, Printed, AppendIsConcat
<1>3. Queue' = Queue \o <<U!Prompt>> /\ wire' \in Seq(Items)
  BY <1>1, <1>2, Prints
<1>4. TermOK /\ pc = "idle" /\ Queue \in {<<>>, <<U!Echo, U!Newline>>}
  BY <1>1 DEF DebugOK, TermOK, DumpOK
<1>5. Queue' \in {<<U!Prompt>>, <<U!Echo, U!Newline, U!Prompt>>}
  <2>1. <<>> \o <<U!Prompt>> = <<U!Prompt>>
    BY <1>2, ConcatEmptySeq
  <2>2. <<U!Echo, U!Newline>> \o <<U!Prompt>> = <<U!Echo, U!Newline, U!Prompt>>
    BY Rows
  <2>3. QED
    BY <1>3, <1>4, <2>1, <2>2
<1>6. /\ mem' = mem /\ busy' = busy /\ op' = op /\ phys' = phys /\ len' = len /\ done' = done
      /\ buf' = buf /\ rc' = rc /\ calls' = calls /\ ~busy
  BY <1>1, <1>4 DEF ahbVars, TermTypes
<1>7. MovedOK'
  BY <1>6, Zenon DEF MovedOK, DebugOK, U!Delivered
<1>8. TermTypes'
  BY <1>1, <1>3, <1>6 DEF TermTypes, Addr
<1>9. TermOK'
  <2>1. stdio' \in {<<>>, <<U!Prompt>>'}
    BY <1>1, <1>4 DEF TermOK, U!Prompt
  <2>2. QED
    BY <1>1, <1>4, <1>5, <2>1, Zenon DEF TermOK, U!Prompt, U!Echo, U!Newline
<1>10. QED
  BY <1>1, <1>6, <1>7, <1>8, <1>9 DEF DebugOK

\* The short queues are sequences of items with the prompt behind the others.
LEMMA PromptBehind ==
  ASSUME NEW x \in Items, NEW y \in Items, x # U!Prompt, y # U!Prompt,
         NEW q \in {<<U!Prompt>>, <<x, U!Prompt>>, <<x, y, U!Prompt>>}
  PROVE  q \in Seq(Items) /\ (\A i \in 1 .. Len(q) - 1 : q[i] # U!Prompt)
         /\ Len(q) \in 1 .. 3 /\ q[Len(q)] = U!Prompt
<1> DEFINE z == U!Prompt
<1>1. z \in Items /\ x # z /\ y # z /\ q \in {<<z>>, <<x, z>>, <<x, y, z>>}
  BY Printed
<1> HIDE DEF z
<1>2. q \in Seq(Items) /\ (\A i \in 1 .. Len(q) - 1 : q[i] # z) /\ Len(q) \in 1 .. 3 /\ q[Len(q)] = z
  <2>1. CASE q = <<z>>
    BY <1>1, <2>1
  <2>2. CASE q = <<x, z>>
    BY <1>1, <2>2
  <2>3. CASE q = <<x, y, z>>
    BY <1>1, <2>3
  <2>4. QED
    BY <1>1, <2>1, <2>2, <2>3
<1>3. QED
  BY <1>2 DEF z

\* The prompt that debug_enter() waits for is the last of what is on its way.
LEMMA EnterStep ==
  ASSUME DebugOK, U!Enter, ~owed'
  PROVE  DebugOK' /\ state' = "up"
<1>1. /\ state = "enter" /\ U!Prompted /\ state' = "up" /\ rx' = <<>> /\ wire' = wire
      /\ stdio' = stdio /\ pc' = pc /\ UNCHANGED ahbVars
      /\ TermTypes /\ wire \in Seq(Items) /\ rx \in Seq(Items)
  BY DEF U!Enter, DebugOK, TermTypes, ahbVars, U!ahbVars
<1>2. /\ TermOK /\ pc = "idle" /\ stdio \in {<<>>, <<U!Prompt>>}
      /\ Queue \in {<<U!Prompt>>, <<U!Echo, U!Newline, U!Prompt>>}
  BY <1>1 DEF DebugOK, TermOK, DumpOK
<1>3. U!Echo # U!Prompt /\ U!Newline # U!Prompt /\ U!Echo \in Items /\ U!Newline \in Items
  BY Printed
<1>4. Queue \in Seq(Items) /\ \A i \in 1 .. Len(Queue) - 1 : Queue[i] # U!Prompt
  BY <1>2, <1>3, PromptBehind
<1>5. wire = <<>>
  BY <1>1, <1>4, PromptLast
<1>6. <<>> \in Seq(Items) /\ <<>> \o <<>> = <<>>
  BY EmptySeq, ConcatEmptySeq
<1>7. Queue' = <<>>
  BY <1>1, <1>5, <1>6, Zenon DEF Queue
<1>8. /\ mem' = mem /\ busy' = busy /\ op' = op /\ phys' = phys /\ len' = len /\ done' = done
      /\ buf' = buf /\ rc' = rc /\ calls' = calls /\ ~busy
  BY <1>1, <1>2 DEF ahbVars, TermTypes
<1>9. MovedOK'
  BY <1>8, Zenon DEF MovedOK, DebugOK, U!Delivered
<1>10. TermTypes'
  BY <1>1, <1>6, <1>8 DEF TermTypes, Addr
<1>11. TermOK'
  <2>1. stdio' \in {<<>>, <<U!Prompt>>'}
    BY <1>1, <1>2 DEF U!Prompt
  <2>2. QED
    BY <1>1, <1>2, <1>7, <2>1, Zenon DEF TermOK, U!Prompt
<1>12. QED
  BY <1>1, <1>8, <1>9, <1>10, <1>11 DEF DebugOK

\* The exit from debug mode (debug_exit()).
LEMMA ExitStep ==
  ASSUME DebugOK, U!debug_exit
  PROVE  DebugOK' /\ state' = "off"
<1>1. /\ state = "up" /\ ~busy /\ state' = "off" /\ wire' = wire \o <<U!Echo, U!Newline>>
      /\ rx' = rx /\ stdio' = stdio /\ pc' = pc /\ UNCHANGED ahbVars
      /\ TermTypes /\ wire \in Seq(Items) /\ rx \in Seq(Items)
  BY DEF U!debug_exit, DebugOK, TermTypes, ahbVars, U!ahbVars
<1>2. TermOK /\ pc = "idle" /\ stdio \in {<<>>, <<U!Prompt>>} /\ Queue = <<>>
  BY <1>1 DEF DebugOK, TermTypes, TermOK, DumpOK
<1>3. <<U!Echo, U!Newline>> \in Seq(Items)
  BY Printed
<1>4. Queue' = <<U!Echo, U!Newline>> /\ wire' \in Seq(Items)
  <2> DEFINE q == <<U!Echo, U!Newline>>
  <2>1. q \in Seq(Items) /\ wire' = wire \o q
    BY <1>1, <1>3
  <2> HIDE DEF q
  <2>2. Queue' = Queue \o q /\ wire' \in Seq(Items)
    BY <1>1, <2>1, Prints
  <2>3. <<>> \o q = q
    BY <2>1, ConcatEmptySeq
  <2>4. QED
    BY <1>2, <2>2, <2>3 DEF q
<1>5. /\ mem' = mem /\ busy' = busy /\ op' = op /\ phys' = phys /\ len' = len /\ done' = done
      /\ buf' = buf /\ rc' = rc /\ calls' = calls /\ ~busy
  BY <1>1 DEF ahbVars
<1>6. MovedOK'
  BY <1>5, Zenon DEF MovedOK, DebugOK, U!Delivered
<1>7. TermTypes'
  BY <1>1, <1>4, <1>5 DEF TermTypes, Addr
<1>8. TermOK'
  <2>1. stdio' \in {<<>>, <<U!Prompt>>'}
    BY <1>1, <1>2 DEF U!Prompt
  <2>2. QED
    BY <1>1, <1>2, <1>4, <2>1, Zenon DEF TermOK, U!Echo, U!Newline
<1>9. QED
  BY <1>1, <1>5, <1>6, <1>7, <1>8 DEF DebugOK

\* A call starts with an empty terminal.
LEMMA CallStep ==
  ASSUME DebugOK, NEW r \in DebugRequests, U!Call(r)
  PROVE  DebugOK' /\ state' = "up"
<1>1. /\ state = "up" /\ ~busy /\ state' = "up" /\ busy' /\ calls' = calls + 1 /\ done' = 0
      /\ op' = r[1] /\ phys' = r[2] /\ len' = r[3] /\ buf' = <<>> /\ mem' = mem
      /\ pc' = "run" /\ consumed' = 0 /\ wire' = wire /\ rx' = rx /\ stdio' = stdio
      /\ TermTypes /\ wire \in Seq(Items) /\ rx \in Seq(Items)
  BY DEF U!Call, U!Begin, DebugOK, TermTypes, U!tty
<1>2. pc = "idle" /\ stdio \in {<<>>, <<U!Prompt>>} /\ Queue = <<>>
  BY <1>1 DEF DebugOK, TermTypes, TermOK, DumpOK
<1>3. /\ r[1] \in Ops /\ r[2] \in Nat /\ r[3] \in Nat \ {0} /\ r[2] + r[3] <= Size
      /\ r[1] \in {"readl", "writel"} => r[3] = 1
  BY DebugConsts
<1>4. InCall'
  <2>1. 0 \in 0 .. r[3]
    BY <1>3, SMT
  <2>2. QED
    BY <1>1, <1>3, <2>1, Zenon DEF InCall, Ops, Writes
<1>5. MovedOK'
  <2>1. CASE op' \in Writes
    BY <1>1, <2>1 DEF MovedOK, Writes
  <2>2. CASE op' \notin Writes
    <3>1. buf' = [k \in 1 .. done' + consumed' |-> mem'[phys' + k - 1]]
      BY <1>1
    <3>2. QED
      BY <1>1, <2>2, <3>1, Zenon DEF MovedOK, Writes
  <2>3. QED
    BY <2>1, <2>2
<1>6. calls' \in Nat
  BY <1>1 DEF TermTypes
<1>7. TermTypes'
  BY <1>1, <1>6 DEF TermTypes, Addr
<1>8. TermOK'
  <2>1. stdio' \in {<<>>, <<U!Prompt>>'} /\ Queue' = <<>>
    BY <1>1, <1>2 DEF U!Prompt, Queue
  <2>2. QED
    BY <1>1, <2>1, Zenon DEF TermOK
<1>9. QED
  BY <1>1, <1>4, <1>5, <1>7, <1>8 DEF DebugOK

\* A call that succeeds has moved all of it.
LEMMA DoneStep ==
  ASSUME DebugOK, U!Done
  PROVE  DebugOK' /\ state' = "up"
<1>1. /\ pc = "run" /\ done = len /\ pc' = "idle" /\ ~busy' /\ rc' = "ok"
      /\ mem' = mem /\ op' = op /\ phys' = phys /\ len' = len /\ done' = done /\ buf' = buf
      /\ calls' = calls /\ wire' = wire /\ rx' = rx /\ stdio' = stdio /\ state' = state
      /\ TermTypes
  BY DEF U!Done, U!Return, DebugOK, TermTypes, U!tty
<1>2. /\ stdio \in {<<>>, <<U!Prompt>>} /\ Queue = <<>> /\ state = "up" /\ busy /\ InCall /\ MovedOK
      /\ consumed = 0
  BY <1>1 DEF DebugOK, TermTypes, TermOK, DumpOK, InCall
<1>3. MovedOK'
  <2>1. CASE op \in Writes
    <3>1. \A i \in 0 .. len - 1 : mem[phys + i] = <<calls, i>>
      BY <1>1, <1>2, <2>1, Zenon DEF MovedOK
    <3>2. QED
      BY <1>1, <2>1, <3>1, Zenon DEF MovedOK, U!Delivered, U!Writes, Writes
  <2>2. CASE op \notin Writes
    <3>1. len \in Nat /\ len + 0 = len
      BY <1>2 DEF InCall
    <3>2. buf = [k \in 1 .. len |-> mem[phys + k - 1]]
      BY <1>1, <1>2, <2>2, <3>1, Zenon DEF MovedOK
    <3>3. QED
      BY <1>1, <2>2, <3>2, Zenon DEF MovedOK, U!Delivered, U!Writes, Writes
  <2>3. QED
    BY <2>1, <2>2
<1>4. TermTypes'
  BY <1>1 DEF TermTypes, Addr
<1>5. TermOK'
  <2>1. stdio' \in {<<>>, <<U!Prompt>>'} /\ Queue' = <<>>
    BY <1>1, <1>2 DEF U!Prompt, Queue
  <2>2. QED
    BY <1>1, <1>2, <2>1, Zenon DEF TermOK
<1>6. QED
  BY <1>1, <1>2, <1>3, <1>4, <1>5 DEF DebugOK

\* A failure is sound only where no answer is on its way.
LEMMA IoErrorStep ==
  ASSUME DebugOK, U!IoError, ~owed'
  PROVE  DebugOK' /\ state' = "up"
<1>1. /\ pc = "run" /\ pc' = "idle" /\ ~busy' /\ rc' = "fail"
      /\ mem' = mem /\ calls' = calls /\ wire' = wire /\ rx' = rx /\ stdio' = stdio /\ state' = state
      /\ TermTypes
  BY DEF U!IoError, U!Fail, U!Return, DebugOK, TermTypes
<1>2. stdio \in {<<>>, <<U!Prompt>>} /\ Queue = <<>> /\ state = "up"
  BY <1>1 DEF DebugOK, TermTypes, TermOK, DumpOK
<1>3. MovedOK'
  BY <1>1, Zenon DEF MovedOK, U!Delivered
<1>4. TermTypes'
  BY <1>1 DEF TermTypes, Addr
<1>5. TermOK'
  <2>1. stdio' \in {<<>>, <<U!Prompt>>'} /\ Queue' = <<>>
    BY <1>1, <1>2 DEF U!Prompt, Queue
  <2>2. QED
    BY <1>1, <1>2, <2>1, Zenon DEF TermOK
<1>6. QED
  BY <1>1, <1>2, <1>3, <1>4, <1>5 DEF DebugOK

\* The prompt of a write is the last of what is on its way.
LEMMA PromptStep ==
  ASSUME DebugOK, U!Expect
  PROVE  DebugOK' /\ state' = "up"
<1>1. /\ pc = "expect" /\ op \in Writes /\ U!Prompted /\ rx' = <<>> /\ pc' = "run"
      /\ UNCHANGED ahbVars /\ state' = state /\ consumed' = consumed /\ wire' = wire
      /\ stdio' = stdio /\ TermTypes
  BY DEF U!Expect, DebugOK, U!Writes, Writes, ahbVars, U!ahbVars
<1>2. /\ stdio \in {<<>>, <<U!Prompt>>} /\ Queue = <<U!Echo, U!Prompt>> /\ state = "up"
      /\ busy /\ InCall /\ MovedOK
  BY <1>1 DEF DebugOK, TermTypes, TermOK, DumpOK
<1>3. U!Echo # U!Prompt /\ U!Echo \in Items
  BY Printed
<1>4. Queue \in Seq(Items) /\ \A i \in 1 .. Len(Queue) - 1 : Queue[i] # U!Prompt
  BY <1>2, <1>3, PromptBehind
<1>5. wire = <<>>
  BY <1>1, <1>4, PromptLast
<1>6. <<>> \in Seq(Items) /\ <<>> \o <<>> = <<>>
  BY EmptySeq, ConcatEmptySeq
<1>7. Queue' = <<>>
  BY <1>1, <1>5, <1>6, Zenon DEF Queue
<1>8. /\ mem' = mem /\ busy' = busy /\ op' = op /\ phys' = phys /\ len' = len /\ done' = done
      /\ buf' = buf /\ rc' = rc /\ calls' = calls
  BY <1>1 DEF ahbVars
<1>9. MovedOK'
  BY <1>1, <1>2, <1>8, Zenon DEF MovedOK, Writes
<1>10. InCall'
  BY <1>1, <1>2, <1>8 DEF InCall, Ops, Writes
<1>11. TermTypes'
  BY <1>1, <1>6, <1>8 DEF TermTypes, Addr
<1>12. TermOK'
  <2>1. stdio' \in {<<>>, <<U!Prompt>>'}
    BY <1>1, <1>2 DEF U!Prompt
  <2>2. QED
    BY <1>1, <1>2, <1>7, <2>1, Zenon DEF TermOK
<1>13. QED
  BY <1>1, <1>2, <1>9, <1>10, <1>11, <1>12 DEF DebugOK

\* What has arrived can be looked at line by line (prompt_gets()).
LEMMA FillStep ==
  ASSUME DebugOK, U!Fill
  PROVE  DebugOK' /\ state' = "up"
<1>1. /\ pc \in {"echo", "line"} /\ stdio' = stdio \o rx /\ rx' = <<>> /\ wire' = wire
      /\ UNCHANGED <<ahbVars, state, pc, consumed>> /\ state' = state /\ TermTypes
      /\ wire \in Seq(Items) /\ rx \in Seq(Items) /\ stdio \in Seq(Items)
  BY DEF U!Fill, DebugOK, TermTypes, ahbVars, U!ahbVars
<1>2. DumpOK /\ busy /\ (busy => InCall) /\ MovedOK /\ state = "up"
  BY <1>1 DEF DebugOK, TermTypes, TermOK, DumpOK
<1>3. /\ (stdio \o rx) \o wire = stdio \o (rx \o wire) /\ <<>> \o wire = wire
      /\ stdio \o rx \in Seq(Items) /\ <<>> \in Seq(Items)
  BY <1>1, ConcatAssociative, ConcatProperties, ConcatEmptySeq, EmptySeq
<1>4. Stream' = Stream
  BY <1>1, <1>3, Zenon DEF Stream, Queue
<1>5. DumpOK'
  BY <1>1, <1>2, <1>4, DumpKept
<1>6. InCall' /\ MovedOK' /\ UNCHANGED <<mem, busy, calls>>
  BY <1>1, <1>2, CallKept
<1>7. TermTypes'
  BY <1>1, <1>3, <1>6 DEF TermTypes, Addr
<1>8. QED
  BY <1>1, <1>2, <1>5, <1>6, <1>7 DEF DebugOK

\* The words at consecutive addresses.
LEMMA Longer ==
  ASSUME mem \in [Addr -> Nat \X Nat], Size \in Nat, NEW a \in Nat, NEW n \in Nat, NEW m \in Nat,
         a + n + m <= Size
  PROVE  /\ U!Words(a + n, m) \in Seq(Nat \X Nat) /\ Len(U!Words(a + n, m)) = m
         /\ [k \in 1 .. n |-> mem[a + k - 1]] \in Seq(Nat \X Nat)
         /\ [k \in 1 .. n |-> mem[a + k - 1]] \o U!Words(a + n, m)
              = [k \in 1 .. n + m |-> mem[a + k - 1]]
<1> DEFINE s == [k \in 1 .. n |-> mem[a + k - 1]]  t == [k \in 1 .. m |-> mem[a + n + k - 1]]
           u == [k \in 1 .. n + m |-> mem[a + k - 1]]  W == Nat \X Nat
<1>1. ASSUME NEW x \in Nat, x < Size PROVE mem[x] \in W
  BY <1>1 DEF Addr
<1> HIDE DEF W
<1>2. s \in Seq(W) /\ Len(s) = n /\ \A k \in 1 .. n : s[k] = mem[a + k - 1]
  <2>1. \A k \in 1 .. n : mem[a + k - 1] \in W
    BY <1>1
  <2>2. QED
    BY <2>1
<1>3. t \in Seq(W) /\ Len(t) = m /\ \A k \in 1 .. m : t[k] = mem[a + n + k - 1]
  <2>1. \A k \in 1 .. m : mem[a + n + k - 1] \in W
    BY <1>1
  <2>2. QED
    BY <2>1
<1>4. u \in Seq(W) /\ Len(u) = n + m /\ \A k \in 1 .. n + m : u[k] = mem[a + k - 1]
  <2>1. \A k \in 1 .. n + m : mem[a + k - 1] \in W
    BY <1>1
  <2>2. QED
    BY <2>1
<1> HIDE DEF s, t, u
<1> DEFINE v == s \o t
<1>5. /\ v \in Seq(W) /\ Len(v) = Len(s) + Len(t)
      /\ \A i \in 1 .. Len(s) + Len(t) : v[i] = IF i <= Len(s) THEN s[i] ELSE t[i - Len(s)]
  BY <1>2, <1>3, ConcatProperties, Zenon
<1> HIDE DEF v
<1>6. ASSUME NEW i \in 1 .. n + m PROVE v[i] = u[i]
  <2>1. CASE i <= n
    <3>1. i \in 1 .. n /\ i \in 1 .. Len(s) + Len(t) /\ i <= Len(s)
      BY <1>2, <1>3, <2>1
    <3>2. v[i] = s[i]
      BY <1>5, <3>1, Zenon
    <3>3. QED
      BY <1>2, <1>4, <3>1, <3>2, Zenon
  <2>2. CASE i > n
    <3>1. i - n \in 1 .. m /\ a + n + (i - n) - 1 = a + i - 1
      BY <2>2
    <3>2. v[i] = t[i - n]
      BY <1>2, <1>3, <1>5, <2>2
    <3>3. QED
      BY <1>3, <1>4, <3>1, <3>2
  <2>3. QED
    BY <2>1, <2>2
<1>7. v = u
  <2>1. Len(v) = Len(u) /\ \A i \in 1 .. Len(v) : v[i] = u[i]
    BY <1>2, <1>3, <1>4, <1>5, <1>6
  <2>2. QED
    BY <1>4, <1>5, <2>1, SeqEqual
<1>8. U!Words(a + n, m) = t
  BY DEF t, U!Words
<1>9. QED
  BY <1>2, <1>3, <1>7, <1>8 DEF s, u, v, W

\* The word between the echo and the prompt is the one that was asked for
\* (debug_read_fixed()).
LEMMA ReadStep ==
  ASSUME DebugOK, U!ReadFixed
  PROVE  DebugOK' /\ state' = "up"
<1> DEFINE word == U!Item("word", U!Words(phys + done, 1))
<1>1. /\ pc = "expect" /\ op \notin Writes /\ U!Prompted /\ rx' = <<>> /\ wire' = wire
      /\ stdio' = stdio /\ state' = state /\ mem' = mem /\ calls' = calls /\ TermTypes
  BY DEF U!ReadFixed, U!Fail, U!Return, DebugOK, U!Writes, Writes
<1>2. /\ stdio \in {<<>>, <<U!Prompt>>} /\ Queue = <<U!Echo, word, U!Prompt>> /\ state = "up"
      /\ done < len /\ busy /\ InCall /\ MovedOK
  BY <1>1 DEF DebugOK, TermTypes, TermOK, DumpOK
<1>3. /\ phys \in Nat /\ len \in Nat \ {0} /\ done \in 0 .. len /\ phys + len <= Size /\ Size \in Nat
      /\ consumed = 0
  BY <1>1, <1>2, DebugConsts DEF InCall
<1>4. /\ U!Words(phys + done, 1) \in Seq(Nat \X Nat)
      /\ [k \in 1 .. done |-> mem[phys + k - 1]] \in Seq(Nat \X Nat)
      /\ [k \in 1 .. done |-> mem[phys + k - 1]] \o U!Words(phys + done, 1)
           = [k \in 1 .. done + 1 |-> mem[phys + k - 1]]
  <2>1. phys + done + 1 <= Size /\ done \in Nat /\ 1 \in Nat
    BY <1>2, <1>3
  <2>2. QED
    BY <1>1, <1>3, <2>1, Longer DEF TermTypes
<1>5. /\ word \in Items /\ word.kind = "word" /\ word.data = U!Words(phys + done, 1)
      /\ U!Echo \in Items /\ U!Echo # U!Prompt /\ word # U!Prompt
  BY <1>4, Printed
<1> HIDE DEF word
<1>6. /\ Queue \in Seq(Items) /\ \A i \in 1 .. Len(Queue) - 1 : Queue[i] # U!Prompt
  BY <1>2, <1>5, PromptBehind
<1>7. wire = <<>> /\ rx = <<U!Echo, word, U!Prompt>>
  BY <1>1, <1>2, <1>6, PromptLast
<1>8. <<>> \in Seq(Items) /\ <<>> \o <<>> = <<>>
  BY EmptySeq, ConcatEmptySeq
<1>9. Queue' = <<>> /\ stdio' \in {<<>>, <<U!Prompt>>'}
  BY <1>1, <1>2, <1>7, <1>8, Zenon DEF Queue, U!Prompt
<1>10. CASE U!Response = "none" /\ U!Fail
  <2>1. ~busy' /\ rc' = "fail" /\ pc' = "idle"
    BY <1>10 DEF U!Fail, U!Return
  <2>2. MovedOK'
    BY <2>1, Zenon DEF MovedOK, U!Delivered
  <2>3. TermTypes'
    BY <1>1, <1>8, <2>1 DEF TermTypes, Addr
  <2>4. TermOK'
    BY <1>1, <1>2, <1>9, <2>1, Zenon DEF TermOK
  <2>5. QED
    BY <1>1, <1>2, <2>1, <2>2, <2>3, <2>4 DEF DebugOK
<1>11. CASE U!Response # "none" /\ pc' = "run"
  <2>1. /\ buf' = Append(buf, U!Response) /\ done' = done + 1 /\ pc' = "run"
        /\ busy' = busy /\ op' = op /\ phys' = phys /\ len' = len /\ consumed' = consumed
    BY <1>11 DEF U!ReadFixed, U!Fail
  <2>2. U!Response = word.data[1]
    <3> DEFINE IsP(i) == rx[i] = U!Prompt /\ \A j \in 1 .. i - 1 : rx[j] # U!Prompt
               p == CHOOSE i \in DOMAIN rx : IsP(i)
    <3>1. /\ DOMAIN rx = 1 .. 3 /\ rx[1] = U!Echo /\ rx[2] = word /\ rx[3] = U!Prompt
      BY <1>7
    <3>2. \A i \in DOMAIN rx : IsP(i) <=> i = 3
      BY <1>5, <3>1
    <3>3. 3 \in DOMAIN rx
      BY <3>1
    <3> HIDE DEF IsP
    <3>4. p \in DOMAIN rx /\ IsP(p)
      BY <3>2, <3>3
    <3>5. p = 3
      BY <3>2, <3>4
    <3>6. U!Response = IF p = 1 THEN "none"
                       ELSE IF p > 2 /\ rx[2].kind = "word" THEN rx[2].data[1] ELSE U!Junk
      BY Zenon DEF U!Response, p, IsP
    <3> HIDE DEF p
    <3>7. p > 2 /\ p # 1
      BY <3>5
    <3>8. QED
      BY <1>5, <3>1, <3>6, <3>7, Zenon
  <2>3. buf = [k \in 1 .. done |-> mem[phys + k - 1]]
    <3>1. done + 0 = done
      BY <1>3
    <3>2. QED
      BY <1>1, <1>2, <1>3, <3>1, Zenon DEF MovedOK
  <2>4. U!Words(phys + done, 1) = <<U!Response>>
    <3>1. U!Words(phys + done, 1)[1] = mem[phys + done + 1 - 1] /\ Len(U!Words(phys + done, 1)) = 1
          /\ U!Words(phys + done, 1) \in Seq(Nat \X Nat)
      BY <1>4 DEF U!Words
    <3> DEFINE w == U!Words(phys + done, 1)
    <3>2. U!Response = w[1]
      BY <1>5, <2>2, Zenon
    <3>3. w \in Seq(Nat \X Nat) /\ Len(w) = 1
      BY <3>1
    <3> HIDE DEF w
    <3>4. w = <<w[1]>>
      BY <3>3
    <3>5. QED
      BY <3>2, <3>4 DEF w
  <2>5. buf' = [k \in 1 .. done + 1 |-> mem[phys + k - 1]]
    <3> DEFINE W == Nat \X Nat  b == [k \in 1 .. done |-> mem[phys + k - 1]]  x == U!Response
    <3>1. <<x>> \in Seq(W) /\ b \in Seq(W)
      BY <1>4, <2>4
    <3> HIDE DEF W, b, x
    <3>2. x \in W
      <4>1. <<x>>[1] \in W
        BY <3>1
      <4>2. QED
        BY <4>1
    <3>3. Append(b, x) = b \o <<x>>
      BY <3>1, <3>2, AppendIsConcat
    <3>4. QED
      BY <1>4, <2>1, <2>3, <2>4, <3>3, Zenon DEF b, x
  <2>6. MovedOK'
    <3>1. done' + consumed' = done + 1
      BY <1>3, <2>1
    <3>2. buf' = [k \in 1 .. done' + consumed' |-> mem'[phys' + k - 1]]
      BY <1>1, <2>1, <2>5, <3>1, Zenon
    <3>3. busy' /\ op' \notin Writes
      BY <1>1, <1>2, <2>1
    <3>4. QED
      BY <3>2, <3>3, Zenon DEF MovedOK, Writes
  <2>7. InCall'
    BY <1>1, <1>2, <2>1 DEF InCall, Ops, Writes
  <2>8. TermTypes'
    BY <1>1, <1>2, <1>8, <2>1 DEF TermTypes, Addr
  <2>9. TermOK'
    BY <1>1, <1>2, <1>9, <2>1, Zenon DEF TermOK
  <2>10. QED
    BY <1>1, <1>2, <2>6, <2>7, <2>8, <2>9 DEF DebugOK
<1>12. QED
  BY <1>10, <1>11 DEF U!ReadFixed

\* Which command does the work of a call.
LEMMA Commands ==
  ASSUME op \in Ops, len \in Nat
  PROVE  /\ op \in Writes => U!Command \in {"w", "o", "u"}
         /\ op \notin Writes /\ ~(op = "read" /\ len >= DumpMin) => U!Command \in {"r", "i"}
         /\ op = "read" /\ len >= DumpMin => U!Command = "d"
<1>1. DumpMin \in Nat /\ ByteMax \in Nat
  BY DebugConsts
<1>2. CASE op = "readl"
  BY <1>2 DEF U!Command, Writes
<1>3. CASE op = "read" /\ len < DumpMin
  BY <1>1, <1>3 DEF U!Command, Writes
<1>4. CASE op = "read" /\ len >= DumpMin
  BY <1>1, <1>4 DEF U!Command, Writes
<1>5. CASE op = "writel"
  BY <1>5 DEF U!Command, Writes
<1>6. CASE op = "write" /\ len <= ByteMax
  BY <1>1, <1>6 DEF U!Command, Writes
<1>7. CASE op = "write" /\ len > ByteMax
  BY <1>1, <1>7 DEF U!Command, Writes
<1>8. QED
  BY <1>1, <1>2, <1>3, <1>4, <1>5, <1>6, <1>7 DEF Ops, Writes

\* What a command is answered with comes on an empty line.
LEMMA Answers ==
  ASSUME DebugOK, U!Run, U!Reply \in Seq(Items)
  PROVE  /\ wire' \in Seq(Items) /\ rx' = rx /\ stdio' = stdio
         /\ Queue' = (<<U!Echo>> \o U!Reply) \o <<U!Prompt>>
<1> DEFINE e == <<U!Echo>>  p == <<U!Prompt>>  a == U!Reply
<1>1. e \in Seq(Items) /\ p \in Seq(Items) /\ a \in Seq(Items)
  BY Printed
<1>2. wire' = wire \o ((e \o a) \o p) /\ rx' = rx /\ stdio' = stdio /\ TermTypes /\ pc = "run"
  BY DEF U!Run, U!prompt_run, DebugOK
<1>3. Queue = <<>>
  BY <1>2 DEF DebugOK, TermOK, DumpOK
<1> HIDE DEF e, p, a
<1>4. (e \o a) \o p \in Seq(Items)
  BY <1>1, ConcatProperties
<1> DEFINE q == (e \o a) \o p
<1>5. q \in Seq(Items) /\ wire' = wire \o q
  BY <1>2, <1>4
<1> HIDE DEF q
<1>6. Queue' = Queue \o q /\ wire' \in Seq(Items)
  BY <1>2, <1>5, Prints
<1>7. <<>> \o q = q
  BY <1>5, ConcatEmptySeq
<1>8. QED
  BY <1>2, <1>3, <1>6, <1>7, Zenon DEF q, e, p, a

\* A command that writes moves its piece before its prompt (debug_write()).
LEMMA WriteStep ==
  ASSUME DebugOK, U!Run, op \in Writes, ~owed'
  PROVE  DebugOK' /\ state' = "up"
<1>1. /\ pc = "run" /\ done < len /\ state' = state /\ consumed' = consumed /\ TermTypes
  BY DEF U!Run, DebugOK
<1>2. /\ state = "up" /\ busy /\ InCall /\ MovedOK /\ stdio \in {<<>>, <<U!Prompt>>}
      /\ (busy => InCall) /\ mem \in [Addr -> Nat \X Nat] /\ calls \in Nat /\ consumed = 0
  BY <1>1 DEF DebugOK, TermTypes, TermOK, DumpOK, InCall
<1>3. /\ U!Chunk \in 1 .. len - done /\ len \in Nat /\ done \in Nat /\ phys \in Nat /\ Size \in Nat
      /\ phys + done + U!Chunk <= Size /\ phys + len <= Size /\ op \in Ops
  BY <1>1, <1>2, Chunks DEF InCall
<1>4. U!Command \in {"w", "o", "u"}
  BY <1>3, Commands
<1>5. U!Reply = <<>> /\ pc' = "expect" /\ U!Move(U!Chunk, phys + done)
  BY <1>4 DEF U!Run, U!Reply, U!Writes, Writes
<1>6. /\ done' = done + U!Chunk /\ busy' = busy /\ op' = op /\ phys' = phys /\ len' = len
      /\ calls' = calls
      /\ mem' = [a \in Addr |-> IF phys + done <= a /\ a < phys + done + U!Chunk
                                  THEN <<calls, done + (a - (phys + done))>> ELSE mem[a]]
  BY <1>5 DEF U!Move, U!Writes, Writes, U!Addr, Addr
<1> DEFINE n == U!Chunk
<1> HIDE DEF n
<1>7. \A a \in Addr : mem'[a] = IF phys + done <= a /\ a < phys + done + n
                                  THEN <<calls, done + (a - (phys + done))>> ELSE mem[a]
  BY <1>6 DEF n
<1>8. mem' \in [Addr -> Nat \X Nat]
  <2>1. ASSUME NEW a \in Addr
        PROVE (IF phys + done <= a /\ a < phys + done + n
                 THEN <<calls, done + (a - (phys + done))>> ELSE mem[a]) \in Nat \X Nat
    <3>1. mem[a] \in Nat \X Nat /\ a \in Nat
      BY <1>2, <1>3 DEF Addr
    <3>2. phys + done <= a => <<calls, done + (a - (phys + done))>> \in Nat \X Nat
      BY <1>2, <1>3, <3>1
    <3>3. QED
      BY <3>1, <3>2, Zenon
  <2>2. QED
    BY <1>6, <2>1, Zenon DEF n
<1>9. \A i \in 0 .. done' - 1 : mem'[phys' + i] = <<calls', i>>
  <2> DEFINE d == done + n
  <2>0. done' = d /\ phys' = phys /\ calls' = calls
    BY <1>6 DEF n
  <2>1. SUFFICES ASSUME NEW i \in 0 .. d - 1 PROVE mem'[phys + i] = <<calls, i>>
    BY <2>0, Zenon
  <2>2. n \in 1 .. len - done /\ n \in Nat /\ i \in Nat
    BY <1>3 DEF n
  <2>3. phys + i \in Addr
    BY <1>3, <2>2 DEF Addr
  <2>4. CASE i < done
    <3>1. mem[phys + i] = <<calls, i>>
      BY <1>2, <1>3, <2>2, <2>4 DEF MovedOK
    <3>2. ~(phys + done <= phys + i)
      BY <1>3, <2>2, <2>4
    <3>3. QED
      BY <1>7, <2>3, <3>1, <3>2, Zenon
  <2>5. CASE i >= done
    <3>1. /\ phys + done <= phys + i /\ phys + i < phys + done + n
          /\ done + ((phys + i) - (phys + done)) = i
      BY <1>3, <2>2, <2>5
    <3>2. QED
      BY <1>7, <2>3, <3>1, Zenon
  <2>6. QED
    BY <1>3, <2>2, <2>4, <2>5
<1>10. MovedOK'
  BY <1>2, <1>6, <1>9, Zenon DEF MovedOK, Writes
<1>11. InCall'
  <2>1. done' \in 0 .. len
    BY <1>3, <1>6
  <2>2. consumed' = 0 /\ state' = "up"
    BY <1>1, <1>2
  <2>3. QED
    BY <1>2, <1>6, <2>1, <2>2, Zenon DEF InCall, Ops, Writes
<1>12. /\ wire' \in Seq(Items) /\ rx' = rx /\ stdio' = stdio
       /\ Queue' = <<U!Echo, U!Prompt>>
  <2>1. U!Reply \in Seq(Items)
    BY <1>5
  <2>2. (<<U!Echo>> \o <<>>) \o <<U!Prompt>> = <<U!Echo, U!Prompt>>
    BY Rows
  <2>3. QED
    BY <1>5, <2>1, <2>2, Answers
<1>13. TermTypes'
  BY <1>1, <1>2, <1>5, <1>6, <1>8, <1>12 DEF TermTypes, Addr
<1>14. TermOK'
  <2>1. stdio' \in {<<>>, <<U!Prompt>>'}
    BY <1>2, <1>12 DEF U!Prompt
  <2>2. op' \in Writes /\ state' = "up"
    BY <1>1, <1>2, <1>6
  <2>3. QED
    BY <1>5, <1>12, <2>1, <2>2, Zenon DEF TermOK, U!Prompt, U!Echo, Writes
<1>15. QED
  BY <1>1, <1>2, <1>10, <1>11, <1>13, <1>14 DEF DebugOK

\* A word that is read alone is on its way behind the echo (debug_read_fixed()).
LEMMA ReadRunStep ==
  ASSUME DebugOK, U!Run, op \notin Writes, ~(op = "read" /\ len >= DumpMin)
  PROVE  DebugOK' /\ state' = "up"
<1>1. /\ pc = "run" /\ done < len /\ state' = state /\ consumed' = consumed /\ TermTypes
      /\ UNCHANGED ahbVars
  BY DEF U!Run, DebugOK, U!Writes, Writes, ahbVars, U!ahbVars
<1>2. /\ state = "up" /\ busy /\ InCall /\ MovedOK /\ stdio \in {<<>>, <<U!Prompt>>}
      /\ (busy => InCall) /\ consumed = 0
  BY <1>1 DEF DebugOK, TermTypes, TermOK, DumpOK, InCall
<1>3. /\ len \in Nat /\ done \in Nat /\ phys \in Nat /\ Size \in Nat /\ phys + done + 1 <= Size
      /\ op \in Ops /\ 1 \in Nat
  <2>1. phys + len <= Size /\ len \in Nat /\ done \in Nat /\ phys \in Nat /\ op \in Ops
    BY <1>2 DEF InCall
  <2>2. QED
    BY <1>1, <2>1, DebugConsts
<1>4. U!Command \in {"r", "i"}
  BY <1>3, Commands
<1> DEFINE word == U!Item("word", U!Words(phys + done, 1))
<1>5. U!Reply = <<word>> /\ pc' = "expect"
  BY <1>4 DEF U!Run, U!Reply, U!Unanswered
<1>6. word \in Items
  <2>1. U!Words(phys + done, 1) \in Seq(Nat \X Nat)
    BY <1>1, <1>3, Longer DEF TermTypes
  <2>2. QED
    BY <2>1, Printed
<1>7. /\ mem' = mem /\ busy' = busy /\ op' = op /\ phys' = phys /\ len' = len /\ done' = done
      /\ buf' = buf /\ rc' = rc /\ calls' = calls
  BY <1>1 DEF ahbVars
<1>8. word' = word
  BY <1>7, Zenon DEF U!Item, U!Words
<1> HIDE DEF word
<1>9. wire' \in Seq(Items) /\ rx' = rx /\ stdio' = stdio /\ Queue' = <<U!Echo, word, U!Prompt>>
  <2>1. <<word>> \in Seq(Items)
    BY <1>6
  <2>2. (<<U!Echo>> \o <<word>>) \o <<U!Prompt>> = <<U!Echo, word, U!Prompt>>
    BY Rows
  <2>3. QED
    BY <1>5, <2>1, <2>2, Answers
<1>10. MovedOK'
  BY <1>1, <1>2, <1>7, Zenon DEF MovedOK, Writes
<1>11. InCall'
  BY <1>1, <1>2, <1>7 DEF InCall, Ops, Writes
<1>12. TermTypes'
  BY <1>1, <1>2, <1>5, <1>7, <1>9 DEF TermTypes, Addr
<1>13. TermOK'
  <2>1. stdio' \in {<<>>, <<U!Prompt>>'}
    BY <1>2, <1>9 DEF U!Prompt
  <2>2. /\ op' \notin Writes' /\ state' = "up" /\ done' < len'
        /\ Queue' = <<U!Echo', word', U!Prompt'>>
    BY <1>1, <1>2, <1>7, <1>8, <1>9, Zenon DEF Writes, U!Prompt, U!Echo
  <2>3. QED
    BY <1>5, <2>1, <2>2, Zenon DEF TermOK, word
<1>14. QED
  BY <1>1, <1>2, <1>10, <1>11, <1>12, <1>13 DEF DebugOK

\* How many units precede a line of a dump, and how many are on it.
LineSize(l) ==
  IF U!Chunk - (l - 1) * LineLen < LineLen THEN U!Chunk - (l - 1) * LineLen ELSE LineLen

\* Only the last line of a dump reaches its end.
LEMMA LineSizes ==
  ASSUME busy => InCall, busy, done < len, NEW l \in 1 .. LineCount
  PROVE  /\ LineSize(l) \in Nat \ {0} /\ (l - 1) * LineLen \in Nat /\ l * LineLen \in Nat
         /\ (l - 1) * LineLen + LineSize(l) <= U!Chunk
         /\ l < LineCount => /\ (l - 1) * LineLen + LineSize(l) < U!Chunk
                             /\ LineSize(l) = LineLen
                             /\ (l - 1) * LineLen + LineSize(l) = l * LineLen
         /\ l = LineCount => (l - 1) * LineLen + LineSize(l) = U!Chunk
<1> DEFINE n == U!Chunk  w == LineLen  c == LineCount
<1>1. /\ n \in Nat \ {0} /\ w \in Nat \ {0} /\ c \in Nat \ {0} /\ l \in 1 .. c
      /\ (c - 1) * w < n /\ n <= c * w
  BY Chunks, DebugConsts
<1>2. LineSize(l) = IF n - (l - 1) * w < w THEN n - (l - 1) * w ELSE w
  BY DEF LineSize
<1> HIDE DEF n, w, c
<1> DEFINE a == (l - 1) * w  b == l * w  d == (c - 1) * w  e == c * w
<1>3. a \in Nat /\ b = a + w /\ e = d + w /\ d \in Nat
  BY <1>1, SMT
<1>4. l < c => b <= d
  <2>1. ASSUME l < c PROVE (c - 1 - l) * w >= 0 /\ (c - 1) * w = l * w + (c - 1 - l) * w
    BY <1>1, <2>1, SMT
  <2>2. QED
    BY <1>1, <2>1, SMT
<1>5. l = c => a = d /\ b = e
  OBVIOUS
<1>6. LineSize(l) = IF n - a < w THEN n - a ELSE w
  BY <1>2
<1>7. d < n /\ n <= e
  BY <1>1
<1> HIDE DEF a, b, d, e
<1>8. l < c \/ l = c
  BY <1>1
<1>9. QED
  <2>1. CASE l < c
    <3>1. LineSize(l) = w /\ a + w < n
      BY <1>1, <1>3, <1>4, <1>6, <1>7, <2>1
    <3>2. QED
      BY <1>1, <1>3, <2>1, <3>1 DEF n, w, c, a, b
  <2>2. CASE l = c
    <3>1. LineSize(l) = n - a /\ a < n
      BY <1>1, <1>3, <1>5, <1>6, <1>7, <2>2
    <3>2. QED
      BY <1>1, <1>3, <2>2, <3>1 DEF n, w, c, a, b
  <2>3. QED
    BY <1>8, <2>1, <2>2

\* What the shell prints of a dump.
LEMMA DumpLine ==
  ASSUME TermTypes, busy => InCall, busy, done < len, NEW l \in 1 .. LineCount
  PROVE  LET line == U!DumpLines(phys + done, U!Chunk)[l]
             at == done + (l - 1) * LineLen
         IN  /\ line \in Items /\ line.kind = "line" /\ Len(line.data) = LineSize(l)
             /\ line.data = U!Words(phys + at, LineSize(l))
             /\ [k \in 1 .. at |-> mem[phys + k - 1]] \o line.data
                  = [k \in 1 .. at + LineSize(l) |-> mem[phys + k - 1]]
<1> DEFINE line == U!DumpLines(phys + done, U!Chunk)[l]  m == LineSize(l)
           a == (l - 1) * LineLen  at == done + a
<1>1. line = U!Item("line", U!Words(phys + done + a, m))
  BY DEF U!DumpLines, LineCount, LineSize
<1>2. /\ phys \in Nat /\ done \in Nat /\ Size \in Nat /\ U!Chunk \in Nat
      /\ phys + done + U!Chunk <= Size
  BY Chunks
<1>3. m \in Nat /\ a \in Nat /\ a + m <= U!Chunk
  BY LineSizes
<1> HIDE DEF line, m, a
<1>4. /\ at \in Nat /\ phys + at + m <= Size /\ phys + done + a = phys + at
  BY <1>2, <1>3
<1>5. /\ U!Words(phys + at, m) \in Seq(Nat \X Nat) /\ Len(U!Words(phys + at, m)) = m
      /\ [k \in 1 .. at |-> mem[phys + k - 1]] \o U!Words(phys + at, m)
            = [k \in 1 .. at + m |-> mem[phys + k - 1]]
  <2> HIDE DEF at
  <2>1. mem \in [Addr -> Nat \X Nat]
    BY DEF TermTypes
  <2>2. QED
    BY <1>2, <1>3, <1>4, <2>1, Longer, Zenon
<1>6. line = U!Item("line", U!Words(phys + at, m))
  BY <1>1, <1>4, Zenon
<1>7. line \in Items /\ line.kind = "line" /\ line.data = U!Words(phys + at, m)
  BY <1>5, <1>6, Printed, Zenon
<1>8. QED
  BY <1>5, <1>7, Zenon DEF line, m, a

\* The lines of a dump.
LEMMA Dumped ==
  ASSUME TermTypes, busy => InCall, busy, done < len
  PROVE  LET lines == U!DumpLines(phys + done, U!Chunk)
         IN  lines \in Seq(Items) /\ Len(lines) = LineCount
<1> DEFINE lines == U!DumpLines(phys + done, U!Chunk)
<1>1. LineCount \in Nat
  BY Chunks
<1>2. \A l \in 1 .. LineCount : lines[l] \in Items
  BY DumpLine
<1>3. lines = [l \in 1 .. LineCount |-> lines[l]]
  BY Zenon DEF U!DumpLines, LineCount
<1> HIDE DEF lines
<1>4. [l \in 1 .. LineCount |-> lines[l]] \in Seq(Items)
      /\ Len([l \in 1 .. LineCount |-> lines[l]]) = LineCount
  BY <1>1, <1>2
<1>5. QED
  BY <1>3, <1>4, Zenon DEF lines

\* An answer comes between the echo and the prompt.
Answer(s) == (<<U!Echo>> \o s) \o <<U!Prompt>>

\* Where the items of an answer are.
LEMMA Framed ==
  ASSUME NEW s \in Seq(Items), NEW q, q = Answer(s)
  PROVE  /\ q \in Seq(Items) /\ Len(q) = Len(s) + 2
         /\ q[1] = U!Echo /\ q[Len(s) + 2] = U!Prompt /\ \A i \in 1 .. Len(s) : q[i + 1] = s[i]
<1> DEFINE x == U!Echo  z == U!Prompt
<1>0. x \in Items /\ z \in Items
  BY Printed
<1> HIDE DEF x, z
<1> DEFINE o == <<x>>  e == <<z>>  h == o \o s  n == Len(s)
<1>1. /\ o \in Seq(Items) /\ Len(o) = 1 /\ o[1] = x
      /\ e \in Seq(Items) /\ Len(e) = 1 /\ e[1] = z
  BY <1>0
<1> HIDE DEF o, e
<1>2. n \in Nat
  BY LenProperties
<1>3. /\ h \in Seq(Items) /\ Len(h) = Len(o) + Len(s)
      /\ \A i \in 1 .. Len(o) + Len(s) : h[i] = IF i <= Len(o) THEN o[i] ELSE s[i - Len(o)]
  BY <1>1, ConcatProperties, Zenon
<1>10. q = h \o e
  BY Zenon DEF h, o, e, x, z, Answer
<1> HIDE DEF h
<1>4. /\ q \in Seq(Items) /\ Len(q) = Len(h) + Len(e)
      /\ \A i \in 1 .. Len(h) + Len(e) : q[i] = IF i <= Len(h) THEN h[i] ELSE e[i - Len(h)]
  <2>1. h \in Seq(Items) /\ e \in Seq(Items)
    BY <1>1, <1>3
  <2>2. /\ h \o e \in Seq(Items) /\ Len(h \o e) = Len(h) + Len(e)
        /\ \A i \in 1 .. Len(h) + Len(e) : (h \o e)[i] = IF i <= Len(h) THEN h[i] ELSE e[i - Len(h)]
    BY <2>1, ConcatProperties, Zenon
  <2>3. QED
    BY <1>10, <2>2, Zenon
<1> HIDE DEF n
<1>5. Len(h) = n + 1 /\ Len(q) = n + 2
  BY <1>1, <1>2, <1>3, <1>4 DEF n
<1>6. q[1] = x
  <2>1. 1 \in 1 .. Len(h) + Len(e) /\ 1 <= Len(h) /\ 1 \in 1 .. Len(o) + Len(s) /\ 1 <= Len(o)
    BY <1>1, <1>2, <1>5 DEF n
  <2>2. QED
    BY <1>1, <1>3, <1>4, <2>1, Zenon
<1>7. q[n + 2] = z
  <2>1. n + 2 \in 1 .. Len(h) + Len(e) /\ ~(n + 2 <= Len(h)) /\ n + 2 - Len(h) = 1
    BY <1>1, <1>2, <1>5
  <2>2. q[n + 2] = e[n + 2 - Len(h)]
    BY <1>1, <1>2, <1>4, <1>5, <2>1
  <2>3. QED
    BY <1>1, <2>1, <2>2, Zenon
<1>8. ASSUME NEW i \in 1 .. n PROVE q[i + 1] = s[i]
  <2>1. /\ i + 1 \in 1 .. Len(h) + Len(e) /\ i + 1 <= Len(h)
        /\ i + 1 \in 1 .. Len(o) + Len(s) /\ ~(i + 1 <= Len(o)) /\ i + 1 - Len(o) = i
    BY <1>1, <1>2, <1>5 DEF n
  <2>2. q[i + 1] = h[i + 1]
    BY <1>4, <2>1, Zenon
  <2>3. h[i + 1] = s[i + 1 - Len(o)]
    BY <1>3, <2>1
  <2>4. QED
    BY <2>1, <2>2, <2>3, Zenon
<1>9. QED
  BY <1>4, <1>5, <1>6, <1>7, <1>8 DEF n, x, z

\* A dump that is asked for is on its way behind the prompt that was left.
LEMMA DumpStep ==
  ASSUME DebugOK, U!Run, op = "read", len >= DumpMin, ~owed'
  PROVE  DebugOK' /\ state' = "up"
<1> DEFINE lines == U!DumpLines(phys + done, U!Chunk)
<1>1. /\ pc = "run" /\ done < len /\ state' = state /\ consumed' = consumed /\ TermTypes
      /\ UNCHANGED ahbVars
  BY DEF U!Run, DebugOK, U!Writes, ahbVars, U!ahbVars
<1>2. /\ state = "up" /\ busy /\ InCall /\ MovedOK /\ stdio \in {<<>>, <<U!Prompt>>}
      /\ (busy => InCall) /\ consumed = 0 /\ op \in Ops /\ len \in Nat
  BY <1>1 DEF DebugOK, TermTypes, TermOK, DumpOK, InCall
<1>3. U!Command = "d"
  BY <1>2, Commands
<1>4. U!Reply = lines /\ pc' = "echo"
  BY <1>3 DEF U!Run, U!Reply, U!Unanswered
<1>5. /\ mem' = mem /\ busy' = busy /\ op' = op /\ phys' = phys /\ len' = len /\ done' = done
      /\ buf' = buf /\ rc' = rc /\ calls' = calls
  BY <1>1 DEF ahbVars
<1>6. lines \in Seq(Items) /\ Len(lines) = LineCount /\ LineCount \in Nat \ {0}
  BY <1>1, <1>2, Dumped, Chunks
<1>7. U!Echo \in Items /\ U!Prompt \in Items
  BY Printed
<1>8. /\ wire' \in Seq(Items) /\ rx' = rx /\ stdio' = stdio
      /\ Queue' = (<<U!Echo>> \o lines) \o <<U!Prompt>>
  BY <1>4, <1>6, Answers
<1>9. /\ \A i \in Int : Dialogue(i)' = Dialogue(i)
      /\ LineCount' = LineCount
  BY <1>5, SameDump
<1>10. /\ Dialogue(0) = U!Echo /\ Dialogue(-1) = U!Prompt
       /\ \A i \in 1 .. LineCount : Dialogue(i) = lines[i]
       /\ Dialogue(LineCount + 1) = U!Prompt
  <2>1. /\ 0 \notin 1 .. LineCount /\ -1 \notin 1 .. LineCount
        /\ LineCount + 1 \notin 1 .. LineCount /\ LineCount + 1 # 0 /\ -1 # 0
        /\ \A i \in 1 .. LineCount : i # 0
    BY <1>6
  <2>2. QED
    BY <2>1, Zenon DEF Dialogue
<1> DEFINE q == (<<U!Echo>> \o lines) \o <<U!Prompt>>
<1>11. /\ q \in Seq(Items) /\ Len(q) = LineCount + 2
       /\ q[1] = U!Echo /\ q[LineCount + 2] = U!Prompt /\ \A i \in 1 .. LineCount : q[i + 1] = lines[i]
  <2> DEFINE s == lines
  <2>1. s \in Seq(Items) /\ Len(s) = LineCount /\ q = Answer(s)
    BY <1>6, Zenon DEF Answer
  <2> HIDE DEF s, q
  <2>2. /\ q \in Seq(Items) /\ Len(q) = Len(s) + 2 /\ q[1] = U!Echo /\ q[Len(s) + 2] = U!Prompt
        /\ \A i \in 1 .. Len(s) : q[i + 1] = s[i]
    BY <2>1, Framed
  <2>3. QED
    BY <2>1, <2>2, Zenon DEF s
<1>12. Queue' = q
  BY <1>8
<1> HIDE DEF q, lines
<1>13. \A i \in 1 .. LineCount + 2 : q[i] = Dialogue(i - 1)
  <2> SUFFICES ASSUME NEW i \in 1 .. LineCount + 2 PROVE q[i] = Dialogue(i - 1)
    OBVIOUS
  <2>1. CASE i = 1
    BY <1>10, <1>11, <2>1
  <2>2. CASE i = LineCount + 2
    <3>1. i - 1 = LineCount + 1
      BY <1>6, <2>2
    <3>2. QED
      BY <1>10, <1>11, <2>2, <3>1, Zenon
  <2>3. CASE i \in 2 .. LineCount + 1
    <3>1. i - 1 \in 1 .. LineCount /\ i = (i - 1) + 1
      BY <1>6, <2>3
    <3>2. QED
      BY <1>10, <1>11, <3>1, Zenon
  <2>4. QED
    BY <1>6, <2>1, <2>2, <2>3
<1>14. \E p \in {-1, 0} : Coming(p)'
  <2>1. CASE stdio = <<>>
    <3>1. Stream' = q
      BY <1>8, <1>11, <1>12, <2>1, ConcatEmptySeq DEF Stream
    <3>2. LineCount + 2 - 0 = LineCount + 2 /\ \A i \in 1 .. LineCount + 2 : 0 + i - 1 = i - 1 /\ i - 1 \in Int
      BY <1>6
    <3>3. Len(Stream') = LineCount' + 2 - 0
      BY <1>9, <1>11, <3>1, <3>2, Zenon
    <3>4. \A i \in 1 .. LineCount' + 2 - 0 : Stream'[i] = Dialogue(0 + i - 1)'
      BY <1>9, <1>13, <3>1, <3>2, Zenon
    <3>5. Coming(0)'
      BY <3>3, <3>4, Zenon DEF Coming
    <3>6. QED
      BY <3>5
  <2>2. CASE stdio = <<U!Prompt>>
    <3> DEFINE o == <<U!Prompt>>
    <3>1. o \in Seq(Items) /\ Len(o) = 1 /\ o[1] = U!Prompt
      BY <1>7
    <3>2. Stream' = o \o q
      BY <1>8, <1>12, <2>2 DEF Stream
    <3> HIDE DEF o
    <3>3. /\ Len(Stream') = Len(o) + Len(q)
          /\ \A i \in 1 .. Len(o) + Len(q) : Stream'[i] = IF i <= Len(o) THEN o[i] ELSE q[i - Len(o)]
      BY <1>11, <3>1, <3>2, ConcatProperties, Zenon
    <3>4. Len(o) + Len(q) = LineCount + 2 - (-1)
      BY <1>6, <1>11, <3>1
    <3>5. \A i \in 1 .. LineCount + 2 - (-1) : Stream'[i] = Dialogue(-1 + i - 1)'
      <4> SUFFICES ASSUME NEW i \in 1 .. LineCount + 2 - (-1) PROVE Stream'[i] = Dialogue(-1 + i - 1)'
        OBVIOUS
      <4>1. -1 + i - 1 \in Int
        OBVIOUS
      <4>2. CASE i = 1
        <5>1. -1 + i - 1 = -1 /\ i <= Len(o)
          BY <3>1, <4>2
        <5>2. Stream'[i] = o[i]
          BY <3>3, <3>4, <5>1, Zenon
        <5>3. QED
          BY <1>9, <1>10, <3>1, <4>1, <4>2, <5>1, <5>2, Zenon
      <4>3. CASE i # 1
        <5>1. -1 + i - 1 = (i - 1) - 1 /\ ~(i <= Len(o)) /\ i - Len(o) = i - 1 /\ i - 1 \in 1 .. LineCount + 2
          BY <1>6, <3>1, <4>3
        <5>2. Stream'[i] = q[i - 1]
          BY <3>3, <3>4, <5>1, Zenon
        <5>3. QED
          BY <1>9, <1>13, <4>1, <5>1, <5>2, Zenon
      <4>4. QED
        BY <4>2, <4>3
    <3>6. Coming(-1)'
      BY <1>9, <3>3, <3>4, <3>5, Zenon DEF Coming
    <3>7. QED
      BY <3>6
  <2>3. QED
    BY <1>2, <2>1, <2>2
<1>15. DumpOK'
  BY <1>1, <1>2, <1>4, <1>5, <1>14, Zenon DEF DumpOK
<1>16. MovedOK'
  BY <1>1, <1>2, <1>5, Zenon DEF MovedOK, Writes
<1>17. InCall'
  BY <1>1, <1>2, <1>5 DEF InCall, Ops, Writes
<1>18. TermTypes'
  BY <1>1, <1>2, <1>4, <1>5, <1>8 DEF TermTypes, Addr
<1>19. QED
  BY <1>1, <1>2, <1>15, <1>16, <1>17, <1>18 DEF DebugOK

\* The line that prompt_gets() returns ends at the first item that is no prompt.
LEMMA Eols ==
  ASSUME stdio \in Seq(Items), NEW e \in 1 .. Len(stdio), U!Ends(e),
         \A j \in 1 .. e - 1 : ~U!Ends(j)
  PROVE  U!Eol = e
<1> DEFINE IsE(i) == U!Ends(i) /\ \A j \in 1 .. i - 1 : ~U!Ends(j)
           c == CHOOSE i \in DOMAIN stdio : IsE(i)
<1>1. DOMAIN stdio = 1 .. Len(stdio) /\ Len(stdio) \in Nat
  BY LenProperties
<1>2. e \in DOMAIN stdio /\ IsE(e)
  BY <1>1
<1>3. ASSUME NEW i \in DOMAIN stdio, IsE(i) PROVE i = e
  <2> HIDE DEF U!Ends
  <2>1. ~(i < e)
    BY <1>1, <1>3
  <2>2. ~(e < i)
    BY <1>1, <1>3
  <2>3. QED
    BY <1>1, <2>1, <2>2
<1> HIDE DEF IsE
<1>4. c \in DOMAIN stdio /\ IsE(c)
  BY <1>2
<1>5. c = e
  BY <1>3, <1>4
<1>6. QED
  BY <1>5, Zenon DEF U!Eol, c, IsE

\* What is taken from the buffer is taken from the head of the stream.
LEMMA Dropped ==
  ASSUME TermTypes, NEW e \in 1 .. Len(stdio), stdio' = SubSeq(stdio, e + 1, Len(stdio)),
         rx' = rx, wire' = wire
  PROVE  /\ stdio' \in Seq(Items) /\ Len(stdio') = Len(stdio) - e
         /\ Len(Stream) \in Nat /\ Len(stdio) \in Nat /\ Len(stdio) <= Len(Stream)
         /\ Len(Stream') = Len(Stream) - e
         /\ \A i \in 1 .. Len(Stream) - e : Stream'[i] = Stream[i + e]
         /\ \A i \in 1 .. Len(stdio') : stdio'[i] = stdio[i + e]
<1> DEFINE n == Len(stdio)  q == Queue  d == stdio'
<1>1. /\ stdio \in Seq(Items) /\ q \in Seq(Items) /\ n \in Nat /\ Queue' = q
      /\ \A i \in 1 .. n : stdio[i] \in Items
  <2>1. wire \in Seq(Items) /\ rx \in Seq(Items) /\ stdio \in Seq(Items)
    BY DEF TermTypes
  <2>2. QED
    BY <2>1, ConcatProperties, LenProperties, ElementOfSeq DEF Queue
<1>2. /\ d \in Seq(Items) /\ Len(d) = n - e /\ \A i \in 1 .. n - e : d[i] = stdio[i + e]
  <2>1. e + 1 \in Int /\ n \in Int /\ (\A i \in e + 1 .. n : stdio[i] \in Items)
    BY <1>1
  <2> DEFINE m == e + 1
  <2>2. m \in Int /\ \A i \in m .. n : stdio[i] \in Items
    BY <2>1
  <2> HIDE DEF m
  <2>3. /\ SubSeq(stdio, m, n) \in Seq(Items)
        /\ Len(SubSeq(stdio, m, n)) = IF m <= n THEN n - m + 1 ELSE 0
        /\ \A i \in 1 .. n - m + 1 : SubSeq(stdio, m, n)[i] = stdio[m + i - 1]
    BY <1>1, <2>2, SubSeqProperties
  <2>4. d = SubSeq(stdio, m, n)
    BY DEF m
  <2> HIDE DEF d
  <2>5. d \in Seq(Items) /\ Len(d) = (IF m <= n THEN n - m + 1 ELSE 0)
        /\ \A i \in 1 .. n - m + 1 : d[i] = stdio[m + i - 1]
    BY <2>3, <2>4, Zenon
  <2>6. QED
    BY <1>1, <2>5 DEF m
<1> HIDE DEF n, q, d
<1>3. Stream = stdio \o q /\ Stream' = d \o q
  BY <1>1, Zenon DEF Stream, q, d
<1>4. /\ Len(Stream) = Len(stdio) + Len(q)
      /\ \A i \in 1 .. Len(stdio) + Len(q) :
           Stream[i] = IF i <= Len(stdio) THEN stdio[i] ELSE q[i - Len(stdio)]
  BY <1>1, <1>3, ConcatProperties, Zenon
<1>5. /\ Len(Stream') = Len(d) + Len(q)
      /\ \A i \in 1 .. Len(d) + Len(q) :
           Stream'[i] = IF i <= Len(d) THEN d[i] ELSE q[i - Len(d)]
  <2>1. d \in Seq(Items) /\ q \in Seq(Items)
    BY <1>1, <1>2
  <2>2. /\ Len(d \o q) = Len(d) + Len(q)
        /\ \A i \in 1 .. Len(d) + Len(q) :
             (d \o q)[i] = IF i <= Len(d) THEN d[i] ELSE q[i - Len(d)]
    BY <2>1, ConcatProperties, Zenon
  <2>3. QED
    BY <1>3, <2>2, Zenon
<1>6. Len(q) \in Nat /\ Len(stdio) = n
  BY <1>1, LenProperties DEF n
<1>7. ASSUME NEW i \in 1 .. Len(Stream) - e PROVE Stream'[i] = Stream[i + e]
  <2>1. i \in 1 .. Len(d) + Len(q) /\ i + e \in 1 .. Len(stdio) + Len(q)
    BY <1>1, <1>2, <1>4, <1>6
  <2>2. CASE i <= n - e
    <3>1. i <= Len(d) /\ i + e <= Len(stdio) /\ i \in 1 .. n - e
      BY <1>1, <1>2, <1>6, <2>2
    <3>2. Stream'[i] = d[i] /\ Stream[i + e] = stdio[i + e]
      BY <1>4, <1>5, <2>1, <3>1, Zenon
    <3>3. QED
      BY <1>2, <3>1, <3>2, Zenon
  <2>3. CASE ~(i <= n - e)
    <3>1. ~(i <= Len(d)) /\ ~(i + e <= Len(stdio)) /\ i - Len(d) = i + e - Len(stdio)
      BY <1>1, <1>2, <1>6, <2>3
    <3>2. Stream'[i] = q[i - Len(d)]
      BY <1>5, <2>1, <3>1
    <3>3. Stream[i + e] = q[i + e - Len(stdio)]
      BY <1>4, <2>1, <3>1
    <3>4. QED
      BY <3>1, <3>2, <3>3, Zenon
  <2>4. QED
    BY <2>2, <2>3
<1>8. Len(Stream) \in Nat /\ n <= Len(Stream) /\ Len(Stream') = Len(Stream) - e
  BY <1>1, <1>2, <1>4, <1>5, <1>6
<1>9. QED
  BY <1>1, <1>2, <1>6, <1>7, <1>8 DEF d, n

\* The rest of a dump is on its way when a part was taken.
LEMMA NextLeft ==
  ASSUME TermTypes, NEW e \in 1 .. Len(stdio), stdio' = SubSeq(stdio, e + 1, Len(stdio)),
         rx' = rx, wire' = wire, UNCHANGED <<op, phys, len, done, mem>>, LineCount \in Nat,
         NEW p \in Int, Coming(p)
  PROVE  Coming(p + e)'
<1>1. /\ LineCount' = LineCount /\ \A i \in Int : Dialogue(i)' = Dialogue(i)
  BY SameDump
<1>2. /\ Len(Stream) \in Nat /\ Len(Stream') = Len(Stream) - e
      /\ \A i \in 1 .. Len(Stream) - e : Stream'[i] = Stream[i + e]
      /\ e \in Nat
  <2>1. /\ Len(Stream) \in Nat /\ Len(stdio) \in Nat /\ Len(Stream') = Len(Stream) - e
        /\ \A i \in 1 .. Len(Stream) - e : Stream'[i] = Stream[i + e]
    BY Dropped
  <2>2. e \in Nat
    BY <2>1
  <2>3. QED
    BY <2>1, <2>2
<1>3. /\ Len(Stream) = LineCount + 2 - p
      /\ \A i \in 1 .. LineCount + 2 - p : Stream[i] = Dialogue(p + i - 1)
  BY DEF Coming
<1>4. Len(Stream') = LineCount + 2 - (p + e)
  BY <1>2, <1>3
<1>5. ASSUME NEW i \in 1 .. LineCount + 2 - (p + e)
      PROVE  Stream'[i] = Dialogue(p + e + i - 1)'
  <2>1. /\ i \in 1 .. Len(Stream) - e /\ i + e \in 1 .. LineCount + 2 - p
        /\ p + (i + e) - 1 = p + e + i - 1 /\ p + e + i - 1 \in Int
    BY <1>2, <1>3
  <2>2. Stream'[i] = Stream[i + e] /\ Stream[i + e] = Dialogue(p + (i + e) - 1)
    BY <1>2, <1>3, <2>1, Zenon
  <2>3. QED
    BY <1>1, <2>1, <2>2, Zenon
<1>6. QED
  BY <1>1, <1>4, <1>5, Zenon DEF Coming

\* What is at the head of the buffer.
LEMMA Buffered ==
  ASSUME TermTypes, LineCount \in Nat, NEW p \in Int, Coming(p), NEW i \in 1 .. Len(stdio)
  PROVE  stdio[i] = Dialogue(p + i - 1) /\ Len(stdio) <= LineCount + 2 - p /\ Len(stdio) \in Nat
         /\ Queue \in Seq(Items) /\ Len(stdio) + Len(Queue) = LineCount + 2 - p
<1>1. stdio \in Seq(Items) /\ Queue \in Seq(Items)
  BY ConcatProperties DEF TermTypes, Queue
<1>2. /\ Len(Stream) = Len(stdio) + Len(Queue)
      /\ \A j \in 1 .. Len(stdio) + Len(Queue) :
           Stream[j] = IF j <= Len(stdio) THEN stdio[j] ELSE Queue[j - Len(stdio)]
  BY <1>1, ConcatProperties, Zenon DEF Stream
<1>3. Len(stdio) \in Nat /\ Len(Queue) \in Nat
  BY <1>1, LenProperties
<1>4. /\ Len(Stream) = LineCount + 2 - p
      /\ \A j \in 1 .. LineCount + 2 - p : Stream[j] = Dialogue(p + j - 1)
  BY DEF Coming
<1>5. i \in 1 .. Len(stdio) + Len(Queue) /\ i <= Len(stdio) /\ i \in 1 .. LineCount + 2 - p
  BY <1>2, <1>3, <1>4
<1>6. stdio[i] = Dialogue(p + i - 1)
  BY <1>2, <1>4, <1>5, Zenon
<1>7. Len(stdio) + Len(Queue) = LineCount + 2 - p
  BY <1>2, <1>4, Zenon
<1>8. Len(stdio) <= LineCount + 2 - p
  BY <1>3, <1>7
<1>9. QED
  BY <1>1, <1>3, <1>6, <1>7, <1>8, Zenon

\* What the items of a dump are.
LEMMA Kinship ==
  ASSUME TermTypes, busy => InCall, busy, done < len
  PROVE  /\ LineCount \in Nat \ {0}
         /\ Dialogue(-1) = U!Prompt /\ Dialogue(0) = U!Echo
         /\ Dialogue(LineCount + 1) = U!Prompt
         /\ \A l \in 1 .. LineCount : /\ Dialogue(l) = U!DumpLines(phys + done, U!Chunk)[l]
                                      /\ Dialogue(l).kind = "line"
<1>1. LineCount \in Nat \ {0}
  BY Chunks
<1>2. /\ 0 \notin 1 .. LineCount /\ -1 \notin 1 .. LineCount
      /\ LineCount + 1 \notin 1 .. LineCount /\ LineCount + 1 # 0 /\ -1 # 0
      /\ \A i \in 1 .. LineCount : i # 0
  BY <1>1
<1>3. /\ Dialogue(-1) = U!Prompt /\ Dialogue(0) = U!Echo
      /\ Dialogue(LineCount + 1) = U!Prompt
      /\ \A l \in 1 .. LineCount : Dialogue(l) = U!DumpLines(phys + done, U!Chunk)[l]
  BY <1>2, Zenon DEF Dialogue
<1>4. \A l \in 1 .. LineCount : U!DumpLines(phys + done, U!Chunk)[l].kind = "line"
  BY DumpLine
<1>5. QED
  BY <1>1, <1>3, <1>4, Zenon

\* The echo is eaten, and the prompt that was left before it, so that the first
\* line is next.
LEMMA GetEchoStep ==
  ASSUME DebugOK, U!GetEcho
  PROVE  DebugOK' /\ state' = "up"
<1>1. /\ pc = "echo" /\ U!HasLine /\ stdio' = SubSeq(stdio, U!Eol + 1, Len(stdio))
      /\ pc' = (IF U!Eol = 2 /\ stdio[2] = U!Newline THEN "echo" ELSE "line")
      /\ UNCHANGED ahbVars /\ state' = state /\ consumed' = consumed /\ wire' = wire /\ rx' = rx
      /\ TermTypes
  BY DEF U!GetEcho, U!Drop, DebugOK, ahbVars, U!ahbVars
<1>2. /\ DumpOK /\ busy /\ (busy => InCall) /\ InCall /\ MovedOK /\ state = "up" /\ consumed = 0
      /\ op = "read" /\ len >= DumpMin /\ done < len
  BY <1>1 DEF DebugOK, TermTypes, TermOK, DumpOK, InCall
<1>3. PICK p \in {-1, 0} : Coming(p)
  BY <1>1, <1>2 DEF DumpOK
<1>4. /\ mem' = mem /\ busy' = busy /\ op' = op /\ phys' = phys /\ len' = len /\ done' = done
      /\ buf' = buf /\ rc' = rc /\ calls' = calls
  BY <1>1 DEF ahbVars
<1>5. /\ LineCount \in Nat \ {0} /\ Dialogue(-1) = U!Prompt /\ Dialogue(0) = U!Echo
  BY <1>1, <1>2, Kinship
<1>6. stdio \in Seq(Items) /\ DOMAIN stdio = 1 .. Len(stdio) /\ Len(stdio) \in Nat
  BY <1>1, LenProperties DEF TermTypes
<1>7. \A i \in 1 .. Len(stdio) : stdio[i] = Dialogue(p + i - 1)
  BY <1>1, <1>3, <1>5, Buffered
<1>8. U!Eol = 1 - p /\ 1 - p \in 1 .. Len(stdio) /\ stdio[1 - p] = U!Echo
  <2>1. PICK i \in 1 .. Len(stdio) : U!Ends(i)
    BY <1>1, <1>6 DEF U!HasLine
  <2>2. stdio[i] = Dialogue(p + i - 1) /\ stdio[1] = Dialogue(p + 1 - 1)
    BY <1>6, <1>7
  <2>3. CASE p = 0
    <3>1. stdio[1] = U!Echo /\ 1 \in 1 .. Len(stdio) /\ 1 - p = 1
      BY <1>5, <1>6, <2>2, <2>3
    <3>2. U!Ends(1)
      BY <3>1, Printed DEF U!Ends
    <3>3. \A j \in 1 .. 1 - 1 : ~U!Ends(j)
      OBVIOUS
    <3>4. U!Eol = 1
      BY <1>6, <3>1, <3>2, <3>3, Eols
    <3>5. QED
      BY <3>1, <3>4
  <2>4. CASE p = -1
    <3>1. stdio[1] = U!Prompt
      BY <1>5, <2>2, <2>4
    <3>2. ~U!Ends(1)
      BY <3>1, Printed DEF U!Ends
    <3>3. i # 1
      BY <2>1, <3>2
    <3>4. 2 \in 1 .. Len(stdio) /\ -1 + 2 - 1 = 0 /\ 1 - p = 2
      BY <1>6, <2>4, <3>3
    <3>5. stdio[2] = U!Echo
      BY <1>5, <1>7, <2>4, <3>4, Zenon
    <3>6. U!Ends(2)
      BY <3>5, Printed DEF U!Ends
    <3>7. \A j \in 1 .. 2 - 1 : ~U!Ends(j)
      <4>1. ASSUME NEW j \in 1 .. 2 - 1 PROVE j = 1
        OBVIOUS
      <4>2. QED
        BY <3>2, <4>1, Zenon
    <3>8. U!Eol = 2
      BY <1>6, <3>4, <3>6, <3>7, Eols
    <3>9. QED
      BY <3>4, <3>5, <3>8
  <2>5. QED
    BY <2>3, <2>4
<1>9. pc' = "line"
  <2>1. U!Echo # U!Newline
    BY Printed
  <2>2. ~(U!Eol = 2 /\ stdio[2] = U!Newline)
    BY <1>8, <2>1, Zenon
  <2>3. QED
    BY <1>1, <2>2, Zenon
<1>10. Coming(1)'
  <2> DEFINE e == 1 - p
  <2>1. e \in 1 .. Len(stdio) /\ stdio' = SubSeq(stdio, e + 1, Len(stdio)) /\ p \in Int /\ p + e = 1
    BY <1>1, <1>8
  <2> HIDE DEF e
  <2>2. Coming(p + e)'
    BY <1>1, <1>3, <1>4, <1>5, <2>1, NextLeft
  <2>3. QED
    BY <2>1, <2>2, Zenon
<1>11. stdio' \in Seq(Items)
  <2> DEFINE e == 1 - p
  <2>1. e \in 1 .. Len(stdio) /\ stdio' = SubSeq(stdio, e + 1, Len(stdio))
    BY <1>1, <1>8
  <2> HIDE DEF e
  <2>2. QED
    BY <1>1, <2>1, Dropped
<1>12. DumpOK'
  <2>1. LineCount' = LineCount
    BY <1>4, SameDump
  <2>2. 1 \in 1 .. LineCount /\ (1 - 1) * LineLen = 0
    BY <1>5, DebugConsts
  <2>3. \E x \in 1 .. LineCount' : consumed' = (x - 1) * LineLen /\ Coming(x)'
    BY <1>1, <1>2, <1>10, <2>1, <2>2, Zenon
  <2>4. QED
    BY <1>1, <1>2, <1>4, <1>9, <2>3, Zenon DEF DumpOK
<1>13. MovedOK'
  BY <1>1, <1>2, <1>4, Zenon DEF MovedOK, Writes
<1>14. InCall'
  BY <1>1, <1>2, <1>4 DEF InCall, Ops, Writes
<1>15. TermTypes'
  BY <1>1, <1>2, <1>4, <1>9, <1>11 DEF TermTypes, Addr
<1>16. QED
  BY <1>1, <1>2, <1>12, <1>13, <1>14, <1>15 DEF DebugOK

\* The line that is next is the one at the cursor.
LEMMA NextLine ==
  ASSUME TermTypes, busy => InCall, busy, done < len, U!HasLine,
         NEW p \in 1 .. LineCount, Coming(p)
  PROVE  /\ U!Eol = 1 /\ 1 \in 1 .. Len(stdio)
         /\ stdio[1] = U!DumpLines(phys + done, U!Chunk)[p] /\ stdio[1].kind = "line"
<1>1. stdio \in Seq(Items) /\ DOMAIN stdio = 1 .. Len(stdio) /\ Len(stdio) \in Nat
  BY LenProperties DEF TermTypes
<1>2. PICK i \in 1 .. Len(stdio) : U!Ends(i)
  BY <1>1 DEF U!HasLine
<1>3. 1 \in 1 .. Len(stdio) /\ p \in Int /\ p + 1 - 1 = p
  BY <1>1, <1>2
<1>4. /\ LineCount \in Nat \ {0} /\ Dialogue(p).kind = "line"
      /\ Dialogue(p) = U!DumpLines(phys + done, U!Chunk)[p]
  BY Kinship
<1>5. stdio[1] = Dialogue(p + 1 - 1)
  BY <1>3, <1>4, Buffered
<1>6. stdio[1] = Dialogue(p)
  BY <1>3, <1>5, Zenon
<1>7. stdio[1].kind = "line"
  BY <1>4, <1>6, Zenon
<1>8. U!Ends(1)
  BY <1>7 DEF U!Ends
<1>9. \A j \in 1 .. 1 - 1 : ~U!Ends(j)
  OBVIOUS
<1>10. U!Eol = 1
  BY <1>1, <1>3, <1>8, <1>9, Eols
<1>11. QED
  BY <1>3, <1>4, <1>6, <1>7, <1>10, Zenon

\* A line of the dump is stored at the cursor, and the last one leaves no more
\* than the prompt (debug_parse_d()).
LEMMA GetLineStep ==
  ASSUME DebugOK, U!GetLine, ~owed'
  PROVE  DebugOK' /\ state' = "up"
<1>1. /\ pc = "line" /\ U!HasLine /\ stdio' = SubSeq(stdio, U!Eol + 1, Len(stdio))
      /\ buf' = buf \o stdio[U!Eol].data /\ mem' = mem /\ busy' = busy /\ op' = op
      /\ phys' = phys /\ len' = len /\ rc' = rc /\ calls' = calls /\ state' = state
      /\ wire' = wire /\ rx' = rx /\ TermTypes
  BY DEF U!GetLine, U!Drop, DebugOK
<1>2. /\ DumpOK /\ busy /\ (busy => InCall) /\ InCall /\ MovedOK /\ state = "up"
      /\ op = "read" /\ len >= DumpMin /\ done < len
  BY <1>1 DEF DebugOK, TermTypes, TermOK, DumpOK, InCall
<1>3. PICK p \in 1 .. LineCount : consumed = (p - 1) * LineLen /\ Coming(p)
  BY <1>1, <1>2 DEF DumpOK
<1> DEFINE line == U!DumpLines(phys + done, U!Chunk)[p]  a == (p - 1) * LineLen  m == LineSize(p)
<1>4. U!Eol = 1 /\ 1 \in 1 .. Len(stdio) /\ stdio[1] = line
  BY <1>1, <1>2, <1>3, NextLine
<1>5. /\ Len(line.data) = m
      /\ [k \in 1 .. done + a |-> mem[phys + k - 1]] \o line.data
           = [k \in 1 .. done + a + m |-> mem[phys + k - 1]]
  BY <1>1, <1>2, DumpLine
<1>6. /\ m \in Nat \ {0} /\ a \in Nat /\ p * LineLen \in Nat /\ a + m <= U!Chunk
      /\ p < LineCount => a + m < U!Chunk /\ a + m = p * LineLen
      /\ p = LineCount => a + m = U!Chunk
  BY <1>2, LineSizes
<1>7. /\ U!Chunk \in 1 .. len - done /\ LineCount \in Nat \ {0}
      /\ len \in Nat /\ done \in Nat /\ phys \in Nat
  BY <1>2, Chunks
<1>8. op \notin Writes
  BY <1>2 DEF Writes
<1> HIDE DEF line, a, m
<1>9. buf = [k \in 1 .. done + a |-> mem[phys + k - 1]]
  BY <1>2, <1>3, <1>8, Zenon DEF MovedOK, a
<1>10. buf' = [k \in 1 .. done + a + m |-> mem[phys + k - 1]]
  BY <1>1, <1>4, <1>5, <1>9, Zenon
<1>11. /\ a + m < U!Chunk => consumed' = a + m /\ pc' = pc /\ done' = done
       /\ ~(a + m < U!Chunk) =>
            /\ pc' = "run" /\ consumed' = 0 /\ done' = done + U!Chunk
            /\ U!Prompt \in U!Range(SubSeq(stdio, 2, Len(stdio)))
  <2>1. consumed + Len(stdio[U!Eol].data) = a + m
    BY <1>3, <1>4, <1>5, Zenon DEF a
  <2> DEFINE c == a + m
  <2>2. IF c < U!Chunk
          THEN consumed' = c /\ UNCHANGED <<pc, done, owed>>
          ELSE /\ pc' = "run" /\ consumed' = 0 /\ done' = done + U!Chunk
               /\ owed' = (owed \/ U!Prompt \notin U!Range(SubSeq(stdio, U!Eol + 1, Len(stdio))))
    BY <2>1, Zenon DEF U!GetLine
  <2> HIDE DEF c
  <2>3. U!Eol + 1 = 2
    BY <1>4
  <2>4. QED
    BY <2>2, <2>3, Zenon DEF c
<1>12. stdio' \in Seq(Items) /\ Len(stdio') = Len(stdio) - 1 /\ stdio' = SubSeq(stdio, 2, Len(stdio))
       /\ \A i \in 1 .. Len(stdio') : stdio'[i] = stdio[i + 1]
  <2> DEFINE e == 1
  <2>1. e \in 1 .. Len(stdio) /\ stdio' = SubSeq(stdio, e + 1, Len(stdio)) /\ e + 1 = 2
    BY <1>1, <1>4
  <2> HIDE DEF e
  <2>2. stdio' \in Seq(Items) /\ Len(stdio') = Len(stdio) - e
        /\ \A i \in 1 .. Len(stdio') : stdio'[i] = stdio[i + e]
    BY <1>1, <2>1, Dropped
  <2>3. QED
    BY <2>1, <2>2, Zenon DEF e
<1>13. CASE p < LineCount
  <2>1. /\ a + m < U!Chunk /\ a + m = p * LineLen
        /\ consumed' = p * LineLen /\ pc' = pc /\ done' = done
    BY <1>6, <1>11, <1>13
  <2>2. /\ UNCHANGED <<op, phys, len, done, mem>> /\ p \in Int /\ LineCount \in Nat
        /\ 1 \in 1 .. Len(stdio) /\ stdio' = SubSeq(stdio, 1 + 1, Len(stdio))
    BY <1>1, <1>4, <1>7, <1>12, <2>1
  <2>3. Coming(p + 1)'
    BY <1>1, <1>3, <2>2, NextLeft
  <2>4. LineCount' = LineCount
    BY <2>2, SameDump
  <2>5. p + 1 \in 1 .. LineCount /\ p = (p + 1) - 1
    BY <1>7, <1>13
  <2>6. \E x \in 1 .. LineCount' : consumed' = (x - 1) * LineLen /\ Coming(x)'
    BY <2>1, <2>3, <2>4, <2>5, Zenon
  <2>7. DumpOK'
    BY <1>1, <1>2, <2>1, <2>6, Zenon DEF DumpOK
  <2>8. MovedOK'
    <3>1. done' + consumed' = done + a + m
      BY <1>6, <1>7, <2>1
    <3>2. buf' = [k \in 1 .. done' + consumed' |-> mem'[phys' + k - 1]]
      BY <1>1, <1>10, <3>1, Zenon
    <3>3. QED
      BY <1>1, <1>2, <1>8, <3>2, Zenon DEF MovedOK, Writes
  <2>9. InCall'
    BY <1>1, <1>2, <2>1 DEF InCall, Ops, Writes
  <2>10. TermTypes'
    BY <1>1, <1>2, <1>12, <2>1 DEF TermTypes, Addr
  <2>11. QED
    BY <1>1, <1>2, <2>7, <2>8, <2>9, <2>10 DEF DebugOK
<1>14. CASE p = LineCount
  <2>1. /\ a + m = U!Chunk /\ pc' = "run" /\ consumed' = 0 /\ done' = done + U!Chunk
        /\ U!Prompt \in U!Range(stdio')
    BY <1>6, <1>7, <1>11, <1>12, <1>14
  <2>2. /\ Len(stdio) <= 2 /\ Len(stdio) \in Nat /\ Queue \in Seq(Items) /\ Len(Queue) \in Nat
        /\ Len(stdio) + Len(Queue) = 2
    <3>1. /\ Len(stdio) <= LineCount + 2 - p /\ Len(stdio) \in Nat /\ Queue \in Seq(Items)
          /\ Len(stdio) + Len(Queue) = LineCount + 2 - p
      BY <1>1, <1>3, <1>4, <1>7, Buffered
    <3>2. QED
      BY <1>7, <1>14, <3>1, LenProperties
  <2>3. PICK i \in 1 .. Len(stdio') : stdio'[i] = U!Prompt
    <3>1. DOMAIN stdio' = 1 .. Len(stdio')
      BY <1>12, LenProperties
    <3>2. QED
      BY <2>1, <3>1, Zenon DEF U!Range
  <2>4. Len(stdio') = 1 /\ Len(Queue) = 0 /\ stdio'[1] = U!Prompt
    <3> DEFINE d == Len(stdio')
    <3>1. d = Len(stdio) - 1 /\ i \in 1 .. d
      BY <1>12
    <3> HIDE DEF d
    <3>2. d = 1 /\ Len(Queue) = 0 /\ i = 1
      BY <2>2, <3>1
    <3>3. QED
      BY <2>3, <3>2, Zenon DEF d
  <2>5. stdio' = <<U!Prompt>> /\ Queue = <<>>
    <3> DEFINE z == U!Prompt  d == stdio'
    <3>1. d \in Seq(Items) /\ Len(d) = 1 /\ d[1] = z
      BY <1>12, <2>4
    <3> HIDE DEF z, d
    <3>2. d = <<z>>
      BY <3>1
    <3>3. Queue = <<>>
      BY <2>2, <2>4, EmptySeq
    <3>4. QED
      BY <3>2, <3>3 DEF z, d
  <2>6. Queue' = <<>> /\ stdio' \in {<<>>, <<U!Prompt>>'}
    BY <1>1, <2>5 DEF Queue, U!Prompt
  <2>7. TermOK'
    BY <1>1, <1>2, <2>1, <2>6, Zenon DEF TermOK
  <2>8. MovedOK'
    <3>1. done' + consumed' = done + a + m
      BY <1>6, <1>7, <2>1
    <3>2. buf' = [k \in 1 .. done' + consumed' |-> mem'[phys' + k - 1]]
      BY <1>1, <1>10, <3>1, Zenon
    <3>3. QED
      BY <1>1, <1>2, <1>8, <3>2, Zenon DEF MovedOK, Writes
  <2>9. InCall'
    <3>1. done' \in 0 .. len
      BY <1>7, <2>1
    <3>2. QED
      BY <1>1, <1>2, <2>1, <3>1 DEF InCall, Ops, Writes
  <2>10. TermTypes'
    BY <1>1, <1>2, <1>12, <2>1 DEF TermTypes, Addr
  <2>11. QED
    BY <1>1, <1>2, <2>7, <2>8, <2>9, <2>10 DEF DebugOK
<1>15. QED
  BY <1>7, <1>13, <1>14

\* Every line of a dump parses, and nobody asks for it again (debug_read()).
LEMMA NoRetry ==
  ASSUME DebugOK
  PROVE  ~U!BadLine /\ ~U!Retry
<1>1. ASSUME U!BadLine PROVE FALSE
  <2>1. pc = "line" /\ U!HasLine /\ stdio[U!Eol].kind # "line" /\ TermTypes
    BY <1>1 DEF U!BadLine, DebugOK
  <2>2. DumpOK /\ busy /\ (busy => InCall) /\ done < len
    BY <2>1 DEF DebugOK, TermTypes, TermOK, DumpOK
  <2>3. PICK p \in 1 .. LineCount : Coming(p)
    BY <2>1, <2>2 DEF DumpOK
  <2>4. U!Eol = 1 /\ stdio[1].kind = "line"
    BY <2>1, <2>2, <2>3, NextLine
  <2>5. QED
    BY <2>1, <2>4, Zenon
<1>2. ASSUME U!Retry PROVE FALSE
  BY <1>2 DEF U!Retry, DebugOK, TermOK, DumpOK
<1>3. QED
  BY <1>1, <1>2

\* A step from which both ends have seen everything starts where they had.
LEMMA WasSound ==
  ASSUME noise \in Nat, U!Next
  PROVE  noise' \in Nat /\ (Sound' => Sound)
<1>1. CASE U!Garble \/ U!HalfSent
  BY <1>1 DEF U!Garble, U!HalfSent, Sound
<1>2. CASE U!Enter \/ U!Run \/ U!GetLine \/ U!IoError \/ U!ReadFixed
  <2>1. noise' = noise
    BY <1>2 DEF U!Enter, U!Run, U!GetLine, U!IoError, U!ReadFixed, U!Fail
  <2>2. CASE U!Enter \/ U!Run \/ U!ReadFixed
    BY <2>1, <2>2 DEF U!Enter, U!Run, U!ReadFixed, Sound
  <2>3. CASE U!GetLine
    <3>1. owed' = owed \/ owed' = (owed \/ U!Prompt \notin U!Range(SubSeq(stdio, U!Eol + 1, Len(stdio))))
      BY <2>3, Zenon DEF U!GetLine
    <3>2. ~owed' => ~owed
      BY <3>1, Zenon
    <3>3. QED
      BY <2>1, <3>2 DEF Sound
  <2>4. CASE U!IoError
    <3>1. owed' = (owed \/ pc # "run")
      BY <2>4, Zenon DEF U!IoError
    <3>2. ~owed' => ~owed
      BY <3>1, Zenon
    <3>3. QED
      BY <2>1, <3>2 DEF Sound
  <2>5. QED
    BY <1>2, <2>2, <2>3, <2>4
<1>3. CASE U!EnterSend \/ U!Expect \/ U!Fill \/ U!GetEcho \/ U!BadLine \/ U!Retry \/ U!Done
  BY <1>3 DEF U!EnterSend, U!Expect, U!Fill, U!GetEcho, U!BadLine, U!Retry, U!Done, Sound
<1>4. CASE U!Deliver \/ U!debug_exit \/ \E r \in DebugRequests : U!Call(r)
  BY <1>4 DEF U!Deliver, U!debug_exit, U!Call, Sound
<1>5. QED
  BY <1>1, <1>2, <1>3, <1>4 DEF U!Next, U!Step

\* The dialogue with the debug shell stays in step until a line is garbled or a
\* prompt is left to somebody else (bridge/debug.c, prompt.c).
LEMMA DebugStep ==
  ASSUME DebugInv, U!Next
  PROVE  DebugInv'
<1>1. noise \in Nat /\ noise' \in Nat /\ (Sound' => Sound) /\ state \in {"off", "enter", "up"}
  BY WasSound DEF DebugInv
<1>2. state' \in {"off", "enter", "up"}
  BY <1>1 DEF U!Next, U!Step, U!EnterSend, U!Enter, U!Run, U!Expect, U!ReadFixed, U!Fill, U!GetEcho,
     U!GetLine, U!BadLine, U!Retry, U!Done, U!Deliver, U!Garble, U!IoError, U!HalfSent, U!Fail,
     U!debug_exit, U!Call
<1>3. ASSUME Sound' PROVE DebugOK'
  <2>1. DebugOK /\ ~owed' /\ noise' = 0 /\ noise = 0
    BY <1>1, <1>3 DEF DebugInv, Sound
  <2>2. CASE U!Run
    BY <2>1, <2>2, WriteStep, ReadRunStep, DumpStep
  <2>3. CASE U!Garble \/ U!HalfSent
    BY <2>1, <2>3 DEF U!Garble, U!HalfSent
  <2>4. CASE U!EnterSend \/ U!Enter \/ U!debug_exit \/ \E r \in DebugRequests : U!Call(r)
    BY <2>1, <2>4, EnterSendStep, EnterStep, ExitStep, CallStep
  <2>5. CASE U!Expect \/ U!ReadFixed \/ U!Done \/ U!IoError
    BY <2>1, <2>5, PromptStep, ReadStep, DoneStep, IoErrorStep
  <2>6. CASE U!Fill \/ U!GetEcho \/ U!GetLine \/ U!Deliver
    BY <2>1, <2>6, FillStep, GetEchoStep, GetLineStep, DeliverStep
  <2>7. CASE U!BadLine \/ U!Retry
    BY <2>1, <2>7, NoRetry
  <2>8. QED
    BY <2>2, <2>3, <2>4, <2>5, <2>6, <2>7 DEF U!Next, U!Step
<1>4. QED
  BY <1>1, <1>2, <1>3 DEF DebugInv

\* It is in step when culvert starts.
LEMMA DebugInit ==
  ASSUME U!Init
  PROVE  DebugInv
<1>1. /\ state = "off" /\ pc = "idle" /\ noise = 0 /\ wire = <<>> /\ rx = <<>> /\ stdio = <<>>
      /\ mem = [a \in Addr |-> <<0, a>>] /\ busy = FALSE /\ rc = "none" /\ calls = 0
  BY DEF U!Init, U!AhbInit, U!Addr, Addr
<1>2. <<>> \in Seq(Items) /\ <<>> \o <<>> = <<>>
  BY EmptySeq, ConcatEmptySeq
<1>3. mem \in [Addr -> Nat \X Nat]
  <2>1. \A a \in Addr : <<0, a>> \in Nat \X Nat
    BY DEF Addr
  <2>2. QED
    BY <1>1, <2>1
<1>4. TermTypes
  BY <1>1, <1>2, <1>3 DEF TermTypes
<1>5. TermOK
  BY <1>1, <1>2 DEF TermOK, Queue
<1>6. MovedOK
  BY <1>1 DEF MovedOK, U!Delivered
<1>7. QED
  BY <1>1, <1>4, <1>5, <1>6 DEF DebugInv, DebugOK

\* Nor does it get out of step when nothing happens.
LEMMA StillDebug ==
  ASSUME DebugInv, UNCHANGED vars
  PROVE  DebugInv'
<1>1. /\ UNCHANGED <<ahbVars, state, pc, consumed>> /\ stdio' = stdio /\ wire' = wire /\ rx' = rx
      /\ owed' = owed /\ noise' = noise /\ state' = state /\ pc' = pc
  BY DEF vars, debug
<1>2. Queue' = Queue /\ Stream' = Stream /\ (Sound' => Sound)
  BY <1>1, Zenon DEF Queue, Stream, Sound
<1>3. ASSUME DebugOK PROVE DebugOK'
  <2>1. /\ UNCHANGED <<mem, busy, calls>> /\ busy' = busy
        /\ (InCall => InCall') /\ (MovedOK => MovedOK')
    BY <1>1, CallKept
  <2>2. TermTypes'
    BY <1>1, <1>3, <2>1 DEF DebugOK, TermTypes
  <2>3. TermOK => TermOK'
    BY <1>1, <1>2, TermKept
  <2>4. ASSUME DumpOK PROVE DumpOK'
    <3>1. busy /\ InCall
      BY <1>3, <2>4 DEF DebugOK, TermTypes, DumpOK
    <3>2. QED
      BY <1>1, <1>2, <2>4, <3>1, DumpKept
  <2>5. (busy => InCall) => (busy' => InCall')
    BY <2>1
  <2>6. QED
    BY <1>3, <2>1, <2>2, <2>3, <2>4, <2>5, Zenon DEF DebugOK
<1>4. QED
  BY <1>1, <1>2, <1>3, Zenon DEF DebugInv

\* A call that has succeeded has moved its words.
LEMMA DebugInStep ==
  ASSUME DebugInv
  PROVE  U!InStep
<1>1. CASE busy
  BY <1>1, Zenon DEF U!InStep, U!Delivered
<1>2. CASE ~busy
  BY <1>2, Zenon DEF U!InStep, DebugInv, Sound, DebugOK, MovedOK
<1>3. QED
  BY <1>1, <1>2

-----------------------------------------------------------------------------
(***************************************************************************)
(* Behind a terminal server.                                               *)
(***************************************************************************)
\* The functions consist of steps.
LEMMA Scripts ==
  /\ \A c \in Tells, f \in Failures : T!Tell(c, f) \in Seq(Steps)
  /\ \A c \in {"q", "password", ""}, f \in Failures : T!Run(c, f) \in Seq(Steps)
  /\ \A l \in T!Link, f \in Failures : T!Connect(l, f) \in Seq(Steps)
  /\ \A l \in T!Link : T!Close(l) \in Seq(Steps)
  /\ \A s \in {"end", "up", "released"} : T!Set(s) \in Seq(Steps)
  /\ T!Sleep \in Seq(Steps)
  /\ << <<"expect", "$ ", "cleanup_port_password">> >> \in Seq(Steps)
<1>1. ASSUME NEW x \in Steps PROVE <<x>> \in Seq(Steps)
  OBVIOUS
<1>2. ASSUME NEW c \in Tells, NEW f \in Failures PROVE T!Tell(c, f) \in Seq(Steps)
  <2>1. <<"tell", c, f>> \in Steps
    BY DEF Steps
  <2>2. QED
    BY <1>1, <2>1 DEF T!Tell
<1>3. ASSUME NEW c \in {"q", "password", ""}, NEW f \in Failures PROVE T!Run(c, f) \in Seq(Steps)
  <2>1. <<"run", c, f>> \in Steps
    BY DEF Steps
  <2>2. QED
    BY <1>1, <2>1 DEF T!Run
<1>4. ASSUME NEW l \in T!Link, NEW f \in Failures PROVE T!Connect(l, f) \in Seq(Steps)
  <2>1. <<"connect", l, f>> \in Steps /\ <<"fdopen", l, f>> \in Steps
    BY DEF Steps
  <2>2. QED
    BY <2>1 DEF T!Connect
<1>5. ASSUME NEW l \in T!Link PROVE T!Close(l) \in Seq(Steps)
  <2>1. <<"close", l, "">> \in Steps
    BY DEF Steps
  <2>2. QED
    BY <1>1, <2>1 DEF T!Close
<1>6. ASSUME NEW s \in {"end", "up", "released"} PROVE T!Set(s) \in Seq(Steps)
  <2>1. <<"set", s, "">> \in Steps
    BY DEF Steps
  <2>2. QED
    BY <1>1, <2>1 DEF T!Set
<1>7. T!Sleep \in Seq(Steps)
  <2>1. <<"sleep", "1", "">> \in Steps
    BY DEF Steps
  <2>2. QED
    BY <1>1, <2>1 DEF T!Sleep
<1>8. << <<"expect", "$ ", "cleanup_port_password">> >> \in Seq(Steps)
  <2>1. <<"expect", "$ ", "cleanup_port_password">> \in Steps
    BY DEF Steps, Failures
  <2>2. QED
    BY <1>1, <2>1
<1>9. QED
  BY <1>2, <1>3, <1>4, <1>5, <1>6, <1>7, <1>8

\* Sequences of steps follow one another.
LEMMA Joins ==
  ASSUME NEW s \in Seq(Steps), NEW t \in Seq(Steps)
  PROVE  s \o t \in Seq(Steps)
  OBVIOUS

\* The functions themselves, and what is left of them when a step fails.
LEMMA Functions ==
  /\ T!ts16_init \o T!debug_enter \in Seq(Steps)
  /\ T!debug_enter \in Seq(Steps)
  /\ T!debug_exit \o T!Set("released") \in Seq(Steps)
  /\ T!debug_exit \o T!debug_destroy \in Seq(Steps)
  /\ \A f \in Failures : T!OnFailure(f) \in Seq(Steps)
  /\ T!Return \in Seq(Steps)
<1>1. /\ \A c \in Tells, f \in Failures : T!Tell(c, f) \in Seq(Steps)
      /\ \A c \in {"q", "password", ""}, f \in Failures : T!Run(c, f) \in Seq(Steps)
      /\ \A l \in T!Link, f \in Failures : T!Connect(l, f) \in Seq(Steps)
      /\ \A l \in T!Link : T!Close(l) \in Seq(Steps)
      /\ \A s \in {"end", "up", "released"} : T!Set(s) \in Seq(Steps)
      /\ T!Sleep \in Seq(Steps)
      /\ << <<"expect", "$ ", "cleanup_port_password">> >> \in Seq(Steps)
      /\ <<>> \in Seq(Steps)
  <2>1. <<>> \in Seq(Steps)
    OBVIOUS
  <2>2. QED
    BY Scripts, <2>1
<1>2. /\ {"user", "password", "on", "off", "kill", "115200", "1200"} \subseteq Tells
      /\ T!Link = {"ctl", "raw"}
  BY DEF Tells, T!Baud, T!Link
<1>3. \A c \in {"115200", "1200"}, f \in Failures : T!ts16_set_baud(c, f) \in Seq(Steps)
  BY <1>1, <1>2, Joins DEF T!ts16_set_baud
<1>4. T!ts16_control_destroy \in Seq(Steps)
  BY <1>1, <1>2, Joins DEF T!ts16_control_destroy, Failures
<1>5. T!ts16_init \in Seq(Steps)
  BY <1>1, <1>2, Joins DEF T!ts16_init, Failures
<1>6. T!debug_enter \in Seq(Steps)
  BY <1>1, <1>3, Joins DEF T!debug_enter, Failures
<1>7. T!debug_exit \in Seq(Steps)
  BY <1>1, <1>3, Joins DEF T!debug_exit, Failures
<1>8. T!debug_destroy \in Seq(Steps) /\ T!Return \in Seq(Steps)
  BY <1>1, <1>2, <1>4, Joins DEF T!debug_destroy, T!Return
<1>9. ASSUME NEW f \in Failures PROVE T!OnFailure(f) \in Seq(Steps)
  <2>1. CASE f \in {"abandon", "drop", "cleanup_sleep"}
    BY <1>1, <1>2, <2>1, Joins DEF T!OnFailure
  <2>2. CASE f \in {"cleanup_port", "cleanup_kill"}
    BY <1>1, <1>2, <2>2, Joins DEF T!OnFailure, Failures
  <2>3. CASE f \in {"console_destroy", "return"}
    BY <1>4, <1>8, <2>3 DEF T!OnFailure
  <2>4. CASE f \in {"cleanup_port_password", "run_empty", "ignore_empty"}
    BY <1>1, <1>3, <1>8, <2>4, Joins DEF T!OnFailure, Failures
  <2>5. QED
    BY <2>1, <2>2, <2>3, <2>4 DEF Failures
<1>10. QED
  BY <1>1, <1>5, <1>6, <1>7, <1>8, <1>9, Joins

-----------------------------------------------------------------------------
(***************************************************************************)
(* The functions, step by step.                                            *)
(***************************************************************************)
\* A list of steps, the first of them and the rest.
Leads(list, step, rest) ==
  list \in Seq(Steps) /\ list # <<>> /\ Head(list) = step /\ Tail(list) = rest

\* A step, and steps behind it, are a list.
LEMMA First ==
  ASSUME NEW x \in Steps, NEW s \in Seq(Steps)
  PROVE  Leads(<<x>> \o s, x, s) /\ Leads(<<x>>, x, <<>>)
<1>1. Leads(<<x>>, x, <<>>)
  BY DEF Leads
<1>2. Leads(<<x>> \o s, x, s)
  <2> DEFINE u == <<x>> \o s
  <2>1. u \in Seq(Steps) /\ u # <<>> /\ Head(u) = x
    OBVIOUS
  <2>2. Tail(u) = s
    OBVIOUS
  <2>3. QED BY <2>1, <2>2 DEF Leads
<1>3. QED BY <1>1, <1>2

\* The same of each kind of step.
LEMMA Firsts ==
  ASSUME NEW s \in Seq(Steps)
  PROVE  /\ \A c \in Tells, f \in Failures : Leads(T!Tell(c, f) \o s, <<"tell", c, f>>, s)
         /\ \A c \in {"q", "password", ""}, f \in Failures :
              Leads(T!Run(c, f) \o s, <<"run", c, f>>, s)
         /\ \A l \in T!Link : Leads(T!Close(l) \o s, <<"close", l, "">>, s)
         /\ Leads(T!Sleep \o s, <<"sleep", "1", "">>, s)
<1>1. ASSUME NEW c \in Tells, NEW f \in Failures
      PROVE  Leads(T!Tell(c, f) \o s, <<"tell", c, f>>, s)
  <2>1. <<"tell", c, f>> \in Steps
    BY DEF Steps
  <2>2. QED
    BY <2>1, First DEF T!Tell
<1>2. ASSUME NEW c \in {"q", "password", ""}, NEW f \in Failures
      PROVE  Leads(T!Run(c, f) \o s, <<"run", c, f>>, s)
  <2>1. <<"run", c, f>> \in Steps
    BY DEF Steps
  <2>2. QED
    BY <2>1, First DEF T!Run
<1>3. ASSUME NEW l \in T!Link PROVE Leads(T!Close(l) \o s, <<"close", l, "">>, s)
  <2>1. <<"close", l, "">> \in Steps
    BY DEF Steps
  <2>2. QED
    BY <2>1, First DEF T!Close
<1>4. Leads(T!Sleep \o s, <<"sleep", "1", "">>, s)
  <2>1. <<"sleep", "1", "">> \in Steps
    BY DEF Steps
  <2>2. QED
    BY <2>1, First DEF T!Sleep
<1>5. QED BY <1>1, <1>2, <1>3, <1>4

\* debug_exit(), before whatever follows it.
LEMMA ExitSteps ==
  ASSUME NEW rest \in Seq(Steps)
  PROVE  /\ Leads(Exit1(rest), <<"run", "q", "return">>, Exit2(rest))
         /\ Leads(Exit2(rest), <<"sleep", "1", "">>, Exit3(rest))
         /\ Leads(Exit3(rest), <<"run", "", "ignore_empty">>, Exit4(rest))
         /\ Leads(Exit4(rest), <<"tell", "115200", "return">>, Exit5(rest))
         /\ Leads(Exit5(rest), <<"sleep", "1", "">>, rest)
<1>1. "115200" \in Tells /\ {"return", "ignore_empty"} \subseteq Failures
  BY DEF Tells, T!Baud, Failures
<1>2. Leads(Exit5(rest), <<"sleep", "1", "">>, rest)
  BY Firsts DEF Exit5
<1>3. Leads(Exit4(rest), <<"tell", "115200", "return">>, Exit5(rest))
  <2>1. Exit5(rest) \in Seq(Steps)
    BY <1>2 DEF Leads
  <2>2. QED
    BY <1>1, <2>1, Firsts DEF Exit4
<1>4. Leads(Exit3(rest), <<"run", "", "ignore_empty">>, Exit4(rest))
  <2>1. Exit4(rest) \in Seq(Steps)
    BY <1>3 DEF Leads
  <2>2. QED
    BY <1>1, <2>1, Firsts DEF Exit3
<1>5. Leads(Exit2(rest), <<"sleep", "1", "">>, Exit3(rest))
  <2>1. Exit3(rest) \in Seq(Steps)
    BY <1>4 DEF Leads
  <2>2. QED
    BY <2>1, Firsts DEF Exit2
<1>6. Leads(Exit1(rest), <<"run", "q", "return">>, Exit2(rest))
  <2>1. Exit2(rest) \in Seq(Steps)
    BY <1>5 DEF Leads
  <2>2. QED
    BY <1>1, <2>1, Firsts DEF Exit1
<1>7. QED BY <1>2, <1>3, <1>4, <1>5, <1>6

\* The ends of every session with the terminal server.
LEMMA EndSteps ==
  /\ Leads(End, <<"set", "end", "">>, <<>>)
  /\ Leads(Drop, <<"close", "ctl", "">>, End)
  /\ Leads(Off3, <<"sleep", "1", "">>, Drop)
  /\ Leads(Off2, <<"tell", "kill", "abandon">>, Off3)
  /\ Leads(Off1, <<"tell", "off", "abandon">>, Off2)
  /\ Leads(Off0, <<"close", "raw", "">>, Off1)
  /\ Leads(Clean2, <<"tell", "kill", "cleanup_sleep">>, Off3)
  /\ Leads(Clean1, <<"tell", "off", "cleanup_kill">>, Clean2)
<1>1. /\ {"kill", "off"} \subseteq Tells /\ {"ctl", "raw"} \subseteq T!Link
      /\ {"abandon", "cleanup_sleep", "cleanup_kill"} \subseteq Failures
  BY DEF Tells, T!Link, Failures
<1>2. Leads(End, <<"set", "end", "">>, <<>>)
  <2>1. <<"set", "end", "">> \in Steps
    BY DEF Steps
  <2>2. <<>> \in Seq(Steps)
    OBVIOUS
  <2>3. QED
    BY <2>1, <2>2, First DEF End, T!Set
<1>3. Leads(Drop, <<"close", "ctl", "">>, End)
  <2>1. End \in Seq(Steps)
    BY <1>2 DEF Leads
  <2>2. QED
    BY <1>1, <2>1, Firsts DEF Drop
<1>4. Leads(Off3, <<"sleep", "1", "">>, Drop)
  <2>1. Drop \in Seq(Steps)
    BY <1>3 DEF Leads
  <2>2. QED
    BY <2>1, Firsts DEF Off3
<1>5. /\ Leads(Off2, <<"tell", "kill", "abandon">>, Off3)
      /\ Leads(Clean2, <<"tell", "kill", "cleanup_sleep">>, Off3)
  <2>1. Off3 \in Seq(Steps)
    BY <1>4 DEF Leads
  <2>2. QED
    BY <1>1, <2>1, Firsts DEF Off2, Clean2
<1>6. Leads(Off1, <<"tell", "off", "abandon">>, Off2)
  <2>1. Off2 \in Seq(Steps)
    BY <1>5 DEF Leads
  <2>2. QED
    BY <1>1, <2>1, Firsts DEF Off1
<1>7. Leads(Clean1, <<"tell", "off", "cleanup_kill">>, Clean2)
  <2>1. Clean2 \in Seq(Steps)
    BY <1>5 DEF Leads
  <2>2. QED
    BY <1>1, <2>1, Firsts DEF Clean1
<1>8. Leads(Off0, <<"close", "raw", "">>, Off1)
  <2>1. Off1 \in Seq(Steps)
    BY <1>6 DEF Leads
  <2>2. QED
    BY <1>1, <2>1, Firsts DEF Off0
<1>9. QED BY <1>2, <1>3, <1>4, <1>5, <1>6, <1>7, <1>8

\* debug_enter().
LEMMA EnterSteps ==
  /\ Leads(Quit1, <<"tell", "115200", "return">>, Quit2)
  /\ Leads(Quit2, <<"sleep", "1", "">>, Quit3)
  /\ Leads(Quit3, <<"run", "q", "return">>, Up1)
  /\ Leads(Up1, <<"tell", "1200", "return">>, Up2)
  /\ Leads(Up2, <<"sleep", "1", "">>, Up3)
  /\ Leads(Up3, <<"run", "password", "cleanup_port_password">>, Up4)
  /\ Leads(Up4, <<"expect", "$ ", "cleanup_port_password">>, Up5)
  /\ Leads(Up5, <<"tell", "115200", "return">>, Up6)
  /\ Leads(Up6, <<"sleep", "1", "">>, Up7)
  /\ Leads(Up7, <<"set", "up", "">>, <<>>)
<1>1. {"115200", "1200"} \subseteq Tells /\ {"return", "cleanup_port_password"} \subseteq Failures
  BY DEF Tells, T!Baud, Failures
<1>2. Leads(Up7, <<"set", "up", "">>, <<>>)
  <2>1. <<"set", "up", "">> \in Steps
    BY DEF Steps
  <2>2. <<>> \in Seq(Steps)
    OBVIOUS
  <2>3. QED
    BY <2>1, <2>2, First DEF Up7, T!Set
<1>3. Leads(Up6, <<"sleep", "1", "">>, Up7)
  <2>1. Up7 \in Seq(Steps)
    BY <1>2 DEF Leads
  <2>2. QED
    BY <1>1, <2>1, Firsts DEF Up6
<1>4. Leads(Up5, <<"tell", "115200", "return">>, Up6)
  <2>1. Up6 \in Seq(Steps)
    BY <1>3 DEF Leads
  <2>2. QED
    BY <1>1, <2>1, Firsts DEF Up5
<1>5. Leads(Up4, <<"expect", "$ ", "cleanup_port_password">>, Up5)
  <2>1. Up5 \in Seq(Steps)
    BY <1>4 DEF Leads
  <2>2. <<"expect", "$ ", "cleanup_port_password">> \in Steps
    BY DEF Steps, T!Link, Failures
  <2>3. QED
    BY <2>1, <2>2, First DEF Up4
<1>6. Leads(Up3, <<"run", "password", "cleanup_port_password">>, Up4)
  <2>1. Up4 \in Seq(Steps)
    BY <1>5 DEF Leads
  <2>2. QED
    BY <1>1, <2>1, Firsts DEF Up3
<1>7. Leads(Up2, <<"sleep", "1", "">>, Up3)
  <2>1. Up3 \in Seq(Steps)
    BY <1>6 DEF Leads
  <2>2. QED
    BY <1>1, <2>1, Firsts DEF Up2
<1>8. Leads(Up1, <<"tell", "1200", "return">>, Up2)
  <2>1. Up2 \in Seq(Steps)
    BY <1>7 DEF Leads
  <2>2. QED
    BY <1>1, <2>1, Firsts DEF Up1
<1>9. Leads(Quit3, <<"run", "q", "return">>, Up1)
  <2>1. Up1 \in Seq(Steps)
    BY <1>8 DEF Leads
  <2>2. QED
    BY <1>1, <2>1, Firsts DEF Quit3
<1>10. Leads(Quit2, <<"sleep", "1", "">>, Quit3)
  <2>1. Quit3 \in Seq(Steps)
    BY <1>9 DEF Leads
  <2>2. QED
    BY <1>1, <2>1, Firsts DEF Quit2
<1>11. Leads(Quit1, <<"tell", "115200", "return">>, Quit2)
  <2>1. Quit2 \in Seq(Steps)
    BY <1>10 DEF Leads
  <2>2. QED
    BY <1>1, <2>1, Firsts DEF Quit1
<1>12. QED BY <1>2, <1>3, <1>4, <1>5, <1>6, <1>7, <1>8, <1>9, <1>10, <1>11

\* ts16_init(), before debug_enter().
LEMMA LoginSteps ==
  /\ Leads(Login1, <<"connect", "ctl", "drop">>, Login2)
  /\ Leads(Login2, <<"fdopen", "ctl", "drop">>, Login3)
  /\ Leads(Login3, <<"tell", "user", "drop">>, Login4)
  /\ Leads(Login4, <<"tell", "password", "drop">>, Login5)
  /\ Leads(Login5, <<"tell", "on", "drop">>, Login6)
  /\ Leads(Login6, <<"tell", "kill", "cleanup_port">>, Login7)
  /\ Leads(Login7, <<"sleep", "1", "">>, Login8)
  /\ Leads(Login8, <<"connect", "raw", "console_destroy">>, Login9)
  /\ Leads(Login9, <<"fdopen", "raw", "console_destroy">>, T!debug_enter)
<1>1. /\ {"kill", "on", "password", "user"} \subseteq Tells
      /\ {"cleanup_port", "drop"} \subseteq Failures
  BY DEF Tells, Failures
<1>2. Leads(Login9, <<"fdopen", "raw", "console_destroy">>, T!debug_enter)
  <2>1. T!debug_enter \in Seq(Steps)
    BY Functions
  <2>2. <<"fdopen", "raw", "console_destroy">> \in Steps
    BY DEF Steps, T!Link, Failures
  <2>3. QED
    BY <2>1, <2>2, First DEF Login9
<1>3. Leads(Login8, <<"connect", "raw", "console_destroy">>, Login9)
  <2>1. Login9 \in Seq(Steps)
    BY <1>2 DEF Leads
  <2>2. <<"connect", "raw", "console_destroy">> \in Steps
    BY DEF Steps, T!Link, Failures
  <2>3. QED
    BY <2>1, <2>2, First DEF Login8
<1>4. Leads(Login7, <<"sleep", "1", "">>, Login8)
  <2>1. Login8 \in Seq(Steps)
    BY <1>3 DEF Leads
  <2>2. QED
    BY <1>1, <2>1, Firsts DEF Login7
<1>5. Leads(Login6, <<"tell", "kill", "cleanup_port">>, Login7)
  <2>1. Login7 \in Seq(Steps)
    BY <1>4 DEF Leads
  <2>2. QED
    BY <1>1, <2>1, Firsts DEF Login6
<1>6. Leads(Login5, <<"tell", "on", "drop">>, Login6)
  <2>1. Login6 \in Seq(Steps)
    BY <1>5 DEF Leads
  <2>2. QED
    BY <1>1, <2>1, Firsts DEF Login5
<1>7. Leads(Login4, <<"tell", "password", "drop">>, Login5)
  <2>1. Login5 \in Seq(Steps)
    BY <1>6 DEF Leads
  <2>2. QED
    BY <1>1, <2>1, Firsts DEF Login4
<1>8. Leads(Login3, <<"tell", "user", "drop">>, Login4)
  <2>1. Login4 \in Seq(Steps)
    BY <1>7 DEF Leads
  <2>2. QED
    BY <1>1, <2>1, Firsts DEF Login3
<1>9. Leads(Login2, <<"fdopen", "ctl", "drop">>, Login3)
  <2>1. Login3 \in Seq(Steps)
    BY <1>8 DEF Leads
  <2>2. <<"fdopen", "ctl", "drop">> \in Steps
    BY DEF Steps, T!Link, Failures
  <2>3. QED
    BY <2>1, <2>2, First DEF Login2
<1>10. Leads(Login1, <<"connect", "ctl", "drop">>, Login2)
  <2>1. Login2 \in Seq(Steps)
    BY <1>9 DEF Leads
  <2>2. <<"connect", "ctl", "drop">> \in Steps
    BY DEF Steps, T!Link, Failures
  <2>3. QED
    BY <2>1, <2>2, First DEF Login1
<1>11. QED BY <1>2, <1>3, <1>4, <1>5, <1>6, <1>7, <1>8, <1>9, <1>10

\* cleanup_port_password.
LEMMA FailedSteps ==
  /\ Leads(Failed1, <<"tell", "115200", "run_empty">>, Failed2)
  /\ Leads(Failed2, <<"sleep", "1", "">>, Failed3)
  /\ Leads(Failed3, <<"run", "", "return">>, T!Return)
<1>1. "115200" \in Tells /\ {"return", "run_empty"} \subseteq Failures
  BY DEF Tells, T!Baud, Failures
<1>2. Leads(Failed3, <<"run", "", "return">>, T!Return)
  <2>1. T!Return \in Seq(Steps)
    BY Functions
  <2>2. QED
    BY <1>1, <2>1, Firsts DEF Failed3
<1>3. Leads(Failed2, <<"sleep", "1", "">>, Failed3)
  <2>1. Failed3 \in Seq(Steps)
    BY <1>2 DEF Leads
  <2>2. QED
    BY <1>1, <2>1, Firsts DEF Failed2
<1>4. Leads(Failed1, <<"tell", "115200", "run_empty">>, Failed2)
  <2>1. Failed2 \in Seq(Steps)
    BY <1>3 DEF Leads
  <2>2. QED
    BY <1>1, <2>1, Firsts DEF Failed1
<1>5. QED BY <1>2, <1>3, <1>4

\* One list behind another, without regard to what a list is.
Then(s, t) == s \o t

\* Where the brackets are does not matter.
LEMMA Regroup3 ==
  /\ \A a, b, c \in Seq(Steps) : Then(Then(a, b), c) = Then(a, Then(b, c))
  /\ \A a, b \in Seq(Steps) : Then(a, b) \in Seq(Steps)
<1>1. ASSUME NEW a \in Seq(Steps), NEW b \in Seq(Steps), NEW c \in Seq(Steps)
      PROVE  (a \o b) \o c = a \o (b \o c)
  BY ConcatAssociative
<1>2. ASSUME NEW a \in Seq(Steps), NEW b \in Seq(Steps)
      PROVE  a \o b \in Seq(Steps)
  OBVIOUS
<1>3. QED BY <1>1, <1>2 DEF Then

\* The same of four lists.
LEMMA Regroup4 ==
  \A a, b, c, d \in Seq(Steps) :
    Then(Then(Then(a, b), c), d)
      = Then(a, Then(b, Then(c, d)))
<1> SUFFICES ASSUME NEW a \in Seq(Steps), NEW b \in Seq(Steps), NEW c \in Seq(Steps),
                    NEW d \in Seq(Steps)
             PROVE  Then(Then(Then(a, b), c), d)
                    = Then(a, Then(b, Then(c, d)))
  OBVIOUS
<1>1. Then(a, b) \in Seq(Steps)
  BY Regroup3
<1>2. Then(c, d) \in Seq(Steps)
  BY Regroup3
<1>3. Then(Then(Then(a, b), c), d)
      = Then(Then(a, b), Then(c, d))
  BY <1>1, Regroup3
<1>4. QED BY <1>2, <1>3, Regroup3

\* The same of five lists.
LEMMA Regroup5 ==
  \A a, b, c, d, e \in Seq(Steps) :
    Then(Then(Then(Then(a, b), c), d), e)
      = Then(a, Then(b, Then(c, Then(d, e))))
<1> SUFFICES ASSUME NEW a \in Seq(Steps), NEW b \in Seq(Steps), NEW c \in Seq(Steps),
                    NEW d \in Seq(Steps), NEW e \in Seq(Steps)
             PROVE  Then(Then(Then(Then(a, b), c), d), e)
                    = Then(a, Then(b, Then(c, Then(d, e))))
  OBVIOUS
<1>1. Then(a, b) \in Seq(Steps)
  BY Regroup3
<1>2. Then(Then(a, b), c) \in Seq(Steps)
  BY <1>1, Regroup3
<1>3. Then(d, e) \in Seq(Steps)
  BY Regroup3
<1>4. Then(Then(Then(Then(a, b), c), d), e)
      = Then(Then(Then(a, b), c), Then(d, e))
  BY <1>2, Regroup3
<1>5. QED BY <1>3, <1>4, Regroup4

\* Two steps, one behind the other.
LEMMA Pair ==
  ASSUME NEW v1 \in Steps, NEW v2 \in Steps
  PROVE  <<v1>> \o <<v2>> = <<v1, v2>>
<1> DEFINE u == <<v1>> \o <<v2>>
<1>1. u \in Seq(Steps)
  OBVIOUS
<1>2. Len(u) = 2
  OBVIOUS
<1>3. u[1] = v1 /\ u[2] = v2
  OBVIOUS
<1>4. u = <<u[1], u[2]>>
  <2> HIDE DEF u
  <2>1. QED BY <1>1, <1>2
<1>5. QED BY <1>3, <1>4

\* The functions are these lists.
LEMMA Lists ==
  /\ T!debug_enter = IF force THEN Quit1 ELSE Up1
  /\ T!ts16_init \o T!debug_enter = Login1
  /\ \A rest \in Seq(Steps) : T!debug_exit \o rest = Exit1(rest)
  /\ T!ts16_control_destroy = Off1 /\ T!debug_destroy = Off0
<1>1. /\ \A c \in Tells, f \in Failures : T!Tell(c, f) \in Seq(Steps)
      /\ \A c \in {"q", "password", ""}, f \in Failures : T!Run(c, f) \in Seq(Steps)
      /\ \A l \in T!Link : T!Close(l) \in Seq(Steps)
      /\ \A s \in {"end", "up", "released"} : T!Set(s) \in Seq(Steps)
      /\ T!Sleep \in Seq(Steps)
      /\ << <<"expect", "$ ", "cleanup_port_password">> >> \in Seq(Steps)
  BY Scripts
<1>2. /\ {"user", "password", "on", "off", "kill", "115200", "1200"} \subseteq Tells
      /\ {"ctl", "raw"} \subseteq T!Link
      /\ {"abandon", "drop", "cleanup_port", "console_destroy", "cleanup_port_password",
          "ignore_empty", "return"} \subseteq Failures
  BY DEF Tells, T!Baud, T!Link, Failures
<1>3. T!ts16_control_destroy = Off1
  <2>1. /\ T!Tell("off", "abandon") \in Seq(Steps) /\ T!Tell("kill", "abandon") \in Seq(Steps)
        /\ T!Sleep \in Seq(Steps) /\ T!Close("ctl") \in Seq(Steps) /\ T!Set("end") \in Seq(Steps)
    BY <1>1, <1>2
  <2> DEFINE o == T!Tell("off", "abandon")
             k == T!Tell("kill", "abandon")
             z == T!Sleep
             c == T!Close("ctl")
             n == T!Set("end")
  <2>2. T!ts16_control_destroy = Then(Then(Then(Then(o, k), z), c), n)
    BY DEF T!ts16_control_destroy, Then
  <2>3. Off1 = Then(o, Then(k, Then(z, Then(c, n))))
    BY DEF Off1, Off2, Off3, Drop, End, Then
  <2> HIDE DEF o, k, z, c, n
  <2>4. QED
    BY <2>1, <2>2, <2>3, Regroup5 DEF o, k, z, c, n
<1>4. T!debug_destroy = Off0
  BY <1>3 DEF T!debug_destroy, Off0
<1>5. ASSUME NEW rest \in Seq(Steps) PROVE T!debug_exit \o rest = Exit1(rest)
  <2> DEFINE q == T!Run("q", "return")
             e == T!Run("", "ignore_empty")
             b == T!Tell("115200", "return")
             z == T!Sleep
  <2>1. q \in Seq(Steps) /\ e \in Seq(Steps) /\ b \in Seq(Steps) /\ z \in Seq(Steps)
    BY <1>1, <1>2
  <2>2. T!debug_exit \o rest = Then(Then(Then(Then(q, z), e), Then(b, z)), rest)
    BY DEF T!debug_exit, T!ts16_set_baud, Then
  <2>3. Exit1(rest) = Then(q, Then(z, Then(e, Then(b, Then(z, rest)))))
    BY DEF Exit1, Exit2, Exit3, Exit4, Exit5, Then
  <2> HIDE DEF q, e, b, z
  <2>4. Then(b, z) \in Seq(Steps)
    BY <2>1, Regroup3
  <2>5. Then(Then(Then(Then(q, z), e), Then(b, z)), rest)
        = Then(q, Then(z, Then(e, Then(Then(b, z), rest))))
    BY <2>1, <2>4, Regroup5
  <2>6. Then(Then(b, z), rest) = Then(b, Then(z, rest))
    BY <2>1, Regroup3
  <2>7. QED BY <2>2, <2>3, <2>5, <2>6
<1>6. T!debug_enter = IF force THEN Quit1 ELSE Up1
  <2> DEFINE p == IF force THEN T!ts16_set_baud("115200", "return") \o T!Run("q", "return") ELSE <<>>
             q == T!Run("q", "return")
             b == T!Tell("115200", "return")
             s == T!Tell("1200", "return")
             z == T!Sleep
             w == T!Run("password", "cleanup_port_password")
             x == << <<"expect", "$ ", "cleanup_port_password">> >>
             u == T!Set("up")
  <2>1. /\ q \in Seq(Steps) /\ b \in Seq(Steps) /\ s \in Seq(Steps) /\ z \in Seq(Steps)
        /\ w \in Seq(Steps) /\ x \in Seq(Steps) /\ u \in Seq(Steps)
    BY <1>1, <1>2
  <2>2. T!debug_enter = Then(Then(Then(Then(Then(p, Then(s, z)), w), x), Then(b, z)), u)
    BY DEF T!debug_enter, T!ts16_set_baud, Then
  <2>3. p = IF force THEN Then(Then(b, z), q) ELSE <<>>
    BY DEF T!ts16_set_baud, Then
  <2>4. /\ Up1 = Then(s, Then(z, Then(w, Then(x, Then(b, Then(z, u))))))
        /\ Quit1 = Then(b, Then(z, Then(q, Up1)))
    BY DEF Up1, Up2, Up3, Up4, Up5, Up6, Up7, Quit1, Quit2, Quit3, Then
  <2> HIDE DEF p, q, b, s, z, w, x, u
  <2>5. Then(s, z) \in Seq(Steps) /\ Then(b, z) \in Seq(Steps)
    BY <2>1, Regroup3
  <2>6. p \in Seq(Steps)
    <3>1. Then(Then(b, z), q) \in Seq(Steps)
      BY <2>1, <2>5, Regroup3
    <3>2. <<>> \in Seq(Steps)
      OBVIOUS
    <3>3. QED BY <2>3, <3>1, <3>2
  <2> DEFINE sz == Then(s, z)
             bz == Then(b, z)
  <2> HIDE DEF sz, bz
  <2>7. Then(Then(Then(Then(Then(p, sz), w), x), bz), u)
        = Then(p, Then(sz, Then(w, Then(x, Then(bz, u)))))
    <3>1. sz \in Seq(Steps) /\ bz \in Seq(Steps)
      BY <2>5 DEF sz, bz
    <3>2. Then(p, sz) \in Seq(Steps)
      BY <2>6, <3>1, Regroup3
    <3>3. Then(Then(Then(Then(Then(p, sz), w), x), bz), u)
          = Then(Then(p, sz), Then(w, Then(x, Then(bz, u))))
      BY <2>1, <3>1, <3>2, Regroup5
    <3>4. Then(w, Then(x, Then(bz, u))) \in Seq(Steps)
      <4>1. Then(bz, u) \in Seq(Steps)
        BY <2>1, <3>1, Regroup3
      <4>2. Then(x, Then(bz, u)) \in Seq(Steps)
        BY <2>1, <4>1, Regroup3
      <4>3. QED BY <2>1, <4>2, Regroup3
    <3>5. QED BY <2>6, <3>1, <3>3, <3>4, Regroup3
  <2>8. Then(Then(b, z), u) = Then(b, Then(z, u))
    BY <2>1, Regroup3
  <2>9. Then(w, Then(x, Then(b, Then(z, u)))) \in Seq(Steps)
    <3>1. Then(z, u) \in Seq(Steps)
      BY <2>1, Regroup3
    <3>2. Then(b, Then(z, u)) \in Seq(Steps)
      BY <2>1, <3>1, Regroup3
    <3>3. Then(x, Then(b, Then(z, u))) \in Seq(Steps)
      BY <2>1, <3>2, Regroup3
    <3>4. QED BY <2>1, <3>3, Regroup3
  <2>10. Then(Then(s, z), Then(w, Then(x, Then(b, Then(z, u)))))
         = Then(s, Then(z, Then(w, Then(x, Then(b, Then(z, u))))))
    BY <2>1, <2>9, Regroup3
  <2>11. T!debug_enter = Then(p, Up1)
    BY <2>2, <2>4, <2>7, <2>8, <2>10 DEF sz, bz
  <2>12. Up1 \in Seq(Steps)
    BY EnterSteps DEF Leads
  <2>13. CASE force
    <3>1. Then(Then(Then(b, z), q), Up1) = Then(b, Then(z, Then(q, Up1)))
      BY <2>1, <2>12, Regroup4
    <3>2. QED BY <2>3, <2>4, <2>11, <2>13, <3>1
  <2>14. CASE ~force
    <3>1. Then(<<>>, Up1) = Up1
      BY <2>12 DEF Then
    <3>2. QED BY <2>3, <2>11, <2>14, <3>1
  <2>15. QED BY <2>13, <2>14
<1>7. T!ts16_init \o T!debug_enter = Login1
  <2> DEFINE a == << <<"connect", "ctl", "drop">> >>
             b == << <<"fdopen", "ctl", "drop">> >>
             u == T!Tell("user", "drop")
             w == T!Tell("password", "drop")
             n == T!Tell("on", "drop")
             k == T!Tell("kill", "cleanup_port")
             z == T!Sleep
             c == << <<"connect", "raw", "console_destroy">> >>
             d == << <<"fdopen", "raw", "console_destroy">> >>
             e == T!debug_enter
  <2>1. <<"connect", "ctl", "drop">> \in Steps /\ <<"fdopen", "ctl", "drop">> \in Steps
    BY <1>2 DEF Steps
  <2>2. /\ <<"connect", "raw", "console_destroy">> \in Steps
        /\ <<"fdopen", "raw", "console_destroy">> \in Steps
    BY <1>2 DEF Steps
  <2>3. a \in Seq(Steps) /\ b \in Seq(Steps) /\ c \in Seq(Steps) /\ d \in Seq(Steps)
    BY <2>1, <2>2
  <2>4. /\ u \in Seq(Steps) /\ w \in Seq(Steps) /\ n \in Seq(Steps) /\ k \in Seq(Steps)
        /\ z \in Seq(Steps) /\ e \in Seq(Steps)
    BY <1>1, <1>2, Functions
  <2>5. Then(a, b) = T!Connect("ctl", "drop") /\ Then(c, d) = T!Connect("raw", "console_destroy")
    <3>1. T!Connect("ctl", "drop") = a \o b
      BY <2>1, Pair, Zenon DEF T!Connect
    <3>2. T!Connect("raw", "console_destroy") = c \o d
      BY <2>2, Pair, Zenon DEF T!Connect
    <3>3. QED BY <3>1, <3>2, Zenon DEF Then
  <2> DEFINE ab == Then(a, b)
             m == Then(Then(Then(ab, u), w), n)
  <2>6. T!ts16_init \o T!debug_enter = Then(Then(Then(Then(m, k), z), Then(c, d)), e)
    BY <2>5 DEF T!ts16_init, Then
  <2>7. Login1 = Then(a, Then(b, Then(u, Then(w, Then(n, Then(k, Then(z, Then(c, Then(d, e)))))))))
    BY DEF Login1, Login2, Login3, Login4, Login5, Login6, Login7, Login8, Login9, Then
  <2> HIDE DEF a, b, u, w, n, k, z, c, d, e, ab, m
  <2>8. ab \in Seq(Steps) /\ Then(c, d) \in Seq(Steps)
    BY <2>3, Regroup3 DEF ab
  <2>9. m \in Seq(Steps)
    <3>1. Then(ab, u) \in Seq(Steps)
      BY <2>4, <2>8, Regroup3
    <3>2. Then(Then(ab, u), w) \in Seq(Steps)
      BY <2>4, <3>1, Regroup3
    <3>3. QED BY <2>4, <3>2, Regroup3 DEF m
  <2>10. Then(Then(Then(Then(m, k), z), Then(c, d)), e) = Then(m, Then(k, Then(z, Then(Then(c, d), e))))
    BY <2>4, <2>8, <2>9, Regroup5
  <2>11. Then(Then(c, d), e) = Then(c, Then(d, e))
    BY <2>3, <2>4, Regroup3
  <2> DEFINE y == Then(k, Then(z, Then(c, Then(d, e))))
  <2>12. y \in Seq(Steps)
    <3>1. Then(d, e) \in Seq(Steps)
      BY <2>3, <2>4, Regroup3
    <3>2. Then(c, Then(d, e)) \in Seq(Steps)
      BY <2>3, <3>1, Regroup3
    <3>3. Then(z, Then(c, Then(d, e))) \in Seq(Steps)
      BY <2>4, <3>2, Regroup3
    <3>4. QED BY <2>4, <3>3, Regroup3
  <2>13. T!ts16_init \o T!debug_enter = Then(m, y)
    BY <2>6, <2>10, <2>11
  <2> HIDE DEF y
  <2>14. Then(m, y) = Then(ab, Then(u, Then(w, Then(n, y))))
    BY <2>4, <2>8, <2>12, Regroup5 DEF m
  <2>15. Then(u, Then(w, Then(n, y))) \in Seq(Steps)
    <3>1. Then(n, y) \in Seq(Steps)
      BY <2>4, <2>12, Regroup3
    <3>2. Then(w, Then(n, y)) \in Seq(Steps)
      BY <2>4, <3>1, Regroup3
    <3>3. QED BY <2>4, <3>2, Regroup3
  <2>16. Then(ab, Then(u, Then(w, Then(n, y)))) = Then(a, Then(b, Then(u, Then(w, Then(n, y)))))
    BY <2>3, <2>15, Regroup3 DEF ab
  <2>17. QED BY <2>7, <2>13, <2>14, <2>16 DEF y
<1>8. QED BY <1>3, <1>4, <1>5, <1>6, <1>7

\* The lists are the same lists after a step that leaves the job alone.
LEMMA ListsStay ==
  ASSUME force' = force, job' = job
  PROVE  /\ T!Return' = T!Return /\ T!debug_enter' = T!debug_enter
         /\ Login1' = Login1 /\ Login2' = Login2 /\ Login3' = Login3 /\ Login4' = Login4
         /\ Login5' = Login5 /\ Login6' = Login6 /\ Login7' = Login7 /\ Login8' = Login8
         /\ Login9' = Login9
         /\ Failed1' = Failed1 /\ Failed2' = Failed2 /\ Failed3' = Failed3
<1>1. T!Return' = T!Return
  BY Zenon DEF T!Return
<1>2. T!debug_enter' = T!debug_enter
  BY Zenon DEF T!debug_enter
<1>3. Login9' = Login9 /\ Login8' = Login8 /\ Login7' = Login7
  BY <1>2, Zenon DEF Login9, Login8, Login7
<1>4. Login6' = Login6 /\ Login5' = Login5 /\ Login4' = Login4
  BY <1>3, Zenon DEF Login6, Login5, Login4
<1>5. Login3' = Login3 /\ Login2' = Login2 /\ Login1' = Login1
  BY <1>4, Zenon DEF Login3, Login2, Login1
<1>6. Failed3' = Failed3 /\ Failed2' = Failed2 /\ Failed1' = Failed1
  BY <1>1, Zenon DEF Failed3, Failed2, Failed1
<1>7. QED BY <1>1, <1>2, <1>3, <1>4, <1>5, <1>6

\* What is left to do when a step fails.
LEMMA OnFailures ==
  /\ T!OnFailure("abandon") = End /\ T!OnFailure("drop") = Drop
  /\ T!OnFailure("cleanup_kill") = Clean2
  /\ T!OnFailure("cleanup_sleep") = Off3 /\ T!OnFailure("cleanup_port") = Clean1
  /\ T!OnFailure("console_destroy") = Off1
  /\ T!OnFailure("cleanup_port_password") = Failed1 /\ T!OnFailure("run_empty") = Failed3
  /\ T!OnFailure("ignore_empty") = Exit4(T!Return) /\ T!OnFailure("return") = T!Return
  /\ T!Return = IF job \in {"probe", "destroy"} THEN Off0 ELSE <<>>
<1> DEFINE c == T!Close("ctl")
           n == T!Set("end")
           z == T!Sleep
           o == T!Tell("off", "cleanup_kill")
           k == T!Tell("kill", "cleanup_sleep")
           b == T!Tell("115200", "run_empty")
           a == T!Tell("115200", "return")
           e == T!Run("", "return")
           r == T!Return
<1>1. /\ c \in Seq(Steps) /\ n \in Seq(Steps) /\ z \in Seq(Steps) /\ o \in Seq(Steps)
      /\ k \in Seq(Steps) /\ b \in Seq(Steps) /\ a \in Seq(Steps) /\ e \in Seq(Steps)
      /\ r \in Seq(Steps)
  <2>1. /\ {"off", "kill", "115200"} \subseteq Tells /\ "ctl" \in T!Link
        /\ {"cleanup_kill", "cleanup_sleep", "run_empty", "return"} \subseteq Failures
    BY DEF Tells, T!Baud, T!Link, Failures
  <2>2. QED BY <2>1, Scripts, Functions
<1>2. T!OnFailure("abandon") = End /\ T!OnFailure("drop") = Drop
  BY Zenon DEF T!OnFailure, End, Drop
<1>3. T!OnFailure("console_destroy") = Off1 /\ T!OnFailure("run_empty") = Failed3
      /\ T!OnFailure("return") = T!Return
  BY Lists, Zenon DEF T!OnFailure, Failed3
<1>4. T!OnFailure("cleanup_sleep") = Off3
  <2>1. T!OnFailure("cleanup_sleep") = Then(Then(z, c), n)
    BY Zenon DEF T!OnFailure, Then
  <2>2. Off3 = Then(z, Then(c, n))
    BY Zenon DEF Off3, Drop, End, Then
  <2> HIDE DEF c, n, z, o, k, b, a, e, r
  <2>3. Then(Then(z, c), n) = Then(z, Then(c, n))
    BY <1>1, Regroup3
  <2>4. QED BY <2>1, <2>2, <2>3, Zenon
<1>5. T!OnFailure("cleanup_kill") = Clean2
  <2>1. T!OnFailure("cleanup_kill") = Then(Then(Then(k, z), c), n)
    BY Zenon DEF T!OnFailure, Then
  <2>2. Clean2 = Then(k, Then(z, Then(c, n)))
    BY Zenon DEF Clean2, Off3, Drop, End, Then
  <2> HIDE DEF c, n, z, o, k, b, a, e, r
  <2>3. Then(Then(Then(k, z), c), n) = Then(k, Then(z, Then(c, n)))
    BY <1>1, Regroup4
  <2>4. QED BY <2>1, <2>2, <2>3, Zenon
<1>6. T!OnFailure("cleanup_port") = Clean1
  <2>1. T!OnFailure("cleanup_port") = Then(Then(Then(Then(o, k), z), c), n)
    BY Zenon DEF T!OnFailure, Then
  <2>2. Clean1 = Then(o, Then(k, Then(z, Then(c, n))))
    BY Zenon DEF Clean1, Clean2, Off3, Drop, End, Then
  <2> HIDE DEF c, n, z, o, k, b, a, e, r
  <2>3. Then(Then(Then(Then(o, k), z), c), n) = Then(o, Then(k, Then(z, Then(c, n))))
    BY <1>1, Regroup5
  <2>4. QED BY <2>1, <2>2, <2>3, Zenon
<1>7. T!OnFailure("cleanup_port_password") = Failed1
  <2>1. T!OnFailure("cleanup_port_password") = Then(Then(Then(b, z), e), r)
    BY Zenon DEF T!OnFailure, T!ts16_set_baud, Then
  <2>2. Failed1 = Then(b, Then(z, Then(e, r)))
    BY Zenon DEF Failed1, Failed2, Failed3, Then
  <2> HIDE DEF c, n, z, o, k, b, a, e, r
  <2>3. Then(Then(Then(b, z), e), r) = Then(b, Then(z, Then(e, r)))
    BY <1>1, Regroup4
  <2>4. QED BY <2>1, <2>2, <2>3, Zenon
<1>8. T!OnFailure("ignore_empty") = Exit4(T!Return)
  <2>1. T!OnFailure("ignore_empty") = Then(Then(a, z), r)
    BY Zenon DEF T!OnFailure, T!ts16_set_baud, Then
  <2>2. Exit4(T!Return) = Then(a, Then(z, r))
    BY Zenon DEF Exit4, Exit5, Then
  <2> HIDE DEF c, n, z, o, k, b, a, e, r
  <2>3. Then(Then(a, z), r) = Then(a, Then(z, r))
    BY <1>1, Regroup3
  <2>4. QED BY <2>1, <2>2, <2>3, Zenon
<1>9. T!Return = IF job \in {"probe", "destroy"} THEN Off0 ELSE <<>>
  BY Lists, Zenon DEF T!Return
<1>10. QED BY <1>2, <1>3, <1>4, <1>5, <1>6, <1>7, <1>8, <1>9

\* What the commands do to the port.
LEMMA Effects ==
  /\ Effect("user", T!Text) = T!Text /\ Effect("password", T!Text) = T!Text
  /\ Effect("on", T!Text) = Pending /\ Effect("kill", Pending) = Fast
  /\ Effect("115200", Fast) = Fast /\ Effect("115200", Slow) = Fast
  /\ Effect("1200", Fast) = Slow
  /\ \A p \in Ports, c \in Tells : Effect(c, p) \in Ports
  /\ \A p \in Ports :
       /\ Effect("off", p).baud = p.baud /\ Effect("off", p).bin = FALSE
       /\ Effect("kill", p).baud = p.baud /\ Effect("kill", p).bin = p.bin
       /\ Effect("kill", p).stale = FALSE
<1>1. /\ Effect("user", T!Text) = T!Text /\ Effect("password", T!Text) = T!Text
      /\ Effect("on", T!Text) = Pending /\ Effect("kill", Pending) = Fast
  BY DEF Effect, T!Baud, T!Text, Pending, Fast
<1>2. /\ Effect("115200", Fast) = Fast /\ Effect("115200", Slow) = Fast
      /\ Effect("1200", Fast) = Slow
  BY DEF Effect, T!Baud, Slow, Fast
<1>3. ASSUME NEW p \in Ports, NEW c \in Tells
      PROVE  Effect(c, p) \in Ports
  BY DEF Effect, T!Baud, Tells, Ports
<1>4. ASSUME NEW p \in Ports
      PROVE  /\ Effect("off", p).baud = p.baud /\ Effect("off", p).bin = FALSE
             /\ Effect("kill", p).baud = p.baud /\ Effect("kill", p).bin = p.bin
             /\ Effect("kill", p).stale = FALSE
  BY DEF Effect, T!Baud, Ports
<1>5. QED BY <1>1, <1>2, <1>3, <1>4

-----------------------------------------------------------------------------
(***************************************************************************)
(* One step, by its kind.                                                  *)
(***************************************************************************)
\* The kinds of steps.
Kinds == {"tell", "run", "expect", "sleep", "connect", "fdopen", "close", "set"}

\* What the first step of the list is.
LEMMA Reads ==
  ASSUME NEW o \in Kinds, NEW a, NEW f, NEW rest, Leads(todo, <<o, a, f>>, rest)
  PROVE  /\ \A k \in Kinds : T!Is(k) <=> k = o
         /\ T!Arg = a /\ Head(todo)[3] = f /\ Tail(todo) = rest
<1>1. todo # <<>> /\ Head(todo) = <<o, a, f>> /\ Tail(todo) = rest
  BY DEF Leads
<1>2. Head(todo)[1] = o /\ Head(todo)[2] = a /\ Head(todo)[3] = f
  BY <1>1
<1>3. QED
  BY <1>1, <1>2 DEF T!Is, T!Arg

\* What culvert's own steps leave alone, whichever they are.
Apart == UNCHANGED <<job, force, port, broken>>

\* A link whose end culvert learns of has broken.
LEMMA Learns ==
  ASSUME ConnOK, NEW l \in T!Link, conn[l] = "reset", conn' = [conn EXCEPT ![l] = "dead"],
         broken' = broken
  PROVE  ConnOK' /\ Held' = Held /\ l \in broken
<1>1. l \in broken
  BY DEF ConnOK
<1>2. ConnOK'
  BY <1>1 DEF ConnOK, T!Link
<1>3. conn["ctl"] # "none" <=> conn'["ctl"] # "none"
  BY DEF ConnOK, T!Link
<1>4. Held \in BOOLEAN /\ Held' \in BOOLEAN
  BY Zenon DEF Held
<1>5. Held' = Held
  BY <1>3, <1>4 DEF Held
<1>6. QED BY <1>1, <1>2, <1>5

\* A command for the terminal server is typed behind the one before it, or the
\* step leads to the list that it names: memory ran out, or the terminal server
\* is gone.
TellStep(c, f, rest) ==
  /\ LinksOK' /\ Apart /\ UNCHANGED <<state, bmc>> /\ Held' = Held
  /\ \/ todo' = rest /\ starved' = starved /\ Final = port /\ Final' = Effect(c, port)
     \/ /\ todo' = T!OnFailure(f) /\ Final' = Final
        /\ \/ starved' = starved + 1 /\ c \notin {"user", "password"}
           \/ starved' = starved /\ ~Stays

\* prompt_expect_run().
LEMMA TellSteps ==
  ASSUME LinksOK, T!Step \/ T!Starve, NEW c \in Tells, NEW f \in Failures, NEW rest,
         Leads(todo, <<"tell", c, f>>, rest)
  PROVE  TellStep(c, f, rest)
<1>1. /\ T!Is("tell") /\ T!Arg = c /\ Head(todo)[3] = f /\ Tail(todo) = rest
      /\ ~T!Is("run") /\ ~T!Is("expect") /\ ~T!Is("sleep") /\ ~T!Is("connect")
      /\ ~T!Is("fdopen") /\ ~T!Is("close") /\ ~T!Is("set")
  BY Reads DEF Kinds
<1>2. CASE T!ToldOfReset
  <2>1. /\ conn["ctl"] = "reset" /\ conn' = [conn EXCEPT !["ctl"] = "dead"]
        /\ todo' = T!OnFailure(f)
        /\ UNCHANGED <<state, job, force, starved, broken, port, told, shown, bmc>>
    BY <1>1, <1>2 DEF T!ToldOfReset, T!FailStep, T!server, T!Through
  <2>2. ConnOK' /\ Held' = Held /\ "ctl" \in broken
    BY <2>1, Learns DEF LinksOK, T!Link
  <2>3. DialogOK' /\ DataOK'
    BY <2>1 DEF LinksOK, DialogOK, DataOK
  <2>4. Final' = Final
    BY <2>1 DEF Final
  <2>5. QED
    BY <2>1, <2>2, <2>3, <2>4 DEF TellStep, Apart, Stays, LinksOK
<1>3. CASE T!Starve
  <2>1. /\ c \notin {"user", "password"} /\ starved' = starved + 1 /\ todo' = T!OnFailure(f)
        /\ UNCHANGED <<state, job, force, conn, broken, port, told, shown, bmc>>
    BY <1>1, <1>3 DEF T!Starve, T!FailStep, T!server
  <2>2. DialogOK' /\ ConnOK'
    BY <2>1 DEF LinksOK, DialogOK, ConnOK
  <2>3. DataOK'
    BY <2>1 DEF LinksOK, DataOK
  <2>4. Held' = Held /\ Final' = Final
    BY <2>1 DEF Held, Final
  <2>5. QED
    BY <2>1, <2>2, <2>3, <2>4 DEF TellStep, Apart, LinksOK
<1>4. CASE T!prompt_expect_run
  <2>1. /\ T!Expected \in T!Range(shown) /\ shown' = <<>> /\ told' = Append(told, c)
        /\ todo' = rest
        /\ UNCHANGED <<state, job, force, starved, conn, broken, port, bmc>>
    BY <1>1, <1>4 DEF T!prompt_expect_run, T!Go
  <2>2. shown # <<>>
    BY <2>1 DEF T!Range
  <2>3. told = <<>>
    BY <2>2 DEF LinksOK, DialogOK
  <2>4. told' = <<c>>
    BY <2>1, <2>3
  <2>5. DialogOK'
    BY <2>1, <2>4 DEF DialogOK
  <2>6. ConnOK' /\ DataOK'
    BY <2>1 DEF LinksOK, ConnOK, DataOK
  <2>7. Final = port /\ Final' = Effect(c, port)
    BY <2>1, <2>3, <2>4 DEF Final, Effect
  <2>8. Held' = Held
    BY <2>1 DEF Held
  <2>9. QED
    BY <2>1, <2>5, <2>6, <2>7, <2>8 DEF TellStep, Apart, LinksOK
<1>5. QED
  BY <1>1, <1>2, <1>3, <1>4 DEF T!Step, T!Sigpipe, T!SleepStep, T!ConnectStep, T!fdopen,
     T!prompt_run, T!Expect, T!CloseStep, T!SetStep

\* A line for the BMC is sent, and means something to it at one rate only; or
\* the connection to the port is gone.
RunStep(c, f, rest) ==
  /\ LinksOK' /\ Apart /\ starved' = starved /\ Held' = Held /\ Final' = Final
  /\ \/ state' = "killed" /\ todo' = <<>>
     \/ state' = state /\ todo' = T!OnFailure(f) /\ bmc' = bmc /\ broken # {}
     \/ /\ state' = state /\ todo' = rest
        /\ \/ c = "password" /\ bmc = "console" /\ port = Slow /\ bmc' = "debug"
           \/ c = "q" /\ port = Fast /\ bmc' = "console"
           \/ /\ bmc' = bmc /\ (c = "password" => bmc # "console" \/ port # Slow)
              /\ (c = "q" => port # Fast)

\* prompt_run().
LEMMA RunSteps ==
  ASSUME LinksOK, T!Step \/ T!Starve, NEW c \in {"q", "password", ""}, NEW f \in Failures,
         NEW rest, Leads(todo, <<"run", c, f>>, rest)
  PROVE  RunStep(c, f, rest)
<1>1. /\ T!Is("run") /\ T!Arg = c /\ Head(todo)[3] = f /\ Tail(todo) = rest
      /\ ~T!Is("tell") /\ ~T!Is("expect") /\ ~T!Is("sleep") /\ ~T!Is("connect")
      /\ ~T!Is("fdopen") /\ ~T!Is("close") /\ ~T!Is("set")
  BY Reads DEF Kinds
<1>2. CASE T!ToldOfReset
  <2>1. /\ conn["raw"] = "reset" /\ conn' = [conn EXCEPT !["raw"] = "dead"]
        /\ todo' = T!OnFailure(f)
        /\ UNCHANGED <<state, job, force, starved, broken, port, told, shown, bmc>>
    BY <1>1, <1>2 DEF T!ToldOfReset, T!FailStep, T!server, T!Through
  <2>2. ConnOK' /\ Held' = Held /\ "raw" \in broken
    BY <2>1, Learns DEF LinksOK, T!Link
  <2>3. DialogOK' /\ DataOK'
    BY <2>1 DEF LinksOK, DialogOK, DataOK
  <2>4. Final' = Final
    BY <2>1 DEF Final
  <2>5. QED
    BY <2>1, <2>2, <2>3, <2>4 DEF RunStep, Apart, LinksOK
<1>3. CASE T!Sigpipe
  <2>1. /\ state' = "killed" /\ todo' = <<>>
        /\ UNCHANGED <<job, force, starved, conn, broken, port, told, shown, bmc>>
    BY <1>3 DEF T!Sigpipe, T!server
  <2>2. LinksOK'
    BY <2>1 DEF LinksOK, DialogOK, ConnOK, DataOK
  <2>3. Held' = Held /\ Final' = Final
    BY <2>1 DEF Held, Final
  <2>4. QED
    BY <2>1, <2>2, <2>3 DEF RunStep, Apart
<1>4. CASE T!prompt_run
  <2>1. /\ todo' = rest
        /\ UNCHANGED <<state, job, force, starved, conn, broken, port, told, shown>>
    BY <1>1, <1>4 DEF T!prompt_run, T!Go, T!server
  <2>2. \/ c = "password" /\ bmc = "console" /\ port = Slow /\ bmc' = "debug"
        \/ c = "q" /\ port = Fast /\ bmc' = "console"
        \/ /\ bmc' = bmc /\ (c = "password" => bmc # "console" \/ port # Slow)
           /\ (c = "q" => port # Fast)
    BY <1>1, <1>4 DEF T!prompt_run, T!Passes, Slow, Fast
  <2>3. DialogOK' /\ ConnOK'
    BY <2>1 DEF LinksOK, DialogOK, ConnOK
  <2>4. DataOK'
    BY <2>1, <2>2 DEF LinksOK, DataOK
  <2>5. Held' = Held /\ Final' = Final
    BY <2>1 DEF Held, Final
  <2>6. QED
    BY <2>1, <2>2, <2>3, <2>4, <2>5 DEF RunStep, Apart, LinksOK
<1>5. QED
  BY <1>1, <1>2, <1>3, <1>4 DEF T!Step, T!Starve, T!prompt_expect_run, T!SleepStep,
     T!ConnectStep, T!fdopen, T!Expect, T!CloseStep, T!SetStep

\* The answer to the password, or the connection to the port is gone.
ExpectStep(f, rest) ==
  /\ LinksOK' /\ Apart /\ UNCHANGED <<state, bmc, starved>> /\ Held' = Held /\ Final' = Final
  /\ todo' = rest \/ (todo' = T!OnFailure(f) /\ broken # {})

\* prompt_expect().
LEMMA ExpectSteps ==
  ASSUME LinksOK, T!Step \/ T!Starve, NEW f \in Failures, NEW rest,
         Leads(todo, <<"expect", "$ ", f>>, rest)
  PROVE  ExpectStep(f, rest)
<1>1. /\ T!Is("expect") /\ T!Arg = "$ " /\ Head(todo)[3] = f /\ Tail(todo) = rest
      /\ ~T!Is("tell") /\ ~T!Is("run") /\ ~T!Is("sleep") /\ ~T!Is("connect")
      /\ ~T!Is("fdopen") /\ ~T!Is("close") /\ ~T!Is("set")
  BY Reads DEF Kinds
<1>2. CASE T!ToldOfReset
  <2>1. /\ conn["raw"] = "reset" /\ conn' = [conn EXCEPT !["raw"] = "dead"]
        /\ todo' = T!OnFailure(f)
        /\ UNCHANGED <<state, job, force, starved, broken, port, told, shown, bmc>>
    BY <1>1, <1>2 DEF T!ToldOfReset, T!FailStep, T!server, T!Through
  <2>2. ConnOK' /\ Held' = Held /\ "raw" \in broken
    BY <2>1, Learns DEF LinksOK, T!Link
  <2>3. DialogOK' /\ DataOK'
    BY <2>1 DEF LinksOK, DialogOK, DataOK
  <2>4. Final' = Final
    BY <2>1 DEF Final
  <2>5. QED
    BY <2>1, <2>2, <2>3, <2>4 DEF ExpectStep, Apart, LinksOK
<1>3. CASE T!Expect
  <2>1. /\ todo' = rest
        /\ UNCHANGED <<state, job, force, starved, conn, broken, port, told, shown, bmc>>
    BY <1>1, <1>3 DEF T!Expect, T!Go, T!server
  <2>2. LinksOK'
    BY <2>1 DEF LinksOK, DialogOK, ConnOK, DataOK
  <2>3. Held' = Held /\ Final' = Final
    BY <2>1 DEF Held, Final
  <2>4. QED
    BY <2>1, <2>2, <2>3 DEF ExpectStep, Apart
<1>4. QED
  BY <1>1, <1>2, <1>3 DEF T!Step, T!Starve, T!prompt_expect_run, T!SleepStep, T!Sigpipe,
     T!ConnectStep, T!fdopen, T!prompt_run, T!CloseStep, T!SetStep

\* Behind the second that culvert waits nothing is left to execute.
SleepStep(rest) ==
  /\ LinksOK' /\ Apart /\ UNCHANGED <<state, bmc, starved>> /\ Held' = Held /\ Final' = Final
  /\ Final = port /\ todo' = rest

\* sleep().
LEMMA SleepSteps ==
  ASSUME LinksOK, T!Step \/ T!Starve, NEW rest, Leads(todo, <<"sleep", "1", "">>, rest)
  PROVE  SleepStep(rest)
<1>1. /\ T!Is("sleep") /\ Tail(todo) = rest
      /\ ~T!Is("tell") /\ ~T!Is("run") /\ ~T!Is("expect") /\ ~T!Is("connect")
      /\ ~T!Is("fdopen") /\ ~T!Is("close") /\ ~T!Is("set")
  BY Reads DEF Kinds
<1>2. T!SleepStep
  BY <1>1 DEF T!Step, T!Starve, T!ToldOfReset, T!Sigpipe, T!prompt_expect_run, T!ConnectStep,
     T!fdopen, T!prompt_run, T!Expect, T!CloseStep, T!SetStep
<1>3. /\ told = <<>> /\ todo' = rest
      /\ UNCHANGED <<state, job, force, starved, conn, broken, port, told, shown, bmc>>
  BY <1>1, <1>2 DEF T!SleepStep, T!Go, T!server
<1>4. LinksOK'
  BY <1>3 DEF LinksOK, DialogOK, ConnOK, DataOK
<1>5. Held' = Held /\ Final' = Final /\ Final = port
  BY <1>3 DEF Held, Final
<1>6. QED
  BY <1>3, <1>4, <1>5 DEF SleepStep, Apart

\* A connection is closed.
CloseStep(l, rest) ==
  /\ LinksOK' /\ Apart /\ UNCHANGED <<state, bmc, starved>> /\ Final' = Final
  /\ (l = "raw" => Held' = Held) /\ todo' = rest

\* prompt_destroy().
LEMMA CloseSteps ==
  ASSUME LinksOK, T!Step \/ T!Starve, NEW l \in T!Link, NEW rest,
         Leads(todo, <<"close", l, "">>, rest)
  PROVE  CloseStep(l, rest)
<1>1. /\ T!Is("close") /\ T!Arg = l /\ Tail(todo) = rest
      /\ ~T!Is("tell") /\ ~T!Is("run") /\ ~T!Is("expect") /\ ~T!Is("connect")
      /\ ~T!Is("fdopen") /\ ~T!Is("sleep") /\ ~T!Is("set")
  BY Reads DEF Kinds
<1>2. T!CloseStep
  BY <1>1 DEF T!Step, T!Starve, T!ToldOfReset, T!Sigpipe, T!prompt_expect_run, T!ConnectStep,
     T!fdopen, T!prompt_run, T!Expect, T!SleepStep, T!SetStep
<1>3. /\ conn' = [conn EXCEPT ![l] = "none"] /\ todo' = rest
      /\ UNCHANGED <<state, job, force, starved, broken, port, told, shown, bmc>>
  BY <1>1, <1>2 DEF T!CloseStep, T!Go, T!server
<1>4. DialogOK' /\ DataOK'
  BY <1>3 DEF LinksOK, DialogOK, DataOK
<1>5. ConnOK'
  BY <1>3 DEF LinksOK, ConnOK, T!Link
<1>6. ASSUME l = "raw" PROVE Held' = Held
  <2>1. conn'["ctl"] = conn["ctl"]
    BY <1>3, <1>6 DEF LinksOK, ConnOK, T!Link
  <2>2. QED BY <2>1 DEF Held
<1>7. Final' = Final
  BY <1>3 DEF Final
<1>8. QED
  BY <1>3, <1>4, <1>5, <1>6, <1>7 DEF CloseStep, Apart, LinksOK

\* A function ends.
SetStep(s, rest) ==
  /\ LinksOK' /\ Apart /\ UNCHANGED <<bmc, starved, conn>> /\ Held' = Held /\ Final' = Final
  /\ state' = s /\ todo' = rest

\* The last step of a function.
LEMMA SetSteps ==
  ASSUME LinksOK, T!Step \/ T!Starve, NEW s, NEW rest, Leads(todo, <<"set", s, "">>, rest)
  PROVE  SetStep(s, rest)
<1>1. /\ T!Is("set") /\ T!Arg = s /\ Tail(todo) = rest
      /\ ~T!Is("tell") /\ ~T!Is("run") /\ ~T!Is("expect") /\ ~T!Is("connect")
      /\ ~T!Is("fdopen") /\ ~T!Is("sleep") /\ ~T!Is("close")
  BY Reads DEF Kinds
<1>2. T!SetStep
  BY <1>1 DEF T!Step, T!Starve, T!ToldOfReset, T!Sigpipe, T!prompt_expect_run, T!ConnectStep,
     T!fdopen, T!prompt_run, T!Expect, T!SleepStep, T!CloseStep
<1>3. /\ state' = s /\ todo' = rest
      /\ UNCHANGED <<job, force, starved, conn, broken, port, told, shown, bmc>>
  BY <1>1, <1>2 DEF T!SetStep, T!Go, T!server
<1>4. LinksOK'
  BY <1>3 DEF LinksOK, DialogOK, ConnOK, DataOK
<1>5. Held' = Held /\ Final' = Final
  BY <1>3 DEF Held, Final
<1>6. QED
  BY <1>3, <1>4, <1>5 DEF SetStep, Apart

\* A connection is made, or not: to the terminal server, which then asks who
\* is there, or to the port.
ConnectStep(l, f, rest) ==
  /\ LinksOK' /\ Apart /\ UNCHANGED <<state, bmc, starved>> /\ Final' = Final
  /\ \/ todo' = rest /\ (l = "raw" => Held' = Held) /\ (l = "ctl" => Held')
     \/ todo' = T!OnFailure(f) /\ Held' = Held

\* connect().
LEMMA ConnectSteps ==
  ASSUME LinksOK, T!Step \/ T!Starve, NEW l \in T!Link, NEW f \in Failures, NEW rest,
         Leads(todo, <<"connect", l, f>>, rest),
         l = "ctl" => told = <<>> /\ shown = <<>> /\ Stays
  PROVE  ConnectStep(l, f, rest)
<1>1. /\ T!Is("connect") /\ T!Arg = l /\ Head(todo)[3] = f /\ Tail(todo) = rest
      /\ ~T!Is("tell") /\ ~T!Is("run") /\ ~T!Is("expect") /\ ~T!Is("close")
      /\ ~T!Is("fdopen") /\ ~T!Is("sleep") /\ ~T!Is("set")
  BY Reads DEF Kinds
<1>2. T!ConnectStep
  BY <1>1 DEF T!Step, T!Starve, T!ToldOfReset, T!Sigpipe, T!prompt_expect_run, T!SetStep,
     T!fdopen, T!prompt_run, T!Expect, T!SleepStep, T!CloseStep
<1>3. /\ UNCHANGED <<state, job, force, starved, broken, port, told, bmc>>
      /\ \/ /\ todo' = rest /\ conn' = [conn EXCEPT ![l] = "up"]
            /\ (shown' = shown \/ (l = "ctl" /\ shown' = Append(shown, "login: ")))
         \/ todo' = T!OnFailure(f) /\ UNCHANGED <<conn, shown>>
  <2>0. UNCHANGED <<starved, broken, port, told, bmc>>
    BY <1>2 DEF T!ConnectStep
  <2>1. CASE T!FailStep /\ UNCHANGED <<conn, shown>>
    BY <1>1, <2>0, <2>1 DEF T!FailStep
  <2>2. CASE T!Go /\ conn' = [conn EXCEPT ![l] = "up"] /\ UNCHANGED <<state, shown>>
    BY <1>1, <2>0, <2>2 DEF T!Go
  <2>3. CASE T!Go /\ conn' = [conn EXCEPT ![l] = "up"] /\ T!Ask("login: ") /\ l = "ctl"
             /\ UNCHANGED state
    BY <1>1, <2>0, <2>3 DEF T!Go, T!Ask
  <2>4. QED
    BY <1>1, <1>2, <2>1, <2>2, <2>3 DEF T!ConnectStep
<1>4. DialogOK' /\ DataOK'
  <2>1. DataOK'
    BY <1>3 DEF LinksOK, DataOK
  <2>2. CASE shown' = shown
    BY <1>3, <2>1, <2>2 DEF LinksOK, DialogOK
  <2>3. CASE l = "ctl" /\ shown' = Append(shown, "login: ")
    <3>1. shown' = <<"login: ">>
      <4>1. shown = <<>>
        BY <2>3
      <4>2. Append(<<>>, "login: ") = <<"login: ">>
        OBVIOUS
      <4>3. QED BY <2>3, <4>1, <4>2, Zenon
    <3>2. told' = <<>>
      BY <1>3, <2>3
    <3>3. QED BY <2>1, <3>1, <3>2 DEF DialogOK, Prompts
  <2>4. QED BY <1>3, <2>2, <2>3
<1>5. ConnOK'
  <2>1. l = "ctl" => "ctl" \notin broken
    BY DEF Stays
  <2>2. QED BY <1>3, <2>1 DEF LinksOK, ConnOK, T!Link
<1>6. Final' = Final
  BY <1>3 DEF Final
<1>7. CASE todo' = T!OnFailure(f) /\ UNCHANGED conn
  <2>1. Held' = Held
    BY <1>7 DEF Held
  <2>2. QED BY <1>3, <1>4, <1>5, <1>6, <1>7, <2>1 DEF ConnectStep, Apart, LinksOK
<1>8. CASE todo' = rest /\ conn' = [conn EXCEPT ![l] = "up"]
  <2>1. l = "ctl" => Held'
    BY <1>8 DEF LinksOK, ConnOK, Held
  <2>2. ASSUME l = "raw" PROVE Held' = Held
    <3>1. conn'["ctl"] = conn["ctl"]
      BY <1>8, <2>2 DEF LinksOK, ConnOK, T!Link
    <3>2. QED BY <3>1 DEF Held
  <2>3. QED BY <1>3, <1>4, <1>5, <1>6, <1>8, <2>1, <2>2 DEF ConnectStep, Apart, LinksOK
<1>9. QED
  BY <1>3, <1>7, <1>8

\* Memory for the connection's buffers, or none.
FdopenStep(f, rest) ==
  /\ LinksOK' /\ Apart /\ UNCHANGED <<state, bmc>> /\ Held' = Held /\ Final' = Final
  /\ \/ todo' = rest /\ starved' = starved
     \/ todo' = T!OnFailure(f) /\ starved' = starved + 1

\* fdopen().
LEMMA FdopenSteps ==
  ASSUME LinksOK, T!Step \/ T!Starve, NEW l \in T!Link, NEW f \in Failures, NEW rest,
         Leads(todo, <<"fdopen", l, f>>, rest)
  PROVE  FdopenStep(f, rest)
<1>1. /\ T!Is("fdopen") /\ T!Arg = l /\ Head(todo)[3] = f /\ Tail(todo) = rest
      /\ ~T!Is("tell") /\ ~T!Is("run") /\ ~T!Is("expect") /\ ~T!Is("close")
      /\ ~T!Is("connect") /\ ~T!Is("sleep") /\ ~T!Is("set")
  BY Reads DEF Kinds
<1>2. T!fdopen \/ T!Starve
  BY <1>1 DEF T!Step, T!ToldOfReset, T!Sigpipe, T!prompt_expect_run, T!SetStep,
     T!ConnectStep, T!prompt_run, T!Expect, T!SleepStep, T!CloseStep
<1>3. /\ UNCHANGED <<state, job, force, conn, broken, port, told, shown, bmc>>
      /\ \/ todo' = rest /\ starved' = starved
         \/ todo' = T!OnFailure(f) /\ starved' = starved + 1
  BY <1>1, <1>2 DEF T!fdopen, T!Starve, T!Go, T!FailStep, T!server
<1>4. DialogOK' /\ ConnOK'
  BY <1>3 DEF LinksOK, DialogOK, ConnOK
<1>5. DataOK'
  BY <1>3 DEF LinksOK, DataOK
<1>6. Held' = Held /\ Final' = Final
  BY <1>3 DEF Held, Final
<1>7. QED
  BY <1>3, <1>4, <1>5, <1>6 DEF FdopenStep, Apart, LinksOK

\* The terminal server executes what was typed, or a connection breaks.
OutsideStep ==
  /\ LinksOK' /\ UNCHANGED <<state, todo, job, force, bmc, starved>> /\ Held' = Held
  /\ broken \subseteq broken'
  /\ (Stays' => Final' = Final /\ port' \in {port, Final})
  /\ (conn["ctl"] = "none" => UNCHANGED <<told, shown, port>> /\ conn'["ctl"] = "none" /\ (Stays => Stays'))

\* Execute and Break.
LEMMA OutsideSteps ==
  ASSUME LinksOK, T!Execute \/ \E l \in T!Link : T!Break(l)
  PROVE  OutsideStep
<1>1. CASE T!Execute
  <2>1. /\ told # <<>> /\ conn["ctl"] = "up"
        /\ UNCHANGED <<state, todo, job, force, bmc, starved, conn, broken>>
    BY <1>1 DEF T!Execute, T!culvert
  <2>2. PICK c \in Tells : told = <<c>> /\ shown = <<>>
    BY <2>1 DEF LinksOK, DialogOK
  <2>3. told' = <<>> /\ port' = Effect(c, port)
    <3>1. told[1] = c /\ Tail(told) = <<>>
      BY <2>2
    <3>2. told' = <<>>
      BY <1>1, <3>1 DEF T!Execute
    <3>3. port' = Effect(told[1], port)
      BY <1>1, Zenon DEF T!Execute, Effect
    <3>4. QED BY <3>1, <3>2, <3>3
  <2>4. PICK p \in Prompts : shown' = Append(shown, p) \/ shown' = shown
    BY <1>1 DEF T!Execute, T!Ask, Prompts
  <2>5. shown' = <<p>> \/ shown' = <<>>
    <3>1. Append(<<>>, p) = <<p>>
      OBVIOUS
    <3>2. QED BY <2>2, <2>4, <3>1
  <2>6. DialogOK'
    BY <2>3, <2>5 DEF DialogOK
  <2>7. ConnOK'
    BY <2>1 DEF LinksOK, ConnOK
  <2>8. DataOK'
    <3>1. port' \in Ports
      BY <2>3, Effects DEF LinksOK, DataOK
    <3>2. QED BY <2>1, <3>1 DEF LinksOK, DataOK
  <2>9. Final' = Final /\ port' = Final
    BY <2>2, <2>3 DEF Final
  <2>10. Held' = Held
    BY <2>1 DEF Held
  <2>11. QED
    BY <2>1, <2>6, <2>7, <2>8, <2>9, <2>10 DEF OutsideStep, LinksOK
<1>2. ASSUME NEW l \in T!Link, T!Break(l) PROVE OutsideStep
  <2>1. /\ conn[l] = "up" /\ conn' = [conn EXCEPT ![l] = "reset"] /\ broken' = broken \union {l}
        /\ UNCHANGED <<state, todo, job, force, bmc, starved, port>>
        /\ (l = "ctl" => told' = <<>> /\ shown' = <<>>)
        /\ (l # "ctl" => UNCHANGED <<told, shown>>)
    BY <1>2 DEF T!Break, T!culvert
  <2>2. DialogOK'
    BY <2>1 DEF LinksOK, DialogOK
  <2>3. ConnOK'
    BY <2>1 DEF LinksOK, ConnOK, T!Link
  <2>4. DataOK'
    BY <2>1 DEF LinksOK, DataOK
  <2>5. conn'["ctl"] # "none" <=> conn["ctl"] # "none"
    BY <2>1 DEF LinksOK, ConnOK, T!Link
  <2>6. Held' = Held
    BY <2>5, Zenon DEF Held
  <2>7. Stays' => Final' = Final
    BY <2>1 DEF Stays, Final
  <2>8. conn["ctl"] = "none" => l # "ctl" /\ conn'["ctl"] = "none" /\ (Stays => Stays')
    BY <2>1 DEF LinksOK, ConnOK, T!Link, Stays
  <2>9. QED
    BY <2>1, <2>2, <2>3, <2>4, <2>5, <2>6, <2>7, <2>8 DEF OutsideStep, LinksOK
<1>3. QED BY <1>1, <1>2

\* Neither changes what the port will be like, and culvert's next step is the
\* same.
LEMMA OutsideLogin ==
  ASSUME OutsideStep, LoginOK
  PROVE  LoginOK'
<1>1. /\ UNCHANGED <<state, todo, job, force, bmc>> /\ Held' = Held
      /\ (Stays' => Stays /\ Final' = Final /\ port' \in {port, Final})
      /\ (conn["ctl"] = "none" => UNCHANGED <<told, shown, port>> /\ conn'["ctl"] = "none" /\ (Stays => Stays'))
  BY DEF OutsideStep, Stays
<1>2. /\ Login1' = Login1 /\ Login2' = Login2 /\ Login3' = Login3 /\ Login4' = Login4
      /\ Login5' = Login5 /\ Login6' = Login6 /\ Login7' = Login7 /\ Login8' = Login8
      /\ Login9' = Login9
  BY <1>1, ListsStay
<1>3. ASSUME NEW p, Stays => Soon(p) PROVE Stays' => Final' = p
  BY <1>1, <1>3 DEF Soon
<1>4. ASSUME NEW p, Stays => Now(p) PROVE Stays' => port' = p /\ Final' = p
  BY <1>1, <1>4 DEF Now
<1>5. CASE todo = Login1 /\ conn["ctl"] = "none" /\ Stays /\ told = <<>> /\ shown = <<>> /\ Now(T!Text)
  BY <1>1, <1>2, <1>5 DEF LoginOK, Now, Final
<1>6. CASE Held /\ todo \in {Login2, Login3, Login4, Login5} /\ (Stays => Now(T!Text))
  BY <1>1, <1>2, <1>4, <1>6 DEF LoginOK, Now
<1>7. CASE Held /\ todo = Login6 /\ (Stays => Soon(Pending))
  BY <1>1, <1>2, <1>3, <1>7 DEF LoginOK, Soon
<1>8. CASE Held /\ todo \in {Login7, Login8, Login9} /\ (Stays => Soon(Fast))
  BY <1>1, <1>2, <1>3, <1>8 DEF LoginOK, Soon
<1>9. QED BY <1>5, <1>6, <1>7, <1>8 DEF LoginOK

\* The same on the way into debug mode, ...
LEMMA OutsideEnter ==
  ASSUME OutsideStep, EnterOK
  PROVE  EnterOK'
<1>1. /\ UNCHANGED <<state, todo, job, force, bmc>> /\ Held' = Held
      /\ (Stays' => Stays /\ Final' = Final /\ port' \in {port, Final})
  BY DEF OutsideStep, Stays
<1>2. ASSUME NEW p, Stays => Soon(p) PROVE Stays' => Final' = p
  BY <1>1, <1>2 DEF Soon
<1>3. ASSUME NEW p, Stays => Now(p) PROVE Stays' => port' = p /\ Final' = p
  BY <1>1, <1>3 DEF Now
<1>4. job' \in {"probe", "reinit"} /\ Held'
  BY <1>1 DEF EnterOK
<1>5. CASE todo \in {Quit1, Quit2} /\ (Stays => Soon(Fast))
  BY <1>1, <1>2, <1>4, <1>5 DEF EnterOK, Soon
<1>6. CASE todo = Quit3 /\ (Stays => Now(Fast))
  BY <1>1, <1>3, <1>4, <1>6 DEF EnterOK, Now
<1>7. CASE todo = Up1 /\ (Stays => Soon(Fast) /\ T!Waits)
  BY <1>1, <1>2, <1>4, <1>7 DEF EnterOK, Soon, T!Waits, T!Unquit
<1>8. CASE todo = Up2 /\ (Stays => Soon(Slow) /\ T!Waits)
  BY <1>1, <1>2, <1>4, <1>8 DEF EnterOK, Soon, T!Waits, T!Unquit
<1>9. CASE todo = Up3 /\ (Stays => Now(Slow) /\ T!Waits)
  BY <1>1, <1>3, <1>4, <1>9 DEF EnterOK, Now, T!Waits, T!Unquit
<1>10. CASE todo \in {Up4, Up5} /\ (Stays => Soon(Slow) /\ bmc = "debug")
  BY <1>1, <1>2, <1>4, <1>10 DEF EnterOK, Soon
<1>11. CASE todo = Up6 /\ (Stays => Soon(Fast) /\ bmc = "debug")
  BY <1>1, <1>2, <1>4, <1>11 DEF EnterOK, Soon
<1>12. CASE todo = Up7 /\ (Stays => Now(Fast) /\ bmc = "debug")
  BY <1>1, <1>3, <1>4, <1>12 DEF EnterOK, Now
<1>13. QED BY <1>5, <1>6, <1>7, <1>8, <1>9, <1>10, <1>11, <1>12 DEF EnterOK

\* ... out of it, ...
LEMMA OutsideLeave ==
  ASSUME OutsideStep, ReleaseOK \/ DestroyOK
  PROVE  ReleaseOK' \/ DestroyOK'
<1>1. /\ UNCHANGED <<state, todo, job, force, bmc>> /\ Held' = Held
      /\ (Stays' => Stays /\ Final' = Final /\ port' \in {port, Final})
      /\ (Calm' => Calm /\ Stays')
  BY DEF OutsideStep, Stays, Calm
<1>2. ASSUME NEW p, Stays => Soon(p) PROVE Stays' => Final' = p
  BY <1>1, <1>2 DEF Soon
<1>3. ASSUME NEW p, Stays => Now(p) PROVE Stays' => port' = p /\ Final' = p
  BY <1>1, <1>3 DEF Now
<1>4. CASE ReleaseOK
  <2>1. CASE todo = Exit1(T!Set("released")) /\ (Stays => Now(Fast))
    BY <1>1, <1>3, <1>4, <2>1 DEF ReleaseOK, Now
  <2>2. CASE /\ todo \in {Exit2(T!Set("released")), Exit3(T!Set("released")),
                          Exit4(T!Set("released")), Exit5(T!Set("released"))}
             /\ (Stays => Soon(Fast) /\ bmc = "console")
    BY <1>1, <1>2, <1>4, <2>2 DEF ReleaseOK, Soon
  <2>3. CASE todo = T!Set("released") /\ (Stays => Now(Fast) /\ bmc = "console")
    BY <1>1, <1>3, <1>4, <2>3 DEF ReleaseOK, Now
  <2>4. CASE todo \in {Exit4(<<>>), Exit5(<<>>)} /\ ~Calm
    BY <1>1, <1>4, <2>4 DEF ReleaseOK
  <2>5. QED BY <1>4, <2>1, <2>2, <2>3, <2>4 DEF ReleaseOK
<1>5. CASE DestroyOK
  <2>1. CASE todo = Exit1(Off0) /\ (Calm => Now(Fast))
    <3>1. Calm' => port' = Fast /\ Final' = Fast
      BY <1>1, <2>1 DEF Now
    <3>2. QED BY <1>1, <1>5, <2>1, <3>1 DEF DestroyOK, Now
  <2>2. CASE /\ todo \in {Exit2(Off0), Exit3(Off0), Exit4(Off0), Exit5(Off0)}
             /\ (Calm => Soon(Fast) /\ bmc = "console")
    <3>1. Calm' => Final' = Fast
      BY <1>1, <2>2 DEF Soon
    <3>2. QED BY <1>1, <1>5, <2>2, <3>1 DEF DestroyOK, Soon
  <2>3. QED BY <1>5, <2>1, <2>2 DEF DestroyOK
<1>6. QED BY <1>4, <1>5

\* ... and where culvert gives up or has nothing to do.
LEMMA OutsideEnd ==
  ASSUME OutsideStep
  PROVE  (EndOK => EndOK') /\ (FailedOK => FailedOK') /\ (IdleOK => IdleOK')
<1>1. /\ UNCHANGED <<state, todo, job, force, bmc, starved>> /\ Held' = Held
      /\ (Stays' => Stays /\ Final' = Final /\ port' \in {port, Final})
      /\ (Calm' => Calm /\ Stays') /\ (Spared' => Spared /\ Stays')
      /\ (conn["ctl"] = "none" <=> conn'["ctl"] = "none")
  <2>1. conn["ctl"] = "none" <=> conn'["ctl"] = "none"
    <3>1. conn'["ctl"] # "none" => conn["ctl"] # "none"
      BY DEF OutsideStep
    <3>2. Held' = Held
      BY DEF OutsideStep
    <3>3. QED BY <3>1, <3>2 DEF Held
  <2>2. QED BY <2>1 DEF OutsideStep, Stays, Calm, Spared
<1>2. /\ Left(Final) => Left(Final)'
      /\ (Spared => Plain(Final)) => (Spared' => Plain(Final)')
      /\ Rest => Rest'
  <2>1. Left(Final) => Left(Final)'
    BY <1>1 DEF Left
  <2>2. (Spared => Plain(Final)) => (Spared' => Plain(Final)')
    BY <1>1 DEF Plain
  <2>3. Left(port) /\ Left(Final) => Left(port)'
    BY <1>1 DEF Left
  <2>4. (Spared => Plain(port) /\ Plain(Final)) => (Spared' => Plain(port)')
    BY <1>1 DEF Plain
  <2>5. QED BY <2>1, <2>2, <2>3, <2>4 DEF Rest
<1>3. ASSUME FailedOK PROVE FailedOK'
  <2>1. Failed1' = Failed1 /\ Failed2' = Failed2 /\ Failed3' = Failed3
    BY <1>1, ListsStay
  <2>2. QED BY <1>1, <1>3, <2>1 DEF FailedOK
<1>4. ASSUME EndOK PROVE EndOK'
  <2>1. CASE todo \in {Off0, Off1} /\ Held /\ Left(Final)
    BY <1>1, <1>2, <1>4, <2>1 DEF EndOK
  <2>2. CASE todo = Off2 /\ Held /\ Left(Final) /\ (Stays => ~Final.bin)
    BY <1>1, <1>2, <1>4, <2>2 DEF EndOK
  <2>3. CASE todo = Clean1 /\ ~Calm /\ (Stays => starved >= 1)
    BY <1>1, <1>4, <2>3 DEF EndOK
  <2>4. CASE todo = Clean2 /\ ~Calm /\ (Stays => starved >= 1) /\ (Spared => ~Final.bin)
    BY <1>1, <1>4, <2>4 DEF EndOK
  <2>5. CASE todo = Off3 /\ Left(Final) /\ (Spared => Plain(Final))
    BY <1>1, <1>2, <1>4, <2>5 DEF EndOK
  <2>6. CASE todo = Drop /\ Rest
    BY <1>1, <1>2, <1>4, <2>6 DEF EndOK
  <2>7. CASE todo = End /\ (conn["ctl"] = "none" => Rest)
    BY <1>1, <1>2, <1>4, <2>7 DEF EndOK
  <2>8. QED BY <1>4, <2>1, <2>2, <2>3, <2>4, <2>5, <2>6, <2>7 DEF EndOK
<1>5. ASSUME IdleOK PROVE IdleOK'
  <2>1. ASSUME Stays => Now(Fast) PROVE Stays' => Now(Fast)'
    BY <1>1, <2>1 DEF Now
  <2>2. QED BY <1>1, <1>2, <1>5, <2>1 DEF IdleOK
<1>6. QED BY <1>3, <1>4, <1>5, Zenon

\* So culvert is where it was.
LEMMA OutsidePlace ==
  ASSUME OutsideStep, PlaceOK
  PROVE  LinksOK' /\ PlaceOK'
<1>1. LinksOK' /\ state' = state
  BY DEF OutsideStep
<1>2. CASE IdleOK
  BY <1>1, <1>2, OutsideEnd DEF PlaceOK
<1>3. CASE state = "off" /\ ~IdleOK
  <2>1. state' = "off"
    BY <1>1, <1>3
  <2>2. LoginOK' \/ EnterOK' \/ FailedOK' \/ (ReleaseOK' \/ DestroyOK') \/ EndOK'
    BY <1>3, OutsideLogin, OutsideEnter, OutsideLeave, OutsideEnd DEF PlaceOK
  <2>3. QED BY <1>1, <2>1, <2>2 DEF PlaceOK
<1>4. QED
  BY <1>2, <1>3 DEF PlaceOK

\* Nor does it move when nothing happens.
LEMMA StillPlace ==
  ASSUME LinksOK, PlaceOK,
         UNCHANGED <<state, todo, job, force, bmc, starved, conn, broken, port, told, shown>>
  PROVE  LinksOK' /\ PlaceOK'
<1>1. LinksOK'
  BY DEF LinksOK, DialogOK, ConnOK, DataOK
<1>2. Held' = Held /\ Final' = Final
  BY Zenon DEF Held, Final
<1>3. OutsideStep
  BY <1>1, <1>2 DEF OutsideStep, Stays
<1>4. QED BY <1>3, OutsidePlace

-----------------------------------------------------------------------------
(***************************************************************************)
(* From place to place.                                                    *)
(***************************************************************************)
\* A function that failed returns: to ts16_control_destroy(), or to the
\* command.
LEMMA GivenUp ==
  ASSUME LinksOK, Apart, state = "off", state' = state, Held', ~Calm', todo' = T!Return
  PROVE  PlaceOK'
<1>1. T!Return = IF job \in {"probe", "destroy"} THEN Off0 ELSE <<>>
  BY OnFailures
<1>2. Left(Final)'
  BY DEF Left
<1>3. CASE job \in {"probe", "destroy"}
  BY <1>1, <1>2, <1>3 DEF PlaceOK, EndOK, Apart
<1>4. CASE job \notin {"probe", "destroy"}
  BY <1>1, <1>4 DEF PlaceOK, IdleOK
<1>5. QED BY <1>3, <1>4

\* A failure is behind culvert: it stays that way.
LEMMA Marred ==
  ASSUME LinksOK, Apart, starved' = starved \/ starved' = starved + 1
  PROVE  /\ Stays' = Stays /\ (~Calm => ~Calm') /\ (Spared' => Spared)
         /\ (starved' = starved + 1 => ~Calm') /\ (broken # {} => ~Calm') /\ (~Stays => ~Calm')
<1>1. starved \in Nat /\ broken' = broken
  BY DEF LinksOK, DataOK, Apart
<1>2. Stays' = Stays
  BY <1>1, Zenon DEF Stays
<1>3. (~Calm => ~Calm') /\ (starved' = starved + 1 => ~Calm') /\ (broken # {} => ~Calm')
  BY <1>1 DEF Calm
<1>4. (Spared' => Spared) /\ (~Stays => ~Calm')
  BY <1>1, <1>2 DEF Spared, Calm, Stays
<1>5. QED BY <1>2, <1>3, <1>4

\* Before the connection to the port.
LEMMA LoginPlace ==
  ASSUME LinksOK, LoginOK, state = "off", T!Step \/ T!Starve
  PROVE  LinksOK' /\ PlaceOK'
<1>1. /\ {"user", "password", "on", "kill"} \subseteq Tells /\ {"ctl", "raw"} \subseteq T!Link
      /\ {"drop", "cleanup_port", "console_destroy"} \subseteq Failures
  BY DEF Tells, T!Link, Failures
<1>2. job = "probe"
  BY DEF LoginOK
<1>3. ASSUME UNCHANGED <<job, force>>
      PROVE  /\ Login2' = Login2 /\ Login3' = Login3 /\ Login4' = Login4 /\ Login5' = Login5
             /\ Login6' = Login6 /\ Login7' = Login7 /\ Login8' = Login8 /\ Login9' = Login9
  BY <1>3, ListsStay
<1>4. Plain(T!Text)
  BY DEF Plain, T!Text
<1>5. ASSUME LinksOK', Apart, state' = state, todo' = Drop, Final' = Final,
             Stays' => Now(T!Text)
      PROVE  PlaceOK'
  <2>1. Left(port)' /\ Left(Final)'
    BY <1>2, <1>5 DEF Left, Apart
  <2>2. Spared' => Plain(port)' /\ Plain(Final)'
    BY <1>4, <1>5 DEF Spared, Now, Apart, Plain
  <2>3. Rest'
    BY <2>1, <2>2 DEF Rest
  <2>4. QED BY <1>2, <1>5, <2>3 DEF PlaceOK, EndOK, Apart
<1>6. ASSUME Apart, state' = state, todo' = Off1, Held'
      PROVE  PlaceOK'
  <2>1. Left(Final)'
    BY <1>2, <1>6 DEF Left, Apart
  <2>2. QED BY <1>2, <1>6, <2>1 DEF PlaceOK, EndOK, Apart
<1>7. CASE todo = Login1 /\ Stays /\ told = <<>> /\ shown = <<>> /\ Now(T!Text)
  <2>1. ConnectStep("ctl", "drop", Login2)
    BY <1>1, <1>7, LoginSteps, ConnectSteps
  <2>2. LinksOK' /\ Apart /\ state' = state /\ bmc' = bmc /\ Final' = Final
    BY <2>1 DEF ConnectStep
  <2>3. CASE todo' = Login2 /\ Held'
    <3>1. Now(T!Text)'
      BY <1>7, <2>2 DEF Now, Apart
    <3>2. LoginOK'
      BY <1>2, <1>3, <2>2, <2>3, <3>1 DEF LoginOK, Apart
    <3>3. QED BY <2>2, <3>2 DEF PlaceOK
  <2>4. CASE todo' = Drop
    BY <1>5, <1>7, <2>2, <2>4
  <2>5. QED BY <2>1, <2>3, <2>4, OnFailures DEF ConnectStep
<1>8. CASE Held /\ todo = Login2 /\ (Stays => Now(T!Text))
  <2>1. FdopenStep("drop", Login3)
    BY <1>1, <1>8, LoginSteps, FdopenSteps
  <2>2. /\ LinksOK' /\ Apart /\ state' = state /\ bmc' = bmc /\ Final' = Final /\ Held'
        /\ Stays' = Stays
    BY <1>8, <2>1, Marred DEF FdopenStep
  <2>3. CASE todo' = Login3
    <3>1. Stays' => Now(T!Text)'
      BY <1>8, <2>2 DEF Now, Apart
    <3>2. LoginOK'
      BY <1>2, <1>3, <2>2, <2>3, <3>1 DEF LoginOK, Apart
    <3>3. QED BY <2>2, <3>2 DEF PlaceOK
  <2>4. CASE todo' = Drop
    BY <1>5, <1>8, <2>2, <2>4
  <2>5. QED BY <2>1, <2>3, <2>4, OnFailures DEF FdopenStep
<1>9. ASSUME NEW c \in {"user", "password", "on"}, NEW rest, TellStep(c, "drop", rest),
             Held, Stays => Now(T!Text)
      PROVE  /\ LinksOK' /\ Apart /\ state' = state /\ bmc' = bmc /\ Held' /\ Stays' = Stays
             /\ \/ todo' = rest /\ (Stays' => port' = T!Text /\ Final' = Effect(c, T!Text))
                \/ PlaceOK'
  <2>1. LinksOK' /\ Apart /\ state' = state /\ bmc' = bmc /\ Held' /\ Stays' = Stays
    BY <1>9, Marred DEF TellStep
  <2>2. CASE todo' = rest /\ Final' = Effect(c, port)
    BY <1>9, <2>1, <2>2 DEF Now, Apart
  <2>3. CASE todo' = Drop /\ Final' = Final
    BY <1>5, <1>9, <2>1, <2>3
  <2>4. QED BY <1>9, <2>1, <2>2, <2>3, OnFailures DEF TellStep
<1>10. CASE Held /\ todo = Login3 /\ (Stays => Now(T!Text))
  <2>1. TellStep("user", "drop", Login4)
    BY <1>1, <1>10, LoginSteps, TellSteps
  <2>2. /\ LinksOK' /\ Apart /\ state' = state /\ bmc' = bmc /\ Held' /\ Stays' = Stays
        /\ \/ todo' = Login4 /\ (Stays' => port' = T!Text /\ Final' = T!Text)
           \/ PlaceOK'
    BY <1>9, <1>10, <2>1, Effects
  <2>3. CASE todo' = Login4 /\ (Stays' => port' = T!Text /\ Final' = T!Text)
    <3>1. LoginOK'
      BY <1>2, <1>3, <2>2, <2>3 DEF LoginOK, Apart, Now
    <3>2. QED BY <2>2, <3>1 DEF PlaceOK
  <2>4. QED BY <2>2, <2>3
<1>11. CASE Held /\ todo = Login4 /\ (Stays => Now(T!Text))
  <2>1. TellStep("password", "drop", Login5)
    BY <1>1, <1>11, LoginSteps, TellSteps
  <2>2. /\ LinksOK' /\ Apart /\ state' = state /\ bmc' = bmc /\ Held' /\ Stays' = Stays
        /\ \/ todo' = Login5 /\ (Stays' => port' = T!Text /\ Final' = T!Text)
           \/ PlaceOK'
    BY <1>9, <1>11, <2>1, Effects
  <2>3. CASE todo' = Login5 /\ (Stays' => port' = T!Text /\ Final' = T!Text)
    <3>1. LoginOK'
      BY <1>2, <1>3, <2>2, <2>3 DEF LoginOK, Apart, Now
    <3>2. QED BY <2>2, <3>1 DEF PlaceOK
  <2>4. QED BY <2>2, <2>3
<1>12. CASE Held /\ todo = Login5 /\ (Stays => Now(T!Text))
  <2>1. TellStep("on", "drop", Login6)
    BY <1>1, <1>12, LoginSteps, TellSteps
  <2>2. /\ LinksOK' /\ Apart /\ state' = state /\ bmc' = bmc /\ Held' /\ Stays' = Stays
        /\ \/ todo' = Login6 /\ (Stays' => Final' = Pending)
           \/ PlaceOK'
    BY <1>9, <1>12, <2>1, Effects
  <2>3. CASE todo' = Login6 /\ (Stays' => Final' = Pending)
    <3>1. LoginOK'
      BY <1>2, <1>3, <2>2, <2>3 DEF LoginOK, Apart, Soon
    <3>2. QED BY <2>2, <3>1 DEF PlaceOK
  <2>4. QED BY <2>2, <2>3
<1>13. CASE Held /\ todo = Login6 /\ (Stays => Soon(Pending))
  <2>1. TellStep("kill", "cleanup_port", Login7)
    BY <1>1, <1>13, LoginSteps, TellSteps
  <2>2. LinksOK' /\ Apart /\ state' = state /\ bmc' = bmc /\ Held' /\ Stays' = Stays
    BY <1>13, <2>1, Marred DEF TellStep
  <2>3. CASE todo' = Login7 /\ Final = port /\ Final' = Effect("kill", port)
    <3>1. Stays' => Soon(Fast)'
      BY <1>13, <2>2, <2>3, Effects DEF Soon
    <3>2. LoginOK'
      BY <1>2, <1>3, <2>2, <2>3, <3>1 DEF LoginOK, Apart
    <3>3. QED BY <2>2, <3>2 DEF PlaceOK
  <2>4. CASE todo' = Clean1 /\ (starved' = starved + 1 \/ (starved' = starved /\ ~Stays))
    <3>1. ~Calm' /\ (Stays' => starved' >= 1)
      BY <2>2, <2>4, Marred DEF LinksOK, DataOK
    <3>2. EndOK'
      BY <1>2, <2>2, <2>4, <3>1 DEF EndOK, Apart
    <3>3. QED BY <2>2, <3>2 DEF PlaceOK
  <2>5. QED BY <2>1, <2>3, <2>4, OnFailures DEF TellStep
<1>14. CASE Held /\ todo = Login7 /\ (Stays => Soon(Fast))
  <2>1. SleepStep(Login8)
    BY <1>14, LoginSteps, SleepSteps
  <2>2. /\ LinksOK' /\ Apart /\ state' = state /\ bmc' = bmc /\ Held' /\ Stays' = Stays
        /\ Final' = Final /\ todo' = Login8
    BY <1>14, <2>1, Marred DEF SleepStep
  <2>3. LoginOK'
    BY <1>2, <1>3, <1>14, <2>2 DEF LoginOK, Apart, Soon
  <2>4. QED BY <2>2, <2>3 DEF PlaceOK
<1>15. CASE Held /\ todo = Login8 /\ (Stays => Soon(Fast))
  <2>1. ConnectStep("raw", "console_destroy", Login9)
    BY <1>1, <1>15, LoginSteps, ConnectSteps
  <2>2. /\ LinksOK' /\ Apart /\ state' = state /\ bmc' = bmc /\ Held' /\ Stays' = Stays
        /\ Final' = Final
    BY <1>15, <2>1, Marred DEF ConnectStep
  <2>3. CASE todo' = Login9
    <3>1. LoginOK'
      BY <1>2, <1>3, <1>15, <2>2, <2>3 DEF LoginOK, Apart, Soon
    <3>2. QED BY <2>2, <3>1 DEF PlaceOK
  <2>4. CASE todo' = Off1
    BY <1>6, <2>2, <2>4
  <2>5. QED BY <2>1, <2>3, <2>4, OnFailures DEF ConnectStep
<1>16. CASE Held /\ todo = Login9 /\ (Stays => Soon(Fast))
  <2>1. FdopenStep("console_destroy", T!debug_enter)
    BY <1>1, <1>16, LoginSteps, FdopenSteps
  <2>2. /\ LinksOK' /\ Apart /\ state' = state /\ bmc' = bmc /\ Held' /\ Stays' = Stays
        /\ Final' = Final
    BY <1>16, <2>1, Marred DEF FdopenStep
  <2>3. CASE todo' = T!debug_enter
    <3>1. Stays' => Soon(Fast)'
      BY <1>16, <2>2 DEF Soon
    <3>2. EnterOK'
      BY <1>2, <2>2, <2>3, <3>1, Lists DEF EnterOK, Apart, T!Waits, T!Unquit
    <3>3. QED BY <2>2, <3>2 DEF PlaceOK
  <2>4. CASE todo' = Off1
    BY <1>6, <2>2, <2>4
  <2>5. QED BY <2>1, <2>3, <2>4, OnFailures DEF FdopenStep
<1>17. QED
  BY <1>7, <1>8, <1>10, <1>11, <1>12, <1>13, <1>14, <1>15, <1>16 DEF LoginOK

\* The entry to debug mode.
LEMMA EnterPlace ==
  ASSUME LinksOK, EnterOK, state = "off", T!Step \/ T!Starve
  PROVE  LinksOK' /\ PlaceOK'
<1>1. /\ {"115200", "1200"} \subseteq Tells /\ {"return", "cleanup_port_password"} \subseteq Failures
  BY DEF Tells, T!Baud, Failures
<1>2. job \in {"probe", "reinit"} /\ Held
  BY DEF EnterOK
<1>3. ASSUME LinksOK', Apart, state' = state, Held', ~Calm', todo' = Failed1
      PROVE  PlaceOK'
  <2>1. Failed1' = Failed1
    BY <1>3, ListsStay DEF Apart
  <2>2. FailedOK'
    BY <1>2, <1>3, <2>1 DEF FailedOK, Apart
  <2>3. QED BY <1>3, <2>2 DEF PlaceOK
<1>4. ASSUME EnterOK', state' = state
      PROVE  PlaceOK'
  BY <1>4 DEF PlaceOK
<1>5. ASSUME NEW c \in Tells, NEW rest, TellStep(c, "return", rest)
      PROVE  /\ LinksOK' /\ Apart /\ state' = state /\ bmc' = bmc /\ Held' /\ Stays' = Stays
             /\ job' \in {"probe", "reinit"}
             /\ \/ todo' = rest /\ Final = port /\ Final' = Effect(c, port)
                \/ PlaceOK'
  <2>1. /\ LinksOK' /\ Apart /\ state' = state /\ bmc' = bmc /\ Held' /\ Stays' = Stays
        /\ job' \in {"probe", "reinit"}
    BY <1>2, <1>5, Marred DEF TellStep, Apart
  <2>2. CASE todo' = T!OnFailure("return") /\ (starved' = starved + 1 \/ (starved' = starved /\ ~Stays))
    <3>1. ~Calm'
      BY <2>1, <2>2, Marred
    <3>2. PlaceOK'
      BY <2>1, <2>2, <3>1, GivenUp, OnFailures
    <3>3. QED BY <2>1, <3>2
  <2>3. QED BY <1>5, <2>1, <2>2 DEF TellStep
<1>6. ASSUME NEW rest, SleepStep(rest)
      PROVE  /\ LinksOK' /\ Apart /\ state' = state /\ bmc' = bmc /\ Held' /\ Stays' = Stays
             /\ job' \in {"probe", "reinit"} /\ todo' = rest /\ Final = port /\ Final' = Final
  BY <1>2, <1>6, Marred DEF SleepStep, Apart
<1>7. CASE todo = Quit1 /\ (Stays => Soon(Fast))
  <2>1. TellStep("115200", "return", Quit2)
    BY <1>1, <1>7, EnterSteps, TellSteps
  <2>2. CASE todo' = Quit2 /\ Final = port /\ Final' = Effect("115200", port)
    <3>1. Stays' => Soon(Fast)'
      BY <1>1, <1>5, <1>7, <2>1, <2>2, Effects DEF Soon
    <3>2. EnterOK'
      BY <1>1, <1>5, <2>1, <2>2, <3>1 DEF EnterOK
    <3>3. QED BY <1>1, <1>4, <1>5, <2>1, <3>2
  <2>3. QED BY <1>1, <1>5, <2>1, <2>2
<1>8. CASE todo = Quit2 /\ (Stays => Soon(Fast))
  <2>1. SleepStep(Quit3)
    BY <1>8, EnterSteps, SleepSteps
  <2>2. Stays' => Now(Fast)'
    BY <1>6, <1>8, <2>1 DEF Soon, Now, Apart
  <2>3. EnterOK'
    BY <1>6, <2>1, <2>2 DEF EnterOK
  <2>4. QED BY <1>4, <1>6, <2>1, <2>3
<1>9. CASE todo = Quit3 /\ (Stays => Now(Fast))
  <2>1. RunStep("q", "return", Up1)
    BY <1>1, <1>9, EnterSteps, RunSteps
  <2>2. LinksOK' /\ Apart /\ Held' /\ Stays' = Stays /\ Final' = Final /\ (broken # {} => ~Calm')
    BY <1>2, <2>1, Marred DEF RunStep
  <2>3. CASE state' = "killed" /\ todo' = <<>>
    BY <2>2, <2>3 DEF PlaceOK, IdleOK
  <2>4. CASE state' = state /\ todo' = T!OnFailure("return") /\ broken # {}
    BY <2>2, <2>4, GivenUp, OnFailures
  <2>5. CASE state' = state /\ todo' = Up1 /\ (port = Fast => bmc' = "console")
    <3>1. Stays' => Soon(Fast)' /\ T!Waits'
      BY <1>9, <2>2, <2>5 DEF Soon, Now, T!Waits
    <3>2. EnterOK'
      BY <1>2, <2>2, <2>5, <3>1 DEF EnterOK, Apart
    <3>3. QED BY <1>4, <2>2, <2>5, <3>2
  <2>6. QED BY <2>1, <2>3, <2>4, <2>5 DEF RunStep
<1>10. CASE todo = Up1 /\ (Stays => Soon(Fast) /\ T!Waits)
  <2>1. TellStep("1200", "return", Up2)
    BY <1>1, <1>10, EnterSteps, TellSteps
  <2>2. CASE todo' = Up2 /\ Final = port /\ Final' = Effect("1200", port)
    <3>1. Stays' => Soon(Slow)'
      BY <1>1, <1>5, <1>10, <2>1, <2>2, Effects DEF Soon
    <3>4. Stays' => T!Waits'
      BY <1>1, <1>5, <1>10, <2>1 DEF Apart, T!Waits, T!Unquit
    <3>2. EnterOK'
      BY <1>1, <1>5, <2>1, <2>2, <3>1, <3>4 DEF EnterOK
    <3>3. QED BY <1>1, <1>4, <1>5, <2>1, <3>2
  <2>3. QED BY <1>1, <1>5, <2>1, <2>2
<1>11. CASE todo = Up2 /\ (Stays => Soon(Slow) /\ T!Waits)
  <2>1. SleepStep(Up3)
    BY <1>11, EnterSteps, SleepSteps
  <2>2. Stays' => Now(Slow)' /\ T!Waits'
    BY <1>6, <1>11, <2>1 DEF Soon, Now, Apart, T!Waits, T!Unquit
  <2>3. EnterOK'
    BY <1>6, <2>1, <2>2 DEF EnterOK
  <2>4. QED BY <1>4, <1>6, <2>1, <2>3
<1>12. CASE todo = Up3 /\ (Stays => Now(Slow) /\ T!Waits)
  <2>1. RunStep("password", "cleanup_port_password", Up4)
    BY <1>1, <1>12, EnterSteps, RunSteps
  <2>2. LinksOK' /\ Apart /\ Held' /\ Stays' = Stays /\ Final' = Final /\ (broken # {} => ~Calm')
    BY <1>2, <2>1, Marred DEF RunStep
  <2>3. CASE state' = "killed" /\ todo' = <<>>
    BY <2>2, <2>3 DEF PlaceOK, IdleOK
  <2>4. CASE state' = state /\ todo' = Failed1 /\ broken # {}
    BY <1>3, <2>2, <2>4
  <2>5. CASE state' = state /\ todo' = Up4 /\ (port = Slow => bmc' = "debug")
    <3>1. Stays' => Soon(Slow)' /\ bmc' = "debug"
      BY <1>12, <2>2, <2>5 DEF Soon, Now
    <3>2. EnterOK'
      BY <1>2, <2>2, <2>5, <3>1 DEF EnterOK, Apart
    <3>3. QED BY <1>4, <2>2, <2>5, <3>2
  <2>6. bmc \in {"console", "debug"}
    BY DEF LinksOK, DataOK
  <2>7. QED BY <2>1, <2>3, <2>4, <2>5, <2>6, OnFailures DEF RunStep
<1>13. CASE todo = Up4 /\ (Stays => Soon(Slow) /\ bmc = "debug")
  <2>1. ExpectStep("cleanup_port_password", Up5)
    BY <1>1, <1>13, EnterSteps, ExpectSteps
  <2>2. /\ LinksOK' /\ Apart /\ state' = state /\ bmc' = bmc /\ Held' /\ Stays' = Stays
        /\ Final' = Final /\ (broken # {} => ~Calm')
    BY <1>2, <2>1, Marred DEF ExpectStep
  <2>3. CASE todo' = Failed1 /\ broken # {}
    BY <1>3, <2>2, <2>3
  <2>4. CASE todo' = Up5
    <3>1. EnterOK'
      BY <1>2, <1>13, <2>2, <2>4 DEF EnterOK, Apart, Soon
    <3>2. QED BY <1>4, <2>2, <3>1
  <2>5. QED BY <2>1, <2>3, <2>4, OnFailures DEF ExpectStep
<1>14. CASE todo = Up5 /\ (Stays => Soon(Slow) /\ bmc = "debug")
  <2>1. TellStep("115200", "return", Up6)
    BY <1>1, <1>14, EnterSteps, TellSteps
  <2>2. CASE todo' = Up6 /\ Final = port /\ Final' = Effect("115200", port)
    <3>1. Stays' => Soon(Fast)' /\ bmc' = "debug"
      BY <1>1, <1>5, <1>14, <2>1, <2>2, Effects DEF Soon
    <3>2. EnterOK'
      BY <1>1, <1>5, <2>1, <2>2, <3>1 DEF EnterOK
    <3>3. QED BY <1>1, <1>4, <1>5, <2>1, <3>2
  <2>3. QED BY <1>1, <1>5, <2>1, <2>2
<1>15. CASE todo = Up6 /\ (Stays => Soon(Fast) /\ bmc = "debug")
  <2>1. SleepStep(Up7)
    BY <1>15, EnterSteps, SleepSteps
  <2>2. Stays' => Now(Fast)' /\ bmc' = "debug"
    BY <1>6, <1>15, <2>1 DEF Soon, Now, Apart
  <2>3. EnterOK'
    BY <1>6, <2>1, <2>2 DEF EnterOK
  <2>4. QED BY <1>4, <1>6, <2>1, <2>3
<1>16. CASE todo = Up7 /\ (Stays => Now(Fast) /\ bmc = "debug")
  <2>1. SetStep("up", <<>>)
    BY <1>16, EnterSteps, SetSteps
  <2>2. /\ LinksOK' /\ Apart /\ state' = "up" /\ todo' = <<>> /\ bmc' = bmc /\ Held'
        /\ Stays' = Stays /\ Final' = Final
    BY <1>2, <2>1, Marred DEF SetStep
  <2>3. Stays' => Now(Fast)' /\ bmc' = "debug"
    BY <1>16, <2>2 DEF Now, Apart
  <2>4. IdleOK'
    BY <2>2, <2>3 DEF IdleOK
  <2>5. QED BY <2>2, <2>4 DEF PlaceOK
<1>17. QED
  BY <1>7, <1>8, <1>9, <1>10, <1>11, <1>12, <1>13, <1>14, <1>15, <1>16 DEF EnterOK

\* A failed entry to debug mode.
LEMMA FailedPlace ==
  ASSUME LinksOK, FailedOK, state = "off", T!Step \/ T!Starve
  PROVE  LinksOK' /\ PlaceOK'
<1>1. "115200" \in Tells /\ {"return", "run_empty"} \subseteq Failures
  BY DEF Tells, T!Baud, Failures
<1>2. job \in {"probe", "reinit"} /\ Held /\ ~Calm
  BY DEF FailedOK
<1>3. ASSUME LinksOK', Apart, state' = state, Held', ~Calm', todo' \in {Failed2, Failed3}
      PROVE  PlaceOK'
  <2>1. Failed2' = Failed2 /\ Failed3' = Failed3
    BY <1>3, ListsStay DEF Apart
  <2>2. FailedOK'
    BY <1>2, <1>3, <2>1 DEF FailedOK, Apart
  <2>3. QED BY <1>3, <2>2 DEF PlaceOK
<1>4. CASE todo = Failed1
  <2>1. TellStep("115200", "run_empty", Failed2)
    BY <1>1, <1>4, FailedSteps, TellSteps
  <2>2. LinksOK' /\ Apart /\ state' = state /\ Held' /\ ~Calm'
    BY <1>2, <2>1, Marred DEF TellStep
  <2>3. todo' \in {Failed2, Failed3}
    BY <2>1, OnFailures DEF TellStep
  <2>4. QED BY <1>3, <2>2, <2>3
<1>5. CASE todo = Failed2
  <2>1. SleepStep(Failed3)
    BY <1>5, FailedSteps, SleepSteps
  <2>2. LinksOK' /\ Apart /\ state' = state /\ Held' /\ ~Calm' /\ todo' = Failed3
    BY <1>2, <2>1, Marred DEF SleepStep
  <2>3. QED BY <1>3, <2>2
<1>6. CASE todo = Failed3
  <2>1. RunStep("", "return", T!Return)
    BY <1>1, <1>6, FailedSteps, RunSteps
  <2>2. LinksOK' /\ Apart /\ Held' /\ ~Calm'
    BY <1>2, <2>1, Marred DEF RunStep
  <2>3. CASE state' = "killed" /\ todo' = <<>>
    BY <2>2, <2>3 DEF PlaceOK, IdleOK
  <2>4. CASE state' = state /\ todo' = T!Return
    BY <2>2, <2>4, GivenUp
  <2>5. QED BY <2>1, <2>2, <2>3, <2>4, OnFailures DEF RunStep
<1>7. QED
  BY <1>4, <1>5, <1>6 DEF FailedOK

\* The release of the bridge.
LEMMA ReleasePlace ==
  ASSUME LinksOK, ReleaseOK, state = "off", T!Step \/ T!Starve
  PROVE  LinksOK' /\ PlaceOK'
<1> DEFINE rest == T!Set("released")
<1>1. /\ "115200" \in Tells /\ {"return", "ignore_empty"} \subseteq Failures
      /\ rest \in Seq(Steps) /\ <<>> \in Seq(Steps)
  <2>1. <<>> \in Seq(Steps)
    OBVIOUS
  <2>2. QED BY <2>1, Scripts DEF Tells, T!Baud, Failures
<1>2. job = "release" /\ Held /\ T!Return = <<>>
  BY OnFailures DEF ReleaseOK
<1>3. Leads(rest, <<"set", "released", "">>, <<>>)
  <2>1. <<"set", "released", "">> \in Steps
    BY DEF Steps
  <2>2. QED BY <1>1, <2>1, First DEF T!Set
<1> HIDE DEF rest
<1>4. ASSUME LinksOK', Apart, state' = state, Held',
             todo' \in {Exit2(rest), Exit3(rest), Exit4(rest), Exit5(rest)},
             Stays' => Soon(Fast)' /\ bmc' = "console"
      PROVE  PlaceOK'
  <2>1. ReleaseOK'
    BY <1>2, <1>4 DEF ReleaseOK, Apart, rest
  <2>2. QED BY <1>4, <2>1 DEF PlaceOK
<1>5. ASSUME LinksOK', Apart, state' = state, Held', ~Calm',
             todo' \in {Exit4(<<>>), Exit5(<<>>)}
      PROVE  PlaceOK'
  <2>1. ReleaseOK'
    BY <1>2, <1>5 DEF ReleaseOK, Apart
  <2>2. QED BY <1>5, <2>1 DEF PlaceOK
<1>6. CASE todo = Exit1(rest) /\ (Stays => Now(Fast))
  <2>1. RunStep("q", "return", Exit2(rest))
    BY <1>1, <1>6, ExitSteps, RunSteps
  <2>2. LinksOK' /\ Apart /\ Held' /\ Stays' = Stays /\ Final' = Final /\ (broken # {} => ~Calm')
    BY <1>2, <2>1, Marred DEF RunStep
  <2>3. CASE state' = "killed" /\ todo' = <<>>
    BY <2>2, <2>3 DEF PlaceOK, IdleOK
  <2>4. CASE state' = state /\ todo' = T!Return /\ broken # {}
    BY <2>2, <2>4, GivenUp
  <2>5. CASE state' = state /\ todo' = Exit2(rest) /\ (port = Fast => bmc' = "console")
    <3>1. Stays' => Soon(Fast)' /\ bmc' = "console"
      BY <1>6, <2>2, <2>5 DEF Soon, Now
    <3>2. QED BY <1>4, <2>2, <2>5, <3>1
  <2>6. QED BY <2>1, <2>3, <2>4, <2>5, OnFailures DEF RunStep
<1>7. CASE todo = Exit2(rest) /\ (Stays => Soon(Fast) /\ bmc = "console")
  <2>1. SleepStep(Exit3(rest))
    BY <1>1, <1>7, ExitSteps, SleepSteps
  <2>2. /\ LinksOK' /\ Apart /\ state' = state /\ bmc' = bmc /\ Held' /\ Stays' = Stays
        /\ Final' = Final /\ todo' = Exit3(rest)
    BY <1>2, <2>1, Marred DEF SleepStep
  <2>3. QED BY <1>4, <1>7, <2>2 DEF Soon
<1>8. CASE todo = Exit3(rest) /\ (Stays => Soon(Fast) /\ bmc = "console")
  <2>1. RunStep("", "ignore_empty", Exit4(rest))
    BY <1>1, <1>8, ExitSteps, RunSteps
  <2>2. LinksOK' /\ Apart /\ Held' /\ Stays' = Stays /\ Final' = Final /\ (broken # {} => ~Calm')
    BY <1>2, <2>1, Marred DEF RunStep
  <2>3. CASE state' = "killed" /\ todo' = <<>>
    BY <2>2, <2>3 DEF PlaceOK, IdleOK
  <2>4. CASE state' = state /\ todo' = Exit4(<<>>) /\ broken # {}
    BY <1>5, <2>2, <2>4
  <2>5. CASE state' = state /\ todo' = Exit4(rest) /\ bmc' = bmc
    BY <1>4, <1>8, <2>2, <2>5 DEF Soon
  <2>6. QED BY <1>2, <2>1, <2>3, <2>4, <2>5, OnFailures DEF RunStep
<1>9. CASE todo = Exit4(rest) /\ (Stays => Soon(Fast) /\ bmc = "console")
  <2>1. TellStep("115200", "return", Exit5(rest))
    BY <1>1, <1>9, ExitSteps, TellSteps
  <2>2. LinksOK' /\ Apart /\ state' = state /\ bmc' = bmc /\ Held' /\ Stays' = Stays
    BY <1>2, <2>1, Marred DEF TellStep
  <2>3. CASE todo' = Exit5(rest) /\ Final = port /\ Final' = Effect("115200", port)
    <3>1. Stays' => Soon(Fast)' /\ bmc' = "console"
      BY <1>9, <2>2, <2>3, Effects DEF Soon
    <3>2. QED BY <1>4, <2>2, <2>3, <3>1
  <2>4. CASE todo' = T!Return /\ (starved' = starved + 1 \/ (starved' = starved /\ ~Stays))
    <3>1. ~Calm'
      BY <2>2, <2>4, Marred
    <3>2. QED BY <2>2, <2>4, <3>1, GivenUp
  <2>5. QED BY <2>1, <2>3, <2>4, OnFailures DEF TellStep
<1>10. CASE todo = Exit5(rest) /\ (Stays => Soon(Fast) /\ bmc = "console")
  <2>1. SleepStep(rest)
    BY <1>1, <1>10, ExitSteps, SleepSteps
  <2>2. /\ LinksOK' /\ Apart /\ state' = state /\ bmc' = bmc /\ Held' /\ Stays' = Stays
        /\ Final' = Final /\ Final = port /\ todo' = rest
    BY <1>2, <2>1, Marred DEF SleepStep
  <2>3. Stays' => Now(Fast)' /\ bmc' = "console"
    BY <1>10, <2>2 DEF Soon, Now, Apart
  <2>4. ReleaseOK'
    BY <1>2, <2>2, <2>3 DEF ReleaseOK, Apart, rest
  <2>5. QED BY <2>2, <2>4 DEF PlaceOK
<1>11. CASE todo = rest /\ (Stays => Now(Fast) /\ bmc = "console")
  <2>1. SetStep("released", <<>>)
    BY <1>3, <1>11, SetSteps
  <2>2. /\ LinksOK' /\ Apart /\ state' = "released" /\ todo' = <<>> /\ bmc' = bmc /\ Held'
        /\ Stays' = Stays /\ Final' = Final
    BY <1>2, <2>1, Marred DEF SetStep
  <2>3. Stays' => Now(Fast)' /\ bmc' = "console"
    BY <1>11, <2>2 DEF Now, Apart
  <2>4. IdleOK'
    BY <2>2, <2>3 DEF IdleOK
  <2>5. QED BY <2>2, <2>4 DEF PlaceOK
<1>12. CASE todo = Exit4(<<>>) /\ ~Calm
  <2>1. TellStep("115200", "return", Exit5(<<>>))
    BY <1>1, <1>12, ExitSteps, TellSteps
  <2>2. LinksOK' /\ Apart /\ state' = state /\ Held' /\ ~Calm'
    BY <1>2, <1>12, <2>1, Marred DEF TellStep
  <2>3. todo' = Exit5(<<>>) \/ todo' = T!Return
    BY <2>1, OnFailures DEF TellStep
  <2>4. QED BY <1>5, <2>2, <2>3, GivenUp
<1>13. CASE todo = Exit5(<<>>) /\ ~Calm
  <2>1. SleepStep(<<>>)
    BY <1>1, <1>13, ExitSteps, SleepSteps
  <2>2. LinksOK' /\ Apart /\ state' = state /\ Held' /\ ~Calm' /\ todo' = T!Return
    BY <1>2, <1>13, <2>1, Marred DEF SleepStep
  <2>3. QED BY <2>2, GivenUp
<1>14. QED
  BY <1>6, <1>7, <1>8, <1>9, <1>10, <1>11, <1>12, <1>13 DEF ReleaseOK, rest

\* The bridge leaves debug mode on the way to its end.
LEMMA DestroyPlace ==
  ASSUME LinksOK, DestroyOK, state = "off", T!Step \/ T!Starve
  PROVE  LinksOK' /\ PlaceOK'
<1>1. /\ "115200" \in Tells /\ {"return", "ignore_empty"} \subseteq Failures
      /\ Off0 \in Seq(Steps)
  BY EndSteps DEF Tells, T!Baud, Failures, Leads
<1>2. job = "destroy" /\ Held /\ T!Return = Off0
  BY OnFailures DEF DestroyOK
<1>3. ASSUME LinksOK', Apart, state' = state, Held',
             todo' \in {Exit2(Off0), Exit3(Off0), Exit4(Off0), Exit5(Off0)},
             Calm' => Soon(Fast)' /\ bmc' = "console"
      PROVE  PlaceOK'
  <2>1. DestroyOK'
    BY <1>2, <1>3 DEF DestroyOK, Apart
  <2>2. QED BY <1>3, <2>1 DEF PlaceOK
<1>4. CASE todo = Exit1(Off0) /\ (Calm => Now(Fast))
  <2>1. RunStep("q", "return", Exit2(Off0))
    BY <1>1, <1>4, ExitSteps, RunSteps
  <2>2. LinksOK' /\ Apart /\ Held' /\ Final' = Final /\ (broken # {} => ~Calm') /\ (~Calm => ~Calm')
    BY <1>2, <2>1, Marred DEF RunStep
  <2>3. CASE state' = "killed" /\ todo' = <<>>
    BY <2>2, <2>3 DEF PlaceOK, IdleOK
  <2>4. CASE state' = state /\ todo' = T!Return /\ broken # {}
    BY <2>2, <2>4, GivenUp
  <2>5. CASE state' = state /\ todo' = Exit2(Off0) /\ (port = Fast => bmc' = "console")
    <3>1. Calm' => Soon(Fast)' /\ bmc' = "console"
      BY <1>4, <2>2, <2>5 DEF Soon, Now
    <3>2. QED BY <1>3, <2>2, <2>5, <3>1
  <2>6. QED BY <2>1, <2>3, <2>4, <2>5, OnFailures DEF RunStep
<1>5. CASE todo = Exit2(Off0) /\ (Calm => Soon(Fast) /\ bmc = "console")
  <2>1. SleepStep(Exit3(Off0))
    BY <1>1, <1>5, ExitSteps, SleepSteps
  <2>2. /\ LinksOK' /\ Apart /\ state' = state /\ bmc' = bmc /\ Held' /\ (~Calm => ~Calm')
        /\ Final' = Final /\ todo' = Exit3(Off0)
    BY <1>2, <2>1, Marred DEF SleepStep
  <2>3. QED BY <1>3, <1>5, <2>2 DEF Soon
<1>6. CASE todo = Exit3(Off0) /\ (Calm => Soon(Fast) /\ bmc = "console")
  <2>1. RunStep("", "ignore_empty", Exit4(Off0))
    BY <1>1, <1>6, ExitSteps, RunSteps
  <2>2. LinksOK' /\ Apart /\ Held' /\ Final' = Final /\ (broken # {} => ~Calm') /\ (~Calm => ~Calm')
    BY <1>2, <2>1, Marred DEF RunStep
  <2>3. CASE state' = "killed" /\ todo' = <<>>
    BY <2>2, <2>3 DEF PlaceOK, IdleOK
  <2>4. CASE state' = state /\ todo' = Exit4(Off0) /\ broken # {}
    BY <1>3, <2>2, <2>4
  <2>5. CASE state' = state /\ todo' = Exit4(Off0) /\ bmc' = bmc
    BY <1>3, <1>6, <2>2, <2>5 DEF Soon
  <2>6. QED BY <1>2, <2>1, <2>3, <2>4, <2>5, OnFailures DEF RunStep
<1>7. CASE todo = Exit4(Off0) /\ (Calm => Soon(Fast) /\ bmc = "console")
  <2>1. TellStep("115200", "return", Exit5(Off0))
    BY <1>1, <1>7, ExitSteps, TellSteps
  <2>2. LinksOK' /\ Apart /\ state' = state /\ bmc' = bmc /\ Held' /\ (~Calm => ~Calm')
    BY <1>2, <2>1, Marred DEF TellStep
  <2>3. CASE todo' = Exit5(Off0) /\ Final = port /\ Final' = Effect("115200", port)
    <3>1. Calm' => Soon(Fast)' /\ bmc' = "console"
      BY <1>7, <2>2, <2>3, Effects DEF Soon
    <3>2. QED BY <1>3, <2>2, <2>3, <3>1
  <2>4. CASE todo' = T!Return /\ (starved' = starved + 1 \/ (starved' = starved /\ ~Stays))
    <3>1. ~Calm'
      BY <2>2, <2>4, Marred
    <3>2. QED BY <2>2, <2>4, <3>1, GivenUp
  <2>5. QED BY <2>1, <2>3, <2>4, OnFailures DEF TellStep
<1>8. CASE todo = Exit5(Off0) /\ (Calm => Soon(Fast) /\ bmc = "console")
  <2>1. SleepStep(Off0)
    BY <1>1, <1>8, ExitSteps, SleepSteps
  <2>2. /\ LinksOK' /\ Apart /\ state' = state /\ bmc' = bmc /\ Held' /\ (~Calm => ~Calm')
        /\ Final' = Final /\ todo' = Off0
    BY <1>2, <2>1, Marred DEF SleepStep
  <2>3. Left(Final)'
    BY <1>8, <2>2 DEF Left, Soon, Fast
  <2>4. EndOK'
    BY <1>2, <2>2, <2>3 DEF EndOK, Apart
  <2>5. QED BY <2>2, <2>4 DEF PlaceOK
<1>9. QED
  BY <1>4, <1>5, <1>6, <1>7, <1>8 DEF DestroyOK

\* The port is set back, and the connection closed.
LEMMA EndPlace ==
  ASSUME LinksOK, EndOK, state = "off", T!Step \/ T!Starve
  PROVE  LinksOK' /\ PlaceOK'
<1>1. /\ {"off", "kill"} \subseteq Tells /\ {"ctl", "raw"} \subseteq T!Link
      /\ {"abandon", "cleanup_kill", "cleanup_sleep"} \subseteq Failures
  BY DEF Tells, T!Link, Failures
<1>2. job \in {"probe", "destroy"} /\ port \in Ports /\ starved \in Nat
  BY DEF EndOK, LinksOK, DataOK
<1>3. ASSUME EndOK', LinksOK', state' = state
      PROVE  PlaceOK'
  BY <1>3 DEF PlaceOK
<1>4. ASSUME NEW c \in Tells, NEW f \in Failures, NEW rest, TellStep(c, f, rest)
      PROVE  /\ LinksOK' /\ Apart /\ state' = state /\ bmc' = bmc /\ Held' = Held
             /\ Stays' = Stays /\ (~Calm => ~Calm') /\ (Spared' => Spared)
             /\ \/ todo' = rest /\ starved' = starved /\ Final = port /\ Final' = Effect(c, port)
                \/ /\ todo' = T!OnFailure(f) /\ ~Calm' /\ Final' = Final
                   /\ Stays' => starved' = starved + 1
  <2>1. /\ LinksOK' /\ Apart /\ state' = state /\ bmc' = bmc /\ Held' = Held
        /\ Stays' = Stays /\ (~Calm => ~Calm') /\ (Spared' => Spared)
    BY <1>4, Marred DEF TellStep
  <2>2. CASE /\ todo' = T!OnFailure(f) /\ Final' = Final
             /\ starved' = starved + 1 \/ (starved' = starved /\ ~Stays)
    <3>1. ~Calm'
      BY <2>1, <2>2, Marred
    <3>2. QED BY <2>1, <2>2, <3>1
  <2>3. QED BY <1>4, <2>1, <2>2 DEF TellStep
<1>5. ASSUME Apart, bmc' = bmc, ~Calm => ~Calm', Left(Final), Final' = Final
      PROVE  Left(Final)'
  BY <1>5 DEF Left, Apart
<1>6. ASSUME Apart, bmc' = bmc, ~Calm => ~Calm', Left(Final), Final = port,
             NEW c \in {"off", "kill"}, Final' = Effect(c, port)
      PROVE  Left(Final)'
  <2>1. Final'.baud = port.baud
    BY <1>2, <1>6, Effects
  <2>2. QED BY <1>6, <2>1 DEF Left, Apart
<1>7. CASE todo = Off0 /\ Held /\ Left(Final)
  <2>1. CloseStep("raw", Off1)
    BY <1>1, <1>7, EndSteps, CloseSteps
  <2>2. /\ LinksOK' /\ Apart /\ state' = state /\ bmc' = bmc /\ Held' /\ (~Calm => ~Calm')
        /\ Final' = Final /\ todo' = Off1
    BY <1>7, <2>1, Marred DEF CloseStep
  <2>3. Left(Final)'
    BY <1>5, <1>7, <2>2
  <2>4. EndOK'
    BY <1>2, <2>2, <2>3 DEF EndOK, Apart
  <2>5. QED BY <1>3, <2>2, <2>4
<1>8. ASSUME LinksOK', Apart, state' = state, Held', todo' = End
      PROVE  PlaceOK'
  <2>1. conn'["ctl"] # "none"
    BY <1>8 DEF Held
  <2>2. EndOK'
    BY <1>2, <1>8, <2>1 DEF EndOK, Apart
  <2>3. QED BY <1>3, <1>8, <2>2
<1>9. CASE todo = Off1 /\ Held /\ Left(Final)
  <2>1. TellStep("off", "abandon", Off2)
    BY <1>1, <1>9, EndSteps, TellSteps
  <2>2. /\ LinksOK' /\ Apart /\ state' = state /\ bmc' = bmc /\ Held' /\ (~Calm => ~Calm')
        /\ \/ todo' = Off2 /\ Final = port /\ Final' = Effect("off", port)
           \/ todo' = End
    BY <1>1, <1>4, <1>9, <2>1, OnFailures
  <2>3. CASE todo' = Off2 /\ Final = port /\ Final' = Effect("off", port)
    <3>1. Left(Final)'
      BY <1>6, <1>9, <2>2, <2>3
    <3>2. ~Final'.bin
      BY <1>2, <2>3, Effects
    <3>3. EndOK'
      BY <1>2, <2>2, <2>3, <3>1, <3>2 DEF EndOK, Apart
    <3>4. QED BY <1>3, <2>2, <3>3
  <2>4. QED BY <1>8, <2>2, <2>3
<1>10. CASE todo = Off2 /\ Held /\ Left(Final) /\ (Stays => ~Final.bin)
  <2>1. TellStep("kill", "abandon", Off3)
    BY <1>1, <1>10, EndSteps, TellSteps
  <2>2. /\ LinksOK' /\ Apart /\ state' = state /\ bmc' = bmc /\ Held' /\ (~Calm => ~Calm')
        /\ Stays' = Stays
        /\ \/ todo' = Off3 /\ Final = port /\ Final' = Effect("kill", port)
           \/ todo' = End
    BY <1>1, <1>4, <1>10, <2>1, OnFailures
  <2>3. CASE todo' = Off3 /\ Final = port /\ Final' = Effect("kill", port)
    <3>1. Left(Final)'
      BY <1>6, <1>10, <2>2, <2>3
    <3>2. Final'.bin = port.bin /\ Final'.stale = FALSE
      BY <1>2, <2>3, Effects
    <3>3. Spared' => Plain(Final)'
      BY <1>10, <2>2, <2>3, <3>2 DEF Spared, Plain
    <3>4. EndOK'
      BY <1>2, <2>2, <2>3, <3>1, <3>3 DEF EndOK, Apart
    <3>5. QED BY <1>3, <2>2, <3>4
  <2>4. QED BY <1>8, <2>2, <2>3
<1>11. CASE todo = Clean1 /\ ~Calm /\ (Stays => starved >= 1)
  <2>1. TellStep("off", "cleanup_kill", Clean2)
    BY <1>1, <1>11, EndSteps, TellSteps
  <2>2. /\ LinksOK' /\ Apart /\ state' = state /\ ~Calm' /\ Stays' = Stays /\ todo' = Clean2
        /\ \/ starved' = starved /\ Final' = Effect("off", port)
           \/ Stays' => starved' = starved + 1
    BY <1>1, <1>4, <1>11, <2>1, OnFailures
  <2>3. Stays' => starved' >= 1
    BY <1>2, <1>11, <2>2
  <2>4. Spared' => ~Final'.bin
    <3>1. CASE Final' = Effect("off", port)
      BY <1>2, <3>1, Effects
    <3>2. CASE Stays' => starved' = starved + 1
      BY <1>2, <1>11, <2>2, <3>2 DEF Spared
    <3>3. QED BY <2>2, <3>1, <3>2
  <2>5. EndOK'
    BY <1>2, <2>2, <2>3, <2>4 DEF EndOK, Apart
  <2>6. QED BY <1>3, <2>2, <2>5
<1>12. CASE todo = Clean2 /\ ~Calm /\ (Stays => starved >= 1) /\ (Spared => ~Final.bin)
  <2>1. TellStep("kill", "cleanup_sleep", Off3)
    BY <1>1, <1>12, EndSteps, TellSteps
  <2>2. /\ LinksOK' /\ Apart /\ state' = state /\ ~Calm' /\ Stays' = Stays /\ todo' = Off3
        /\ (Spared' => Spared)
        /\ \/ Final = port /\ Final' = Effect("kill", port)
           \/ Stays' => starved' = starved + 1
    BY <1>1, <1>4, <1>12, <2>1, OnFailures
  <2>3. Left(Final)'
    BY <2>2 DEF Left
  <2>4. Spared' => Plain(Final)'
    <3>1. CASE Final = port /\ Final' = Effect("kill", port)
      <4>1. Final'.bin = port.bin /\ Final'.stale = FALSE
        BY <1>2, <3>1, Effects
      <4>2. QED BY <1>12, <2>2, <3>1, <4>1 DEF Plain
    <3>2. CASE Stays' => starved' = starved + 1
      BY <1>2, <1>12, <2>2, <3>2 DEF Spared
    <3>3. QED BY <2>2, <3>1, <3>2
  <2>5. EndOK'
    BY <1>2, <2>2, <2>3, <2>4 DEF EndOK, Apart
  <2>6. QED BY <1>3, <2>2, <2>5
<1>13. CASE todo = Off3 /\ Left(Final) /\ (Spared => Plain(Final))
  <2>1. SleepStep(Drop)
    BY <1>13, EndSteps, SleepSteps
  <2>2. /\ LinksOK' /\ Apart /\ state' = state /\ bmc' = bmc /\ (~Calm => ~Calm')
        /\ (Spared' => Spared) /\ Final' = Final /\ Final = port /\ todo' = Drop
    BY <2>1, Marred DEF SleepStep
  <2>3. Left(Final)' /\ Left(port)'
    BY <1>13, <2>2 DEF Left, Apart
  <2>4. Spared' => Plain(Final)' /\ Plain(port)'
    BY <1>13, <2>2 DEF Plain, Apart
  <2>5. EndOK'
    BY <1>2, <2>2, <2>3, <2>4 DEF EndOK, Rest, Apart
  <2>6. QED BY <1>3, <2>2, <2>5
<1>14. ASSUME Apart, bmc' = bmc, ~Calm => ~Calm', Spared' => Spared, Final' = Final, Rest
       PROVE  Rest'
  <2>1. Left(Final)' /\ Left(port)'
    BY <1>14 DEF Rest, Left, Apart
  <2>2. Spared' => Plain(Final)' /\ Plain(port)'
    BY <1>14 DEF Rest, Plain, Apart
  <2>3. QED BY <2>1, <2>2 DEF Rest
<1>15. CASE todo = Drop /\ Rest
  <2>1. CloseStep("ctl", End)
    BY <1>1, <1>15, EndSteps, CloseSteps
  <2>2. /\ LinksOK' /\ Apart /\ state' = state /\ bmc' = bmc /\ (~Calm => ~Calm')
        /\ (Spared' => Spared) /\ Final' = Final /\ todo' = End
    BY <2>1, Marred DEF CloseStep
  <2>3. EndOK'
    BY <1>2, <1>14, <1>15, <2>2 DEF EndOK, Apart
  <2>4. QED BY <1>3, <2>2, <2>3
<1>16. CASE todo = End /\ (conn["ctl"] = "none" => Rest)
  <2>1. SetStep("end", <<>>)
    BY <1>16, EndSteps, SetSteps
  <2>2. /\ LinksOK' /\ Apart /\ state' = "end" /\ bmc' = bmc /\ conn' = conn
        /\ (~Calm => ~Calm') /\ (Spared' => Spared) /\ Final' = Final /\ todo' = <<>>
    BY <2>1, Marred DEF SetStep
  <2>3. conn'["ctl"] = "none" => Rest'
    BY <1>14, <1>16, <2>2
  <2>4. IdleOK'
    BY <1>2, <2>2, <2>3 DEF IdleOK, Apart
  <2>5. QED BY <2>2, <2>4 DEF PlaceOK
<1>17. QED
  BY <1>7, <1>9, <1>10, <1>11, <1>12, <1>13, <1>15, <1>16 DEF EndOK

\* The command lets go of the bridge, takes it up again, or is done with it.
LEMMA StartPlace ==
  ASSUME LinksOK, PlaceOK,
         T!debug_driver_release \/ T!debug_driver_reinit \/ T!debug_driver_destroy
  PROVE  LinksOK' /\ PlaceOK'
<1>1. /\ todo = <<>> /\ state \in {"off", "up", "released"} /\ state' = "off"
      /\ UNCHANGED <<starved, force, conn, broken, port, told, shown, bmc>>
      /\ \/ state = "up" /\ job' = "release" /\ todo' = T!debug_exit \o T!Set("released")
         \/ state = "released" /\ job' = "reinit" /\ todo' = T!debug_enter
         \/ job' = "destroy" /\ todo' = T!debug_exit \o T!debug_destroy
  <2>1. CASE T!debug_driver_release
    BY <2>1 DEF T!debug_driver_release, T!Start, T!server
  <2>2. CASE T!debug_driver_reinit
    BY <2>2 DEF T!debug_driver_reinit, T!Start, T!server
  <2>3. CASE T!debug_driver_destroy
    BY <2>3 DEF T!debug_driver_destroy, T!Start, T!server
  <2>4. QED BY <2>1, <2>2, <2>3
<1>2. LinksOK'
  BY <1>1 DEF LinksOK, DialogOK, ConnOK, DataOK
<1>3. Final' = Final /\ Held' = Held /\ Stays' = Stays /\ (Calm' => Calm /\ Stays)
  <2>1. Final' = Final /\ Held' = Held /\ Stays' = Stays
    BY <1>1, Zenon DEF Final, Held, Stays
  <2>2. Calm' => Calm /\ Stays
    BY <1>1 DEF Calm, Stays
  <2>3. QED BY <2>1, <2>2
<1>4. IdleOK
  <2>1. /\ Login1 # <<>> /\ Login2 # <<>> /\ Login3 # <<>> /\ Login4 # <<>> /\ Login5 # <<>>
        /\ Login6 # <<>> /\ Login7 # <<>> /\ Login8 # <<>> /\ Login9 # <<>>
    BY LoginSteps DEF Leads
  <2>2. /\ Quit1 # <<>> /\ Quit2 # <<>> /\ Quit3 # <<>> /\ Up1 # <<>> /\ Up2 # <<>> /\ Up3 # <<>>
        /\ Up4 # <<>> /\ Up5 # <<>> /\ Up6 # <<>> /\ Up7 # <<>>
    BY EnterSteps DEF Leads
  <2>3. /\ Failed1 # <<>> /\ Failed2 # <<>> /\ Failed3 # <<>>
    BY FailedSteps DEF Leads
  <2>4. /\ Off0 # <<>> /\ Off1 # <<>> /\ Off2 # <<>> /\ Off3 # <<>> /\ Drop # <<>> /\ End # <<>>
        /\ Clean1 # <<>> /\ Clean2 # <<>>
    BY EndSteps DEF Leads
  <2>5. ASSUME NEW rest \in Seq(Steps)
        PROVE  /\ Exit1(rest) # <<>> /\ Exit2(rest) # <<>> /\ Exit3(rest) # <<>>
               /\ Exit4(rest) # <<>> /\ Exit5(rest) # <<>>
    BY ExitSteps DEF Leads
  <2>6. /\ T!Set("released") \in Seq(Steps) /\ <<>> \in Seq(Steps) /\ Off0 \in Seq(Steps)
        /\ T!Set("released") # <<>>
    <3>1. <<>> \in Seq(Steps) /\ T!Set("released") # <<>>
      BY DEF T!Set
    <3>2. QED BY <3>1, Scripts, EndSteps DEF Leads
  <2>7. ~LoginOK
    BY <1>1, <2>1 DEF LoginOK
  <2>8. ~EnterOK
    BY <1>1, <2>2 DEF EnterOK
  <2>9. ~FailedOK /\ ~EndOK
    BY <1>1, <2>3, <2>4 DEF FailedOK, EndOK
  <2>10. ~ReleaseOK /\ ~DestroyOK
    BY <1>1, <2>5, <2>6 DEF ReleaseOK, DestroyOK
  <2>11. QED BY <2>7, <2>8, <2>9, <2>10 DEF PlaceOK
<1>5. T!Set("released") \in Seq(Steps) /\ Off0 \in Seq(Steps)
  BY Scripts, EndSteps DEF Leads
<1>6. CASE state = "up" /\ job' = "release" /\ todo' = T!debug_exit \o T!Set("released")
  <2>1. todo' = Exit1(T!Set("released"))
    BY <1>5, <1>6, Lists
  <2>2. Held' /\ (Stays' => Now(Fast)')
    BY <1>1, <1>3, <1>4, <1>6 DEF IdleOK, Now
  <2>3. ReleaseOK'
    BY <1>6, <2>1, <2>2 DEF ReleaseOK
  <2>4. QED BY <1>1, <1>2, <2>3 DEF PlaceOK
<1>7. CASE state = "released" /\ job' = "reinit" /\ todo' = T!debug_enter
  <2>1. todo' = IF force THEN Quit1 ELSE Up1
    BY <1>7, Lists
  <2>2. Held' /\ (Stays' => Soon(Fast)' /\ bmc' = "console")
    BY <1>1, <1>3, <1>4, <1>7 DEF IdleOK, Now, Soon
  <2>3. EnterOK'
    BY <1>7, <2>1, <2>2 DEF EnterOK, T!Waits
  <2>4. QED BY <1>1, <1>2, <2>3 DEF PlaceOK
<1>8. CASE job' = "destroy" /\ todo' = T!debug_exit \o T!debug_destroy
  <2>1. todo' = Exit1(Off0)
    BY <1>5, <1>8, Lists
  <2>2. Held' /\ (Calm' => Now(Fast)')
    BY <1>1, <1>3, <1>4 DEF IdleOK, Now
  <2>3. DestroyOK'
    BY <1>8, <2>1, <2>2 DEF DestroyOK
  <2>4. QED BY <1>1, <1>2, <2>3 DEF PlaceOK
<1>9. QED
  BY <1>1, <1>6, <1>7, <1>8

\* Nothing else moves culvert (ts16.c, debug.c).
LEMMA Ts16Place ==
  ASSUME LinksOK, PlaceOK, T!Next
  PROVE  LinksOK' /\ PlaceOK'
<1>1. CASE T!Step \/ T!Starve
  <2>1. todo # <<>>
    BY <1>1 DEF T!Step, T!Starve, T!ToldOfReset, T!Sigpipe, T!prompt_expect_run, T!ConnectStep,
       T!fdopen, T!prompt_run, T!Expect, T!SleepStep, T!CloseStep, T!SetStep, T!Is
  <2>2. state = "off" /\ ~IdleOK
    BY <2>1 DEF PlaceOK, IdleOK
  <2>3. QED
    BY <1>1, <2>2, LoginPlace, EnterPlace, FailedPlace, ReleasePlace, DestroyPlace, EndPlace
    DEF PlaceOK
<1>2. CASE T!Execute \/ \E l \in T!Link : T!Break(l)
  BY <1>2, OutsideSteps, OutsidePlace
<1>3. CASE T!debug_driver_release \/ T!debug_driver_reinit \/ T!debug_driver_destroy
  BY <1>3, StartPlace
<1>4. QED
  BY <1>1, <1>2, <1>3 DEF T!Next

\* The start of the session.
LEMMA Ts16Start ==
  ASSUME T!Init
  PROVE  LinksOK /\ PlaceOK
<1>1. /\ state = "off" /\ job = "probe" /\ starved = 0 /\ force \in BOOLEAN
      /\ todo = Login1 /\ conn = [l \in T!Link |-> "none"] /\ broken = {}
      /\ port = T!Text /\ told = <<>> /\ shown = <<>>
      /\ bmc \in {"console", "debug"}
  BY Lists DEF T!Init
<1>2. DialogOK /\ ConnOK
  BY <1>1 DEF DialogOK, ConnOK, T!Link
<1>3. DataOK
  BY <1>1 DEF DataOK, Ports, T!Text, T!Baud
<1>4. Now(T!Text) /\ conn["ctl"] = "none"
  BY <1>1 DEF Now, Final, T!Link
<1>5. LoginOK
  BY <1>1, <1>4 DEF LoginOK, Stays
<1>6. QED BY <1>1, <1>2, <1>3, <1>5 DEF LinksOK, PlaceOK

\* At the end the port is as it was found.
LEMMA Ts16Left ==
  ASSUME LinksOK, PlaceOK
  PROVE  T!LeftAsFound
<1> SUFFICES ASSUME state = "end", conn["ctl"] = "none", "ctl" \notin broken, starved <= 1
             PROVE  /\ ~port.bin /\ ~port.stale
                    /\ (job # "probe" /\ broken = {} /\ starved = 0
                        => bmc = "console" /\ port = T!Text)
  BY DEF T!LeftAsFound
<1>1. job \in {"probe", "destroy"} /\ Rest
  BY DEF PlaceOK, IdleOK
<1>2. Plain(port) /\ Left(port)
  BY <1>1 DEF Rest, Spared, Stays
<1>3. ~port.bin /\ ~port.stale
  BY <1>2 DEF Plain
<1>4. ASSUME job # "probe", broken = {}, starved = 0
      PROVE  bmc = "console" /\ port = T!Text
  <2>1. port.baud = "115200" /\ bmc = "console"
    BY <1>1, <1>2, <1>4 DEF Left, Calm
  <2>2. port \in Ports
    BY DEF LinksOK, DataOK
  <2>3. QED BY <1>3, <2>1, <2>2 DEF Ports, T!Text
<1>5. QED BY <1>3, <1>4

\* The step that sends the password is none of the others.
LEMMA Elsewhere ==
  ASSUME NEW list, NEW o, NEW a, NEW f, NEW rest, Leads(list, <<o, a, f>>, rest),
         o # "run" \/ a # "password", Head(todo)[1] = "run", Head(todo)[2] = "password"
  PROVE  todo # list
<1>1. Head(list) = <<o, a, f>>
  BY DEF Leads
<1>2. Head(list)[1] = o /\ Head(list)[2] = a
  BY <1>1
<1>3. QED
  BY <1>2

\* The password is sent from one place, where the port has the rate that the
\* BMC expects, and in use the debug shell is reached (debug_enter()).
LEMMA Ts16InStep ==
  ASSUME LinksOK, PlaceOK
  PROVE  T!InStep
<1> SUFFICES ASSUME conn["ctl"] = "up"
             PROVE  /\ (T!Is("run") /\ T!Arg = "password" => T!Waits /\ T!Passes("1200"))
                    /\ (state = "up" => bmc = "debug" /\ T!Passes("115200"))
  BY DEF T!InStep
<1>1. Stays
  BY DEF LinksOK, ConnOK, Stays
<1>2. state = "up" => bmc = "debug" /\ T!Passes("115200")
  BY <1>1 DEF PlaceOK, IdleOK, Now, Fast, T!Passes
<1>3. ASSUME T!Is("run"), T!Arg = "password" PROVE T!Waits /\ T!Passes("1200")
  <2>1. Head(todo)[1] = "run" /\ Head(todo)[2] = "password"
    BY <1>3 DEF T!Is, T!Arg
  <2>2. ~LoginOK
    <3>1. /\ todo # Login1 /\ todo # Login2 /\ todo # Login3 /\ todo # Login4 /\ todo # Login5
          /\ todo # Login6 /\ todo # Login7 /\ todo # Login8 /\ todo # Login9
      BY <2>1, LoginSteps, Elsewhere
    <3>2. QED BY <3>1 DEF LoginOK
  <2>3. ~FailedOK
    <3>1. /\ todo # Failed1 /\ todo # Failed2 /\ todo # Failed3
      BY <2>1, FailedSteps, Elsewhere
    <3>2. QED BY <3>1 DEF FailedOK
  <2>4. ASSUME NEW rest \in Seq(Steps)
        PROVE  todo \notin {Exit1(rest), Exit2(rest), Exit3(rest), Exit4(rest), Exit5(rest)}
    BY <2>1, ExitSteps, Elsewhere
  <2>5. ~EndOK
    <3>1. /\ todo # Off0 /\ todo # Off1 /\ todo # Off2 /\ todo # Off3 /\ todo # Clean1
          /\ todo # Clean2 /\ todo # Drop /\ todo # End
      BY <2>1, EndSteps, Elsewhere
    <3>2. QED BY <3>1 DEF EndOK
  <2>6. ~ReleaseOK
    <3>1. Leads(T!Set("released"), <<"set", "released", "">>, <<>>)
      <4>1. <<"set", "released", "">> \in Steps
        BY DEF Steps
      <4>2. <<>> \in Seq(Steps)
        OBVIOUS
      <4>3. QED BY <4>1, <4>2, First DEF T!Set
    <3>2. T!Set("released") \in Seq(Steps)
      BY <3>1 DEF Leads
    <3>3. todo # T!Set("released")
      BY <2>1, <3>1, Elsewhere
    <3>4. <<>> \in Seq(Steps)
      OBVIOUS
    <3>5. QED BY <2>4, <3>2, <3>3, <3>4 DEF ReleaseOK
  <2>7. ~DestroyOK
    <3>1. Off0 \in Seq(Steps)
      BY EndSteps DEF Leads
    <3>2. QED BY <2>4, <3>1 DEF DestroyOK
  <2>8. ~IdleOK
    BY <1>3 DEF IdleOK, T!Is
  <2>9. todo = Up3 /\ Now(Slow) /\ T!Waits
    <3>1. /\ todo # Quit1 /\ todo # Quit2 /\ todo # Quit3 /\ todo # Up1 /\ todo # Up2
          /\ todo # Up4 /\ todo # Up5 /\ todo # Up6 /\ todo # Up7
      BY <2>1, EnterSteps, Elsewhere
    <3>2. EnterOK
      BY <2>2, <2>3, <2>5, <2>6, <2>7, <2>8 DEF PlaceOK
    <3>3. QED BY <1>1, <3>1, <3>2 DEF EnterOK
  <2>10. QED
    BY <2>9 DEF Now, Slow, T!Passes
<1>4. QED BY <1>2, <1>3

\* The dialogue with the terminal server does not leave its states (ts16.c).
LEMMA Ts16States ==
  ASSUME state \in {"off", "up", "released", "end", "killed"}, todo \in Seq(Steps), T!Next
  PROVE  state' \in {"off", "up", "released", "end", "killed"} /\ todo' \in Seq(Steps)
<1>1. ASSUME T!Go, UNCHANGED state, todo # <<>>
      PROVE  state' \in {"off", "up", "released", "end", "killed"} /\ todo' \in Seq(Steps)
  BY <1>1 DEF T!Go
<1>2. ASSUME T!FailStep, todo # <<>>,
             Head(todo)[1] \in {"tell", "run", "expect", "connect", "fdopen"}
      PROVE  state' \in {"off", "up", "released", "end", "killed"} /\ todo' \in Seq(Steps)
  <2>1. Head(todo) \in Steps
    BY <1>2
  <2>2. Head(todo)[3] \in Failures
    BY <1>2, <2>1 DEF Steps
  <2>3. QED
    BY <1>2, <2>2, Functions DEF T!FailStep
<1>3. CASE T!ToldOfReset \/ T!Starve
  BY <1>2, <1>3 DEF T!ToldOfReset, T!Starve, T!Is
<1>4. CASE T!ConnectStep
  BY <1>1, <1>2, <1>4 DEF T!ConnectStep, T!Is
<1>5. CASE T!Sigpipe
  BY <1>5 DEF T!Sigpipe
<1>6. CASE \/ T!prompt_expect_run \/ T!SleepStep \/ T!fdopen
           \/ T!prompt_run \/ T!Expect \/ T!CloseStep
  BY <1>1, <1>6 DEF T!prompt_expect_run, T!SleepStep, T!fdopen, T!prompt_run, T!Expect,
     T!CloseStep, T!Is
<1>7. CASE T!SetStep
  <2>1. todo # <<>> /\ Head(todo)[1] = "set" /\ state' = Head(todo)[2] /\ todo' = Tail(todo)
    BY <1>7 DEF T!SetStep, T!Is, T!Arg, T!Go
  <2>2. Head(todo) \in Steps /\ Tail(todo) \in Seq(Steps)
    BY <2>1
  <2>3. Head(todo)[2] \in {"end", "up", "released"}
    BY <2>1, <2>2 DEF Steps
  <2>4. QED
    BY <2>1, <2>2, <2>3
<1>8. CASE T!Execute \/ \E l \in T!Link : T!Break(l)
  BY <1>8 DEF T!Execute, T!Break, T!culvert
<1>9. CASE T!debug_driver_release \/ T!debug_driver_reinit \/ T!debug_driver_destroy
  BY <1>9, Functions DEF T!debug_driver_release, T!debug_driver_reinit, T!debug_driver_destroy,
     T!Start
<1>10. QED
  BY <1>3, <1>4, <1>5, <1>6, <1>7, <1>8, <1>9 DEF T!Next, T!Step

\* All of it together.
LEMMA Ts16Step ==
  ASSUME Ts16Inv, T!Next
  PROVE  Ts16Inv'
  BY Ts16States, Ts16Place DEF Ts16Inv

-----------------------------------------------------------------------------
\* The bridges as they come up.
LEMMA InitIInv == Init => IInv /\ A!AhbInit
<1> SUFFICES ASSUME Init PROVE IInv /\ A!AhbInit
  OBVIOUS
<1>1. CASE kind = "p2a"
  BY <1>1 DEF Init, P!Init, P!AhbInit, A!AhbInit, P!Addr, A!Addr, IInv, P2abInv, CallOK
<1>2. CASE kind = "devmem"
  BY <1>2 DEF Init, D!Init, D!AhbInit, A!AhbInit, D!Addr, A!Addr, IInv, DevmemInv, CallOK
<1>3. CASE kind = "ilpc"
  BY <1>3 DEF Init, I!Init, I!AhbInit, A!AhbInit, I!Addr, A!Addr, IInv, IlpcbInv, CallOK,
     I!SioLocked
<1>4. CASE kind = "debug"
  <2>1. U!Init /\ DebugInv
    BY <1>4, DebugInit DEF Init
  <2>2. A!AhbInit
    BY <2>1 DEF U!Init, U!AhbInit, A!AhbInit, U!Addr, A!Addr
  <2>3. QED
    BY <1>4, <2>1, <2>2 DEF IInv
<1>5. CASE kind = "ts16"
  <2>1. state = "off" /\ todo = T!ts16_init \o T!debug_enter /\ AhbInit
    BY <1>5 DEF Init, T!Init
  <2>2. Ts16Inv
    BY <1>5, <2>1, Functions, Ts16Start DEF Init, Ts16Inv
  <2>3. QED
    BY <1>5, <2>1, <2>2 DEF AhbInit, A!AhbInit, Addr, A!Addr, IInv
<1>6. QED
  BY <1>1, <1>2, <1>3, <1>4, <1>5 DEF Init

\* Every step of a bridge that reaches the bus itself is a step of an AHB, or
\* none.
LEMMA NextIInv ==
  ASSUME IInv, [Next]_vars
  PROVE  IInv' /\ (kind \notin {"debug", "ts16"} => A!AhbNext \/ UNCHANGED ahbVars)
<1>1. CASE kind = "p2a" /\ P!Next /\ kind' = kind
  BY <1>1, P2abStep DEF IInv
<1>2. CASE kind = "devmem" /\ D!Next /\ kind' = kind
  BY <1>2, DevmemStep DEF IInv
<1>3. CASE kind = "ilpc" /\ I!Next /\ kind' = kind
  BY <1>3, IlpcbStep DEF IInv
<1>4. CASE kind = "debug" /\ U!Next /\ kind' = kind
  BY <1>4, DebugStep DEF IInv
<1>5. CASE kind = "ts16" /\ T!Next /\ kind' = kind
  BY <1>5, Ts16Step DEF IInv
<1>6. CASE UNCHANGED vars
  <2>1. kind' = kind
    BY <1>6 DEF vars
  <2>2. P2abInv => P2abInv'
    BY <1>6 DEF vars, ahbVars, p2ab, P2abInv, CallOK
  <2>3. DevmemInv => DevmemInv'
    BY <1>6 DEF vars, ahbVars, devmem, DevmemInv, CallOK
  <2>4. IlpcbInv => IlpcbInv'
    BY <1>6 DEF vars, ahbVars, ilpcb, IlpcbInv, CallOK, I!SioLocked
  <2>5. Ts16Inv => Ts16Inv'
    BY <1>6, StillPlace DEF vars, ts16, Ts16Inv
  <2>6. DebugInv => DebugInv'
    BY <1>6, StillDebug
  <2>7. state' = state /\ UNCHANGED ahbVars
    BY <1>6 DEF vars
  <2>8. QED
    BY <2>1, <2>2, <2>3, <2>4, <2>5, <2>6, <2>7 DEF IInv
<1>7. QED
  BY <1>1, <1>2, <1>3, <1>4, <1>5, <1>6 DEF Next

\* The inductive invariant holds in every state.
LEMMA Invariant == Spec => []IInv
<1>1. IInv /\ [Next]_vars => IInv'
  BY NextIInv
<1>2. QED
  BY InitIInv, <1>1, PTL DEF Spec

-----------------------------------------------------------------------------
(***************************************************************************)
(* What the bridges promise.                                               *)
(***************************************************************************)
\* The PCIe bridge, /dev/mem and the iLPC bridge implement the AHB: every word
\* of a call travels to or from its own address, a call that succeeds has
\* moved all of them, and no access leaves what is mapped (p2a.c, devmem.c,
\* ilpc.c).
THEOREM AhbCorrect == Spec => AhbSpec
<1>1. Init => A!AhbInit
  BY InitIInv
<1>2. IInv /\ [Next]_vars => [kind \notin {"debug", "ts16"} => A!AhbNext]_ahbVars
  BY NextIInv
<1>3. IInv => InMapping
  BY DEF IInv, InMapping, P2abInv, DevmemInv, IlpcbInv, DebugInv, Ts16Inv
<1>4. QED
  BY <1>1, <1>2, <1>3, Invariant, PTL DEF Spec, AhbSpec

\* The SuperIO is locked between the calls of the iLPC bridge, whichever access
\* failed, unless the one that locks it did (ilpc.c, done:); and a port that
\* was put into binary mode passes text again when culvert has closed its
\* connection, whichever step failed, unless the terminal server was lost or
\* memory ran out twice (ts16.c, cleanup_port and ts16_control_destroy()).
THEOREM LeftCorrect == Spec => []LeftAsFound
<1>1. IInv => LeftAsFound
  BY Ts16Left DEF IInv, LeftAsFound, IlpcbInv, Ts16Inv
<1>2. QED
  BY Invariant, <1>1, PTL

\* The debug UART keeps in step: a call that succeeds has moved the words of
\* its own addresses, whatever the pace at which the answers arrive and however
\* a dump is cut into lines, as long as no line was garbled and no call
\* returned with a prompt still to come (debug.c, debug_read() and
\* debug_write(); prompt.c); and behind a terminal server that is connected,
\* the password is sent at the rate the BMC waits for it, and the bridge is
\* used at the rate of the debug shell (debug.c, debug_enter()).
THEOREM InStepCorrect == Spec => []InStep
<1>1. IInv => InStep
  BY DebugInStep, Ts16InStep DEF IInv, InStep, Ts16Inv
<1>2. QED
  BY Invariant, <1>1, PTL

=============================================================================
