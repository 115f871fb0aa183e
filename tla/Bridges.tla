------------------------------ MODULE Bridges -------------------------------
(***************************************************************************)
(* A command of culvert reaches the BMC through one bridge, the one that   *)
(* host_get_ahb() has picked (module Host): its calls go through struct    *)
(* ahb_ops to P2ab, to Devmem, to Ilpcb or to DebugUart.  Whichever it is, *)
(* the command relies on what Ahb says.  Of a debug UART behind a terminal *)
(* server the connection is checked instead of the calls, which are those  *)
(* of DebugUart (module Ts16).                                             *)
(***************************************************************************)
EXTENDS Ahb

CONSTANTS
  Window, Scu,            \* of P2ab
  PgSize, IoBase, IoLen,  \* of Devmem
  Byte,                   \* of Ilpcb
  DumpMin, DumpMax, LineLen, ByteMax, UMax, Reload, IoErrors, DebugRequests,
  MaxNoise, MaxEnters, MaxRetries,  \* of DebugUart
  MaxStarved              \* of Ts16, and MaxEnters

VARIABLES
  kind,   \* the bridge that was picked
  state,  \* of its context
  rbar, hwRbar, pkr,      \* of P2ab
  win, wphys, wlen,       \* of Devmem
  pc,     \* where a call is, of Ilpcb and DebugUart
  fail, sioLock, sel, en, width, areg, lockLost,  \* of Ilpcb
  consumed, wire, rx, stdio, owed, noise, enters, retries,  \* of DebugUart
  job, todo, conn, port, told, shown, bmc, prompt, force, good,
  starved, broken, missed  \* of Ts16, and enters

p2ab == <<rbar, hwRbar, pkr>>
devmem == <<win, wphys, wlen>>
ilpcb == <<fail, sioLock, sel, en, width, areg, lockLost>>
debug == <<consumed, wire, rx, stdio, owed, noise, retries>>
ts16 == <<job, todo, conn, port, told, shown, bmc, prompt, force, good, starved, broken, missed>>
vars == <<ahbVars, kind, state, pc, p2ab, devmem, ilpcb, debug, enters, ts16>>

\* p2ab_map() does not look at the length: only requests that stay in one
\* window, or consist of whole windows, stay in the window.
FittingRequests == {r \in Requests : r[3] = 1 \/ r[2] % Window = 0}

\* ilpcb_write() writes all its units to the first address.
UnitWrites == {r \in Requests : r[1] = "write" => r[3] = 1}

P == INSTANCE P2ab WITH Requests <- FittingRequests
D == INSTANCE Devmem
I == INSTANCE Ilpcb WITH Requests <- UnitWrites
U == INSTANCE DebugUart WITH Requests <- DebugRequests
T == INSTANCE Ts16

ASSUME BridgesAssumption ==
  P!WindowAssumption /\ D!PageAssumption /\ I!ByteAssumption /\ U!DebugAssumption
  /\ T!Ts16Assumption /\ DebugRequests \subseteq Requests

\* The bridges that are not picked are not touched.
P2abRests == rbar = 0 /\ hwRbar = 0 /\ pkr = "locked"
DevmemRests == win = FALSE /\ wphys = 0 /\ wlen = 0
IlpcbRests ==
  /\ fail = FALSE /\ lockLost = FALSE /\ sioLock = "locked"
  /\ sel = "other" /\ en = FALSE /\ width = "byte" /\ areg = 0

DebugRests ==
  /\ consumed = 0 /\ wire = <<>> /\ rx = <<>> /\ stdio = <<>> /\ owed = FALSE
  /\ noise = 0 /\ retries = 0

Ts16Rests ==
  /\ job = "probe" /\ todo = <<>> /\ told = <<>> /\ shown = <<>> /\ bmc = "console"
  /\ conn = [l \in T!Link |-> "none"] /\ port = T!Text /\ prompt = FALSE
  /\ force = FALSE /\ good = TRUE /\ starved = 0 /\ broken = {} /\ missed = FALSE

Init ==
  /\ pc = "idle"
  /\ \/ kind = "p2a" /\ P!Init /\ DevmemRests /\ IlpcbRests
     \/ kind = "devmem" /\ D!Init /\ P2abRests /\ IlpcbRests
     \/ kind = "ilpc" /\ I!Init /\ P2abRests /\ DevmemRests
     \/ kind = "debug" /\ U!Init /\ P2abRests /\ DevmemRests /\ IlpcbRests
     \/ kind = "ts16" /\ T!Init /\ AhbInit /\ P2abRests /\ DevmemRests /\ IlpcbRests
  /\ kind # "ts16" => Ts16Rests
  /\ kind # "debug" => DebugRests
  /\ kind \notin {"debug", "ts16"} => enters = 0

Next ==
  \/ kind = "p2a" /\ P!Next /\ UNCHANGED <<kind, pc, devmem, ilpcb, debug, enters, ts16>>
  \/ kind = "devmem" /\ D!Next /\ UNCHANGED <<kind, pc, p2ab, ilpcb, debug, enters, ts16>>
  \/ kind = "ilpc" /\ I!Next /\ UNCHANGED <<kind, p2ab, devmem, debug, enters, ts16>>
  \/ kind = "debug" /\ U!Next /\ UNCHANGED <<kind, p2ab, devmem, ilpcb, ts16>>
  \/ kind = "ts16" /\ T!Next /\ UNCHANGED <<ahbVars, kind, pc, p2ab, devmem, ilpcb, debug>>

Spec == Init /\ [][Next]_vars

\* Neither culvert's side of the dialogues stops, nor the line or the terminal
\* server.
DebugSteps ==
  \/ kind = "debug" /\ U!Step /\ UNCHANGED <<kind, p2ab, devmem, ilpcb, ts16>>
  \/ kind = "ts16" /\ T!Step /\ UNCHANGED <<ahbVars, kind, pc, p2ab, devmem, ilpcb, debug>>
DebugLine ==
  \/ kind = "debug" /\ U!Deliver /\ UNCHANGED <<kind, p2ab, devmem, ilpcb, ts16>>
  \/ kind = "ts16" /\ T!Execute /\ UNCHANGED <<ahbVars, kind, pc, p2ab, devmem, ilpcb, debug>>

FairSpec == Spec /\ WF_vars(DebugSteps) /\ WF_vars(DebugLine)

-----------------------------------------------------------------------------
TypeOK ==
  CASE kind = "p2a" -> P!TypeOK
    [] kind = "devmem" -> D!TypeOK
    [] kind = "ilpc" -> I!TypeOK
    [] kind = "debug" -> U!TypeOK
    [] kind = "ts16" -> T!TypeOK

\* What is mapped: the window of the BAR, and the pages of /dev/mem that this
\* or an earlier call has left behind.
InMapping == state # "fault"

A == INSTANCE Ahb

\* The three bridges that reach the bus themselves are an AHB: every word of a
\* call travels to or from its own address and a call that succeeds has moved
\* all of them, with the remap register cached, moved, and lost in a reset
\* (p2a.c, p2ab_map and p2ab_driver_reinit), with windows reused, replaced and
\* failed (devmem.c, devmem_setup_win), and with an address of which only a
\* part was written (ilpc.c, rc |= ...); and no access on the way leaves what
\* is mapped (devmem.c, ctx->len >= offset + len).
AhbSpec ==
  A!AhbInit /\ [][kind \notin {"debug", "ts16"} => A!AhbNext]_ahbVars /\ []InMapping

\* What a bridge opens on the way it leaves closed: the SuperIO is locked
\* whenever no call is in progress, whichever of the accesses failed (ilpc.c,
\* done:), unless the access that locks it did; and a port of the terminal
\* server that was put into binary mode is back in text mode, whichever step
\* failed (ts16.c, cleanup_port and ts16_control_destroy()), unless the
\* terminal server was lost or memory ran out twice.
LeftAsFound ==
  /\ kind = "ilpc" => I!SioLocked
  /\ kind = "ts16" => T!LeftAsFound

\* The debug shell keeps in step: a call that succeeds has moved the words of
\* its own addresses, whatever the pace at which the answers arrive, as long as
\* no line was garbled and no call returned with a prompt still to come, or
\* with half a command sent (debug.c, prompt.c); and behind a terminal server,
\* the port has the rate that the BMC expects (debug.c, debug_enter()).
InStep ==
  /\ kind = "debug" => U!InStep
  /\ kind = "ts16" => T!InStep

\* Under the same conditions every call of the debug bridge returns, and so
\* does every dialogue with the terminal server: nobody waits for a prompt
\* that was swallowed with the lines before it (debug.c, prompt_expect()
\* after prompt_gets()).
Returns ==
  /\ kind = "debug" => U!Returns
  /\ kind = "ts16" => T!Returns

=============================================================================
