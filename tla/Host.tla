-------------------------------- MODULE Host --------------------------------
(***************************************************************************)
(* Discovery of the bridges, host.c: the drivers are probed in the order   *)
(* of the build, or just the one that the user names, and those that       *)
(* return a bridge are put on a list of which host_get_ahb() takes the     *)
(* head.  The outcome of a probe (bridge/*.c) depends on the platform.     *)
(***************************************************************************)
EXTENDS Integers, Sequences

CONSTANTS
  Order,      \* the registered drivers, as autodata_get() returns them
  Platforms,  \* the platforms to run on: see below
  None

\* io, fw: the LPC spaces that lpc_init() can open; sio: a SuperIO answers;
\* ends: devices that can be opened; works: bridges through which the SoC's
\* revision can be read.
Drivers == {"debug-uart", "devmem", "ilpc", "l2a", "p2a"}
AllPlatforms ==
  [io : BOOLEAN, fw : BOOLEAN, sio : BOOLEAN,
   ends : SUBSET {"debug-uart", "devmem", "p2a"}, works : SUBSET Drivers]

HostAssumption ==
  /\ Order \in Seq(Drivers) /\ None \notin Drivers
  /\ Platforms \subseteq AllPlatforms
  /\ \A p \in Platforms :
       /\ {"ilpc", "l2a"} \intersect p.works # {} => p.sio
       /\ p.works \subseteq p.ends \union {"ilpc", "l2a"}

VARIABLES
  plat,      \* the platform
  disabled,  \* drivers with the flag that --skip-bridge sets
  via,       \* connection->bridge_driver
  pc,        \* "init", "use", "destroy", "done", "failed" or "aborted"
  next,      \* of the loop in host_init()
  bridges,   \* ctx->bridges, its head first, with what the probe made of each
  open,      \* resources held, each with its driver
  faults,    \* history: steps behind which a driver leaves something open
  ahb        \* what host_get_ahb() returned

vars == <<plat, disabled, via, pc, next, bridges, open, faults, ahb>>

NoAhb == [drv |-> None, ctx |-> "null"]

Init ==
  /\ plat \in Platforms
  /\ disabled \in SUBSET Drivers /\ via \in (Drivers \ disabled) \union {None}
  /\ pc = "init" /\ next = 1 /\ bridges = <<>> /\ ahb = NoAhb
  /\ open = {} /\ faults = {}

-----------------------------------------------------------------------------
(***************************************************************************)
(* The destroy functions: what each may leave open of what the driver      *)
(* holds, with the step that failed.  A close() that reports an error has  *)
(* closed its descriptor all the same.                                     *)
(***************************************************************************)
Left(res, steps) == [left |-> res, faults |-> steps]
Clean == Left({}, {})

ilpcb_destroy == {Clean}

\* l2ab_destroy() returns when HICR7 and 8 cannot be restored, and when
\* ilpcb_destroy() fails, which has closed the I/O space.
l2ab_destroy ==
  {Clean, Left({"io", "fw"}, {"restore"}), Left({"fw"}, {"close"})}

(* Mutated: the P2A is locked behind the munmap() that may fail.            *)
p2ab_destroy_late == {Clean, Left({"fd", "map", "key"}, {"munmap"})}

\* p2ab_destroy() locks the P2A first, by a store that cannot fail.
p2ab_destroy == {Clean, Left({"fd", "map"}, {"munmap"})}

\* devmem_destroy() without a window.
devmem_destroy == {Clean, Left({"map"}, {"munmap"})}

\* debug_destroy() closes the stream, whatever debug_exit() met;
\* ts16_control_destroy() returns when the terminal server does not answer.
debug_destroy == {Clean, Left({"control"}, {"server"})}

Destroy(d) ==
  CASE d = "ilpc" -> ilpcb_destroy
    [] d = "l2a" -> l2ab_destroy
    [] d = "p2a" -> p2ab_destroy
    [] d = "devmem" -> devmem_destroy
    [] OTHER -> debug_destroy

-----------------------------------------------------------------------------
(***************************************************************************)
(* The probe functions: the context that a probe may return, what its      *)
(* driver holds then, and what has failed.                                 *)
(***************************************************************************)
Outcome(c, held, steps) == [ctx |-> c, held |-> held, faults |-> steps]
Null == Outcome("null", {}, {})
Failed(cleanups) == {Outcome("null", c.left, c.faults) : c \in cleanups}

p2ab_driver_probe ==
  IF "p2a" \notin plat.ends THEN {Null}
  ELSE IF "p2a" \in plat.works THEN {Outcome("live", {"fd", "map", "key"}, {})}
  ELSE Failed(p2ab_destroy)

devmem_driver_probe ==
  IF "devmem" \notin plat.ends THEN {Null}
  ELSE IF "devmem" \in plat.works THEN {Outcome("live", {"fd", "map"}, {})}
  ELSE Failed(devmem_destroy)

\* A terminal, or a terminal server with its control connection, which is
\* made first.  debug_init_v() does not close the console's descriptor when
\* prompt_init() fails.
debug_driver_probe ==
  IF "debug-uart" \notin plat.ends THEN Failed(debug_destroy)
  ELSE {Outcome("null", {"fd"} \union c.left, {"stream"} \union c.faults) : c \in debug_destroy}
       \union IF "debug-uart" \in plat.works
                THEN {Outcome("live", held, {}) : held \in {{"fd"}, {"fd", "control"}}}
                ELSE Failed(debug_destroy)

(* Mutated: the result of rev_probe() is not looked at.                     *)
ilpcb_driver_probe_norev ==
  IF ~plat.io THEN {Null}
  ELSE IF plat.sio /\ "ilpc" \in plat.works THEN {Outcome("live", {"io"}, {})}
  ELSE {Outcome("dead", {"io"}, {})}

\* ilpcb_probe() returns 0 without a SuperIO, which is no failure; to
\* sio_probe() a cycle that fails is a SuperIO, behind which rev_probe() fails.
ilpcb_driver_probe ==
  IF ~plat.io THEN {Null}
  ELSE IF ~plat.sio THEN {Null, Outcome("dead", {"io"}, {})}
  ELSE IF "ilpc" \in plat.works THEN {Outcome("live", {"io"}, {})}
  ELSE Failed(ilpcb_destroy)

\* l2ab_init() leaves the FW space open when the I/O space is not to be had,
\* and takes ilpcb_probe()'s 1 for a failure: everything is closed, and the
\* 1 is no failure to l2ab_driver_probe().  Without a SuperIO
\* l2ab_save_hicr78() may fail, which closes everything.
l2ab_driver_probe ==
  IF ~plat.fw THEN {Null}
  ELSE IF ~plat.io THEN {Outcome("null", {"fw"}, {"init"})}
  ELSE IF ~plat.sio THEN {Null, Outcome("dead", {"fw", "io"}, {})}
  ELSE IF "l2a" \in plat.works THEN {Outcome("torn", {}, {})}
  ELSE {Null}

Probe(d) ==
  CASE d = "ilpc" -> ilpcb_driver_probe
    [] d = "l2a" -> l2ab_driver_probe
    [] d = "p2a" -> p2ab_driver_probe
    [] d = "devmem" -> devmem_driver_probe
    [] OTHER -> debug_driver_probe

Of(d, names) == {<<d, x>> : x \in names}

Take(d, o) ==
  /\ open' = open \union Of(d, o.held)
  /\ faults' = faults \union Of(d, o.faults)

\* host_probe_bridge() with memory for the list's node.
host_probe_bridge(d) ==
  \/ d \in disabled /\ UNCHANGED <<bridges, open, faults>>
  \/ /\ d \notin disabled
     /\ \E o \in Probe(d) :
          /\ Take(d, o)
          /\ bridges' = IF o.ctx = "null" THEN bridges
                        ELSE <<[drv |-> d, ctx |-> o.ctx]>> \o bridges

host_init_named ==
  /\ pc = "init" /\ via # None
  /\ host_probe_bridge(via) /\ pc' = "use"
  /\ UNCHANGED <<plat, disabled, via, next, ahb>>

host_init ==
  /\ pc = "init" /\ via = None
  /\ IF next <= Len(Order)
       THEN host_probe_bridge(Order[next]) /\ next' = next + 1 /\ UNCHANGED pc
       ELSE pc' = "use" /\ UNCHANGED <<bridges, open, faults, next>>
  /\ UNCHANGED <<plat, disabled, via, ahb>>

\* -ENOMEM: the commands exit, with what they had open.
host_init_nomem ==
  /\ pc = "init" /\ via = None /\ next <= Len(Order)
  /\ Order[next] \notin disabled
  /\ \E o \in Probe(Order[next]) : o.ctx # "null" /\ Take(Order[next], o)
  /\ pc' = "failed" /\ UNCHANGED <<plat, disabled, via, next, bridges, ahb>>

host_get_ahb ==
  /\ pc = "use" /\ ahb = NoAhb /\ bridges # <<>>
  /\ ahb' = Head(bridges)
  /\ UNCHANGED <<plat, disabled, via, pc, next, bridges, open, faults>>

Window == <<"devmem", "win">>

\* devmem_setup_win() in an access of the command: the window is mapped
\* anew, or the mmap() fails, or the munmap() and the driver forgets it.
devmem_setup_win ==
  /\ pc = "use" /\ ahb.drv = "devmem"
  /\ \/ open' = open \union {Window} /\ UNCHANGED faults
     \/ open' = open \ {Window} /\ UNCHANGED faults
     \/ /\ Window \in open
        /\ open' = (open \ {Window}) \union {<<"devmem", "old">>}
        /\ faults' = faults \union {<<"devmem", "window">>}
  /\ UNCHANGED <<plat, disabled, via, pc, next, bridges, ahb>>

Held(d) == {r[2] : r \in {q \in open : q[1] = d}}

host_destroy ==
  /\ pc \in {"use", "destroy"}
  /\ IF bridges = <<>>
       THEN pc' = "done" /\ UNCHANGED <<bridges, open, faults>>
       ELSE LET d == Head(bridges).drv IN
            /\ ~(d = "devmem" /\ Window \in open)
            /\ pc' = "destroy" /\ bridges' = Tail(bridges)
            /\ \E c \in Destroy(d) :
                 /\ c.left \subseteq Held(d)
                 /\ open' = {r \in open : r[1] # d \/ r[2] \in c.left}
                 /\ faults' = faults \union Of(d, c.faults)
  /\ UNCHANGED <<plat, disabled, via, next, ahb>>

\* assert(!ctx->win) in devmem_destroy() ends the program; what it had open
\* goes with it, the state of the P2A's lock does not.
DestroyAborts ==
  /\ pc \in {"use", "destroy"} /\ bridges # <<>>
  /\ Head(bridges).drv = "devmem" /\ Window \in open
  /\ pc' = "aborted" /\ open' = open \intersect {<<"p2a", "key">>}
  /\ UNCHANGED <<plat, disabled, via, next, bridges, faults, ahb>>

Next ==
  \/ host_init \/ host_init_named \/ host_init_nomem
  \/ host_get_ahb \/ devmem_setup_win \/ host_destroy \/ DestroyAborts

Spec == Init /\ [][Next]_vars

-----------------------------------------------------------------------------
Resources == {"fd", "map", "key", "win", "old", "io", "fw", "control"}
Steps == {"init", "stream", "restore", "close", "munmap", "window", "server"}

TypeOK ==
  /\ pc \in {"init", "use", "destroy", "done", "failed", "aborted"}
  /\ next \in 1 .. Len(Order) + 1
  /\ bridges \in Seq([drv : Drivers, ctx : {"live", "dead", "torn"}])
  /\ open \subseteq Drivers \X Resources /\ faults \subseteq Drivers \X Steps

\* What a failing step may leave open, and no other: of l2a, l2ab_init()
\* without an I/O space the FW space, the restoring of HICR7/8 both, and the
\* close of the one the other; a munmap() that fails the mapping, and in
\* p2ab_destroy() the descriptor; prompt_init() the terminal; and a terminal
\* server that does not answer the connection to it.
MayStay ==
  {<<"l2a", "init", "fw">>, <<"l2a", "restore", "io">>, <<"l2a", "restore", "fw">>,
   <<"l2a", "close", "fw">>, <<"p2a", "munmap", "fd">>, <<"p2a", "munmap", "map">>,
   <<"devmem", "munmap", "map">>, <<"devmem", "window", "old">>,
   <<"debug-uart", "stream", "fd">>, <<"debug-uart", "server", "control">>}

\* Behind host_destroy() everything that the probes and the command opened is
\* closed, and the P2A is locked again, whichever bridges there are and
\* whatever failed, save what a failing step of the same driver leaves: no
\* bridge that cannot be destroyed keeps another from it (host.c, bridge/*.c).
Released ==
  pc = "done" =>
    \A r \in open : \E s \in Steps : <<r[1], s>> \in faults /\ <<r[1], s, r[2]>> \in MayStay

\* With a SuperIO and no FW space (any x86 host of a BMC), the bridge that is
\* picked works: no probe passes by accident, and none hides another.
Picked == plat.sio /\ ~plat.fw /\ ahb # NoAhb => ahb.ctx = "live"

-----------------------------------------------------------------------------
(***************************************************************************)
(* Said of the program, and not what it does: see "Known divergences" in   *)
(* README.md.                                                              *)
(***************************************************************************)

\* README.md: "Currently supports use of the P2A, iLPC2AHB, LPC2AHB and Debug
\* UART interfaces".  No bridge is handed out without its operations.
Initialised == ahb # NoAhb => ahb.ctx # "torn"

\* host.c: "Bridge discovery failed, cannot access BMC AHB".  A platform
\* without a way to the BMC is found out.
Discovered == ahb # NoAhb => ahb.ctx # "dead"

=============================================================================
