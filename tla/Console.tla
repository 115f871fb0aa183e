------------------------------ MODULE Console -------------------------------
(***************************************************************************)
(* do_console() of cmd/console.c: the host's UART3 is routed to UART5, the *)
(* console of the BMC, where culvert logs in and starts a getty on UART2;  *)
(* then UART3 and UART2 are connected, culvert logs in again and relays    *)
(* the user's terminal.  On the way out, UART3 is disabled and the routes  *)
(* of soc/uart/mux.c are restored.                                         *)
(***************************************************************************)
EXTENDS Suart

CONSTANTS
  Keys,   \* what the user types
  Output  \* what the getty on UART2 prints

ASSUME ConsoleAssumption == SuartAssumption /\ {Keys, Output} \subseteq Seq(STRING)

VARIABLES
  pc, rc,
  at,       \* the step of the script
  mux,      \* HICRA: from where each UART receives
  saved,    \* ctx->hicra of the mux driver
  enabled,  \* the SuperIO devices that are enabled
  keys,     \* not typed yet
  out,      \* not printed yet
  recv,     \* history: what the BMC's UARTs have received from UART3
  muxLost   \* history: an access to the routes failed that nothing repairs

cmdVars == <<pc, rc, at>>
hwVars == <<mux, saved, enabled>>
vars == <<cmdVars, hwVars, keys, out, recv, muxLost, suartVars>>

Devs == {"suart3", "other"}
Receivers == {"uart2", "uart5"}
Pins == [d \in {"uart2", "uart3", "uart5"} |-> "pins"]

Init ==
  /\ SuartInit /\ pc = "probe" /\ rc = 0 /\ at = 1
  /\ mux = Pins /\ saved = Pins /\ enabled \in {{}, {"other"}}
  /\ keys = Keys /\ out = Output /\ recv = [r \in Receivers |-> <<>>]
  /\ muxLost = FALSE

-----------------------------------------------------------------------------
(***************************************************************************)
(* The user, the BMC and the line.                                         *)
(***************************************************************************)
Type ==
  /\ keys # <<>> /\ typed' = Append(typed, Head(keys)) /\ keys' = Tail(keys)
  /\ UNCHANGED <<cmdVars, hwVars, out, recv, muxLost, up, relay, msg, slots, retry, bad,
                 uout, tx, rx, eof, printed, overrun>>

Close ==
  /\ keys = <<>> /\ ~eof /\ eof' = TRUE
  /\ UNCHANGED <<cmdVars, hwVars, keys, out, recv, muxLost, up, relay, msg, slots, retry,
                 bad, uout, tx, rx, typed, printed, overrun>>

\* A byte leaves UART3 and reaches the UARTs that are routed to it just then.
Drain ==
  /\ Transmit
  /\ recv' = [r \in Receivers |-> IF mux[r] = "uart3" THEN Append(recv[r], Head(tx)) ELSE recv[r]]
  /\ UNCHANGED <<cmdVars, hwVars, keys, out, muxLost, up, relay, msg, slots, retry, bad,
                 uout, rx, terminal, printed, overrun>>

Arrive ==
  /\ out # <<>> /\ mux["uart3"] = "uart2" /\ Receive(Head(out)) /\ out' = Tail(out)
  /\ UNCHANGED <<cmdVars, hwVars, keys, recv, muxLost, up, relay, msg, slots, retry, bad,
                 uout, tx, terminal, printed>>

-----------------------------------------------------------------------------
(***************************************************************************)
(* The steps of do_console().  suart_flush(suart, "\n", 5) and (..., 8) go *)
(* on behind the end of the string.                                        *)
(***************************************************************************)
User == <<"user">>
Pass == <<"pass">>
Getty == <<"get", "t", "y">>
NlMore == <<"nl", "junk">>
Nl == <<"nl">>

Script == <<
  <<"clk_enable">>, <<"route">>, <<"init">>, <<"baud">>,
  <<"flush", User>>, <<"flush", NlMore>>, <<"sleep">>,
  <<"flush", Pass>>, <<"flush", NlMore>>, <<"sleep">>,
  <<"flush", Getty>>, <<"sleep">>,
  <<"restore">>, <<"connect">>, <<"connected">>, <<"baud">>,
  <<"flush", Nl>>, <<"sleep">>, <<"flush", User>>, <<"flush", NlMore>>, <<"sleep">>,
  <<"flush", Pass>>, <<"flush", Nl>>, <<"run">> >>

Doing(s) == pc = "script" /\ Script[at][1] = s
Done == at' = at + 1 /\ UNCHANGED <<pc, rc>>

(* Mutated: a UART that cannot be initialised leaves the routes as they are. *)
CleanUp_soc(s) == IF s \in {"clk_enable", "route", "init"} THEN "done" ELSE "unsuart"

\* The label each error goes to; soc_cleanup and host_cleanup are "done".
CleanUp(s) ==
  IF s \in {"clk_enable", "route"} THEN "done"
  ELSE IF s = "init" THEN "unmux" ELSE "unsuart"

Error == pc' = CleanUp(Script[at][1]) /\ rc' = -5 /\ UNCHANGED at

\* host_init() to uart_mux_get(): missing drivers leave rc at 0.
\* uart_mux_driver_init() saves the routes.
Probe ==
  /\ pc = "probe" /\ UNCHANGED at
  /\ \/ pc' = "done" /\ rc' = -5 /\ UNCHANGED saved
     \/ pc' = "done" /\ UNCHANGED <<rc, saved>>
     \/ pc' = "script" /\ saved' = mux /\ UNCHANGED rc
  /\ UNCHANGED <<mux, enabled, keys, out, recv, muxLost, suartVars>>

clk_enable ==
  /\ Doing("clk_enable") /\ (Done \/ Error)
  /\ UNCHANGED <<hwVars, keys, out, recv, muxLost, suartVars>>

\* uart_mux_route(mux, s, d): an access that fails may have reached HICRA.
Route(s, d) ==
  \/ mux' = [mux EXCEPT ![d] = s] /\ Done /\ UNCHANGED muxLost
  \/ /\ Error /\ mux' \in {mux, [mux EXCEPT ![d] = s]}
     /\ muxLost' = (muxLost \/ CleanUp(Script[at][1]) = "done")

RouteStep ==
  /\ \/ Doing("route") /\ Route("uart3", "uart5")
     \/ Doing("connect") /\ Route("uart3", "uart2")
     \/ Doing("connected") /\ Route("uart2", "uart3")
  /\ UNCHANGED <<saved, enabled, keys, out, recv, suartVars>>

\* suart_init_defaults(suart, sio_suart3)
suart_init ==
  /\ Doing("init")
  /\ \/ Done /\ enabled' = enabled \union {"suart3"} /\ ResetFifos
     \/ Error /\ enabled' \in {enabled, enabled \union {"suart3"}} /\ UNCHANGED <<tx, rx>>
  /\ UNCHANGED <<mux, saved, keys, out, recv, muxLost, up, relay, msg, slots, retry, bad,
                 uout, terminal, printed, overrun>>

\* suart_set_baud()
set_baud ==
  /\ Doing("baud")
  /\ \/ Done /\ ResetFifos
     \/ Error /\ (ResetFifos \/ UNCHANGED <<tx, rx>>)
  /\ UNCHANGED <<hwVars, keys, out, recv, muxLost, up, relay, msg, slots, retry, bad,
                 uout, terminal, printed, overrun>>

suart_call ==
  /\ \/ Doing("flush") /\ Flush(Script[at][2])
     \/ Doing("run") /\ Relay
  /\ UNCHANGED <<cmdVars, hwVars, keys, out, recv, muxLost>>

\* A step of the function; the step after a suart_flush() begins at once.
suart_step ==
  /\ SuartStep
  /\ IF up' = "idle" THEN Done ELSE UNCHANGED cmdVars
  /\ UNCHANGED <<hwVars, keys, out, recv, muxLost>>

suart_fails == Fails /\ UNCHANGED <<cmdVars, hwVars, keys, out, recv, muxLost>>

suart_failed ==
  /\ up = "failed" /\ up' = "idle" /\ Error
  /\ UNCHANGED <<hwVars, keys, out, recv, muxLost, relay, msg, slots, retry, bad, uout,
                 tx, rx, terminal, printed, overrun>>

\* sleep(): seconds, in which 16 bytes at 115200 baud, and far slower, have
\* left the FIFO.
Sleep ==
  /\ Doing("sleep") /\ tx = <<>> /\ Done
  /\ UNCHANGED <<hwVars, keys, out, recv, muxLost, suartVars>>

\* uart_mux_restore(), in the script and at mux_restore, where a failure is
\* only logged.
Restore ==
  /\ \/ Doing("restore") /\ Done /\ mux' = saved /\ UNCHANGED muxLost
     \/ Doing("restore") /\ Error /\ mux' \in {mux, saved} /\ UNCHANGED muxLost
     \/ pc = "unmux" /\ pc' = "done" /\ UNCHANGED <<rc, at>> /\ mux' = saved /\ UNCHANGED muxLost
     \/ /\ pc = "unmux" /\ pc' = "done" /\ UNCHANGED <<rc, at>>
        /\ mux' \in {mux, saved} /\ muxLost' = TRUE
  /\ UNCHANGED <<saved, enabled, keys, out, recv, suartVars>>

\* suart_destroy() selects the device ctx->dev, which nothing has ever set.
Unsuart ==
  /\ pc = "unsuart" /\ pc' = "unmux" /\ UNCHANGED <<rc, at>>
  /\ \E d \in Devs : enabled' = enabled \ {d} \/ UNCHANGED enabled
  /\ UNCHANGED <<mux, saved, keys, out, recv, muxLost, suartVars>>

Step ==
  \/ Probe \/ clk_enable \/ RouteStep \/ suart_init \/ set_baud \/ suart_call
  \/ suart_step \/ suart_failed \/ Sleep \/ Restore \/ Unsuart

Next == Step \/ suart_fails \/ Type \/ Close \/ Drain \/ Arrive

Spec == Init /\ [][Next]_vars

\* Culvert runs, the UART sends what it holds, and the BMC's output arrives.
FairSpec == Spec /\ WF_vars(Step) /\ WF_vars(Drain) /\ WF_vars(Arrive)

-----------------------------------------------------------------------------
TypeOK ==
  /\ pc \in {"probe", "script", "unsuart", "unmux", "done"} /\ rc \in {0, -5}
  /\ at \in 1 .. Len(Script) /\ enabled \subseteq Devs /\ muxLost \in BOOLEAN
  /\ up \in {"idle", "failed", "flush", "lsr", "thr", "poll", "read", "rbr", "print"}
  /\ slots \in 0 .. Fifo /\ retry \in 0 .. Retries /\ Len(uout) <= OutSize
  /\ Len(tx) <= Fifo /\ Len(rx) <= Fifo

IsPrefixOf(s, t) == Len(s) <= Len(t) /\ s = SubSeq(t, 1, Len(s))

Login5 == User \o NlMore \o Pass \o NlMore \o Getty
Login2 == Nl \o User \o NlMore \o Pass \o Nl

Running == pc = "script" /\ Script[at][1] = "run" /\ relay

\* Every byte of the two logins, and every key behind them, goes out once, in
\* order, and to the UART it is meant for: none is still in the FIFO when the
\* routes change, and none is written to a full FIFO (cmd/console.c, "We need
\* to wait for the XMIT FIFO to clear"; suart.c, UART_LSR_THRE).
Addressed ==
  /\ IsPrefixOf(recv["uart5"], Login5) /\ IsPrefixOf(recv["uart2"], Login2 \o Keys)
  /\ recv["uart2"] # <<>> => recv["uart5"] = Login5
  /\ Running => recv["uart2"] \o tx \o msg \o typed \o keys = Login2 \o Keys

\* While the relay runs, the terminal gets what the UART receives, in order and
\* without a gap, however the polls, the retries and the partial writes fall,
\* unless the FIFO overran, until an access fails (suart.c, suart_read and
\* suart_run).
Shown ==
  Running /\ up # "failed" /\ ~overrun =>
    LET s == printed \o uout \o rx \o out
    IN  s = SubSeq(Output, Len(Output) - Len(s) + 1, Len(Output))

\* Whatever fails, the command ends with the routes it found, unless an access
\* to the routes failed behind which it makes no other (cmd/console.c,
\* mux_restore).
Restored == pc = "done" /\ ~muxLost => mux = saved

\* The command fails or gets to the relay, and there what the user types goes
\* out and what the BMC prints is shown, until the user's end of the terminal is
\* closed (suart.c, "We want to go read RBR ASAP").
Flows ==
  /\ <>(pc = "done" \/ Running)
  /\ Running ~> \/ pc = "done" \/ eof
                \/ typed = <<>> /\ msg = <<>> /\ out = <<>> /\ rx = <<>> /\ uout = <<>>

-----------------------------------------------------------------------------
(***************************************************************************)
(* Said of the program, and not what it does: see "Known divergences" in   *)
(* README.md.                                                              *)
(***************************************************************************)

\* suart.c: "Disable the SUART".  The UART that was enabled is disabled, and no
\* other device.
SuartDisabled ==
  [][pc = "unsuart" /\ enabled' # enabled => enabled' = enabled \ {"suart3"}]_vars

\* suart.c: "UART output from the BMC to send to the Host".  The relay shows
\* what the BMC prints also behind the end of its input.
ShownToTheEnd ==
  Running ~> pc = "done" \/ (out = <<>> /\ rx = <<>> /\ uout = <<>>)

=============================================================================
