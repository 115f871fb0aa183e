-------------------------------- MODULE Ts16 --------------------------------
(***************************************************************************)
(* The debug UART behind a Digi PortServer TS 16, ts16.c under the entry   *)
(* to debug mode of bridge/debug.c.  Two connections lead to the terminal  *)
(* server: on "ctl" culvert logs in and types commands that set up the     *)
(* port, on "raw" it talks to the BMC through the port.  The BMC takes the *)
(* password of its debug mode at 1200 baud and then speaks at 115200.      *)
(*                                                                         *)
(* What the functions do is the list of their steps, todo.  A step that    *)
(* fails names the list that replaces the rest.                            *)
(***************************************************************************)
EXTENDS Naturals, Sequences, Functions

CONSTANTS
  MaxEnters,  \* how often one behaviour enters debug mode
  MaxStarved  \* how many allocations fail: asprintf(), fdopen()

Ts16Assumption == MaxEnters \in Nat /\ MaxStarved \in Nat

Link == {"ctl", "raw"}
Baud == {"1200", "115200"}

VARIABLES
  state,    \* of the bridge: "off", "up", "released", "end" or, by a signal, "killed"
  job,      \* "probe", "release", "reinit" or "destroy"
  todo,     \* the steps that are left of it
  conn,     \* per link: "none", "up", "reset", or "dead" when culvert was told
  port,     \* of the terminal server: binary mode, baud rate, a change not in force
  told,     \* typed at the terminal server, and not executed
  shown,    \* what it asks for and culvert has not read: prompts
  bmc,      \* "console" or "debug"
  prompt,   \* the debug shell's prompt is on its way
  force,    \* ctx->force_quit, which debug_driver_probe() leaves uninitialised
  good,     \* the credentials are right
  enters, starved,  \* the events that are bounded
  broken,   \* history: links that were reset by the other end
  missed    \* history: a prompt lay across the end of prompt_expect()'s buffer

culvert == <<state, job, todo, enters, starved, force, good>>
server == <<port, told, shown, missed>>
vars == <<culvert, conn, broken, server, bmc, prompt>>

-----------------------------------------------------------------------------
(***************************************************************************)
(* The functions.                                                          *)
(***************************************************************************)
Tell(cmd, fail) == << <<"tell", cmd, fail>> >>  \* prompt_expect_run()
Run(cmd, fail) == << <<"run", cmd, fail>> >>    \* prompt_run() on the console
Sleep == << <<"sleep", "1", "">> >>
Connect(l, fail) == << <<"connect", l, fail>>, <<"fdopen", l, fail>> >>
Close(l) == << <<"close", l, "">> >>            \* prompt_destroy()
Set(s) == << <<"set", s, "">> >>

(* Mutated: the rate is not given the time to change.                       *)
ts16_set_baud_hasty(rate, fail) == Tell(rate, fail)

ts16_set_baud(rate, fail) == Tell(rate, fail) \o Sleep

ts16_control_destroy ==
  Tell("off", "abandon") \o Tell("kill", "abandon") \o Sleep \o Close("ctl") \o Set("end")

(* Mutated: the connection to the port fails, and the port is left as it is. *)
ts16_init_leaves ==
  Connect("ctl", "drop") \o Tell("user", "drop") \o Tell("password", "drop")
    \o Tell("on", "drop") \o Tell("kill", "cleanup_port") \o Sleep
    \o Connect("raw", "drop")

ts16_init ==
  Connect("ctl", "drop") \o Tell("user", "drop") \o Tell("password", "drop")
    \o Tell("on", "drop") \o Tell("kill", "cleanup_port") \o Sleep
    \o Connect("raw", "console_destroy")

debug_enter ==
  (IF force THEN ts16_set_baud("115200", "return") \o Run("q", "return") ELSE <<>>)
    \o ts16_set_baud("1200", "return")
    \o Run("password", "cleanup_port_password")
    \o << <<"expect", "$ ", "cleanup_port_password">> >>
    \o ts16_set_baud("115200", "return") \o Set("up")

debug_exit ==
  Run("q", "return") \o Sleep \o Run("", "ignore_empty") \o ts16_set_baud("115200", "return")

debug_destroy == Close("raw") \o ts16_control_destroy

\* Behind debug_enter() and debug_exit(): debug_driver_probe() and
\* debug_driver_destroy() go on to debug_destroy().
Return == IF job \in {"probe", "destroy"} THEN debug_destroy ELSE <<>>

OnFailure(name) ==
  CASE name = "abandon" -> Set("end")
    [] name = "drop" -> Close("ctl") \o Set("end")
    [] name = "cleanup_port" ->
         Tell("off", "cleanup_kill") \o Tell("kill", "cleanup_sleep")
           \o Sleep \o Close("ctl") \o Set("end")
    [] name = "cleanup_kill" -> Tell("kill", "cleanup_sleep") \o Sleep \o Close("ctl") \o Set("end")
    [] name = "cleanup_sleep" -> Sleep \o Close("ctl") \o Set("end")
    [] name = "console_destroy" -> ts16_control_destroy
    [] name = "cleanup_port_password" -> ts16_set_baud("115200", "run_empty") \o Run("", "return") \o Return
    [] name = "run_empty" -> Run("", "return") \o Return
    [] name = "ignore_empty" -> ts16_set_baud("115200", "return") \o Return
    [] name = "return" -> Return

-----------------------------------------------------------------------------
(***************************************************************************)
(* The other ends (external).  A change of the port's mode takes effect    *)
(* when the port is reset, a change of its rate at once.                   *)
(***************************************************************************)
Text == [bin |-> FALSE, baud |-> "115200", stale |-> FALSE]

Init ==
  /\ state = "off" /\ job = "probe" /\ enters = 1 /\ starved = 0
  /\ force \in BOOLEAN /\ good \in BOOLEAN
  /\ todo = ts16_init \o debug_enter
  /\ conn = [l \in Link |-> "none"] /\ broken = {}
  /\ port = Text /\ told = <<>> /\ shown = <<>> /\ missed = FALSE
  /\ bmc \in {"console", "debug"} /\ prompt = FALSE

\* The prompt behind what the terminal server prints is seen by
\* prompt_expect(), unless its buffer is full in the midst of it.
Ask(p) ==
  \/ shown' = Append(shown, p) /\ UNCHANGED missed
  \/ missed' = TRUE /\ UNCHANGED shown

Execute ==
  /\ told # <<>> /\ conn["ctl"] = "up" /\ told' = Tail(told)
  /\ Ask(CASE told[1] = "user" -> "password: "
           [] told[1] = "password" /\ ~good -> "login: "
           [] OTHER -> "#> ")
  /\ port' = CASE told[1] \in {"on", "off"} ->
                    [port EXCEPT !.bin = (told[1] = "on"), !.stale = TRUE]
               [] told[1] = "kill" -> [port EXCEPT !.stale = FALSE]
               [] told[1] \in Baud -> [port EXCEPT !.baud = told[1]]
               [] OTHER -> port
  /\ UNCHANGED <<culvert, conn, broken, bmc, prompt>>

Break(l) ==
  /\ conn[l] = "up" /\ conn' = [conn EXCEPT ![l] = "reset"] /\ broken' = broken \union {l}
  /\ IF l = "ctl" THEN told' = <<>> /\ shown' = <<>> /\ UNCHANGED prompt
                  ELSE prompt' = FALSE /\ UNCHANGED <<told, shown>>
  /\ UNCHANGED <<culvert, port, missed, bmc>>

\* The port passes on what is sent to it, at this rate.
Passes(rate) == port = [bin |-> TRUE, baud |-> rate, stale |-> FALSE]

-----------------------------------------------------------------------------
(***************************************************************************)
(* The steps.                                                              *)
(***************************************************************************)
Is(op) == todo # <<>> /\ Head(todo)[1] = op
Arg == Head(todo)[2]
Through == IF Is("tell") THEN "ctl" ELSE "raw"
Go == todo' = Tail(todo) /\ UNCHANGED <<job, enters, force, good>>
FailStep == todo' = OnFailure(Head(todo)[3]) /\ UNCHANGED <<state, job, enters, force, good>>

\* read() and write() report a reset once.  Behind that read() returns 0,
\* which prompt_expect() repeats for ever, and write() is answered by SIGPIPE.
ToldOfReset ==
  /\ Is("tell") \/ Is("run") \/ Is("expect")
  /\ conn[Through] = "reset" /\ conn' = [conn EXCEPT ![Through] = "dead"]
  /\ FailStep /\ UNCHANGED <<starved, broken, server, bmc, prompt>>

Sigpipe ==
  /\ Is("run") /\ conn["raw"] = "dead"
  /\ state' = "killed" /\ todo' = <<>>
  /\ UNCHANGED <<job, enters, starved, force, good, conn, broken, server, bmc, prompt>>

Starve ==
  /\ \/ Is("tell") /\ Arg \notin {"user", "password"}
     \/ Is("fdopen")
  /\ starved < MaxStarved /\ starved' = starved + 1
  /\ FailStep /\ UNCHANGED <<conn, broken, server, bmc, prompt>>

Expected ==
  CASE Arg = "user" -> "login: " [] Arg = "password" -> "password: " [] OTHER -> "#> "

\* prompt_expect(), which takes whatever has arrived, and prompt_run().
prompt_expect_run ==
  /\ Is("tell") /\ conn["ctl"] = "up" /\ Expected \in Range(shown)
  /\ shown' = <<>> /\ told' = Append(told, Arg)
  /\ Go /\ UNCHANGED <<state, starved, conn, broken, port, missed, bmc, prompt>>

\* A second is enough for the terminal server.
SleepStep ==
  /\ Is("sleep") /\ told = <<>>
  /\ Go /\ UNCHANGED <<state, starved, conn, broken, server, bmc, prompt>>

ConnectStep ==
  /\ Is("connect")
  /\ \/ /\ Go /\ conn' = [conn EXCEPT ![Arg] = "up"]
        /\ IF Arg = "ctl" THEN Ask("login: ") ELSE UNCHANGED <<shown, missed>>
        /\ UNCHANGED state
     \/ FailStep /\ UNCHANGED <<conn, shown, missed>>
  /\ UNCHANGED <<starved, broken, port, told, bmc, prompt>>

fdopen ==
  /\ Is("fdopen") /\ Go /\ UNCHANGED <<state, starved, conn, broken, server, bmc, prompt>>

prompt_run ==
  /\ Is("run") /\ conn["raw"] = "up"
  /\ CASE Arg = "password" /\ bmc = "console" /\ Passes("1200") -> bmc' = "debug" /\ prompt' = TRUE
       [] Arg = "q" /\ Passes("115200") -> bmc' = "console" /\ UNCHANGED prompt
       [] OTHER -> UNCHANGED <<bmc, prompt>>
  /\ Go /\ UNCHANGED <<state, starved, conn, broken, server>>

Expect ==
  /\ Is("expect") /\ conn["raw"] = "up" /\ prompt /\ prompt' = FALSE
  /\ Go /\ UNCHANGED <<state, starved, conn, broken, server, bmc>>

CloseStep ==
  /\ Is("close") /\ conn' = [conn EXCEPT ![Arg] = "none"]
  /\ Go /\ UNCHANGED <<state, starved, broken, server, bmc, prompt>>

SetStep ==
  /\ Is("set") /\ state' = Arg
  /\ Go /\ UNCHANGED <<starved, conn, broken, server, bmc, prompt>>

\* What the program asks of the bridge that is open: the reset of the SoC
\* releases it and takes it up again (wdt_perform_reset()), and the end of the
\* command destroys it.
Start(j, from, steps) ==
  /\ todo = <<>> /\ state \in from /\ state' = "off" /\ job' = j /\ todo' = steps
  /\ enters' = IF j = "reinit" THEN enters + 1 ELSE enters
  /\ UNCHANGED <<starved, force, good, conn, broken, server, bmc, prompt>>

debug_driver_release == enters < MaxEnters /\ Start("release", {"up"}, debug_exit \o Set("released"))
debug_driver_reinit == Start("reinit", {"released"}, debug_enter)
debug_driver_destroy == Start("destroy", {"off", "up", "released"}, debug_exit \o debug_destroy)

Step ==
  \/ ToldOfReset \/ Sigpipe \/ prompt_expect_run \/ SleepStep \/ ConnectStep \/ fdopen
  \/ prompt_run \/ Expect \/ CloseStep \/ SetStep

Next ==
  \/ Step \/ Starve \/ Execute \/ \E l \in Link : Break(l)
  \/ debug_driver_release \/ debug_driver_reinit \/ debug_driver_destroy

Spec == Init /\ [][Next]_vars
FairSpec == Spec /\ WF_vars(Step) /\ WF_vars(Execute)

-----------------------------------------------------------------------------
TypeOK ==
  /\ state \in {"off", "up", "released", "end", "killed"}
  /\ job \in {"probe", "release", "reinit", "destroy"}
  /\ conn \in [Link -> {"none", "up", "reset", "dead"}] /\ broken \subseteq Link
  /\ port \in [bin : BOOLEAN, baud : Baud, stale : BOOLEAN]
  /\ bmc \in {"console", "debug"} /\ prompt \in BOOLEAN /\ missed \in BOOLEAN
  /\ enters \in 0 .. MaxEnters /\ starved \in 0 .. MaxStarved

\* A BMC that somebody left in debug mode is only brought out of it by
\* force_quit.
Unquit == job = "probe" /\ ~force
Waits == bmc = "console" \/ Unquit

\* The port and the BMC agree on the rate: the password is sent to a BMC that
\* waits for it, at 1200 baud, and while the bridge is in use the debug shell
\* is reached at 115200, whatever failed before (debug.c, debug_enter();
\* ts16.c, ts16_set_baud()), as long as the terminal server is connected; only
\* without force_quit may the first password meet a BMC in debug mode.
InStep ==
  conn["ctl"] = "up" =>
    /\ (Is("run") /\ Arg = "password" => Waits /\ Passes("1200"))
    /\ (state = "up" => bmc = "debug" /\ Passes("115200"))

\* When culvert has closed its connection to a terminal server that stayed,
\* the port passes text again (ts16.c, cleanup_port and
\* ts16_control_destroy()), unless memory ran out for the second time, which
\* the clean-up behind the first does not survive; and a bridge that was in use has the BMC out of
\* debug mode, at 115200, unless the other connection broke or memory ran out.
LeftAsFound ==
  state = "end" /\ conn["ctl"] = "none" /\ "ctl" \notin broken /\ starved <= 1 =>
    /\ ~port.bin /\ ~port.stale
    /\ (job # "probe" /\ broken = {} /\ starved = 0 => bmc = "console" /\ port = Text)

\* Every function returns, if the terminal server knows the user, stays and
\* is understood, the connection to the port stays, and the BMC answers the
\* password, which one that was left in debug mode does not (prompt.c,
\* prompt_expect()).
Unheard == Unquit /\ Is("expect") /\ ~prompt
Returns == todo # <<>> ~> todo = <<>> \/ ~good \/ missed \/ broken # {} \/ Unheard

-----------------------------------------------------------------------------
(***************************************************************************)
(* Said of the program, and not what it does: see "Known divergences" in   *)
(* README.md.                                                              *)
(***************************************************************************)

\* ts16.c, cleanup_port: "Disabling binary mode on port".  A connection that
\* breaks leaves no port in binary mode while the terminal server is there.
Disables == state \in {"end", "killed"} /\ "ctl" \notin broken => ~port.bin

\* ts16.c, cleanup_concentrator.  No connection is left open at the end.
Closed == state = "end" => \A l \in Link : conn[l] = "none"

=============================================================================
