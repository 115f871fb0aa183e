----------------------------- MODULE DebugUart ------------------------------
(***************************************************************************)
(* The debug UART bridge, bridge/debug.c over prompt.c: commands are typed *)
(* at the BMC's debug shell, which echoes each of them, prints its result  *)
(* and then its prompt.  What it prints arrives item by item, whenever the *)
(* line gets around to it.                                                 *)
(*                                                                         *)
(* prompt.c reads the same terminal in two ways.  prompt_gets() goes       *)
(* through the stdio buffer, into which it takes whatever has arrived;     *)
(* prompt_expect() reads the file descriptor and never sees what is in the *)
(* buffer.                                                                 *)
(***************************************************************************)
EXTENDS Ahb, Functions

CONSTANTS
  DumpMin,   \* a read of fewer units is done unit by unit: 4 in debug_read()
  DumpMax,   \* DEBUG_D_MAX_LEN
  LineLen,   \* units on a line of a dump
  ByteMax,   \* a write of at most this many is done unit by unit: 4 in debug_write()
  UMax,      \* DEBUG_CMD_U_MAX
  Reload,    \* the watchdog register whose write is not answered
  IoErrors,  \* whether reads and writes of the terminal may fail
  MaxNoise,  \* how many lines of dumps are garbled in transit
  MaxEnters, \* how often one behaviour enters debug mode ...
  MaxRetries \* ... and repeats a dump

DebugAssumption ==
  /\ {DumpMin, DumpMax, LineLen, ByteMax, UMax} \subseteq Nat \ {0}
  /\ IoErrors \in BOOLEAN /\ {MaxNoise, MaxEnters, MaxRetries} \subseteq Nat

VARIABLES
  state,     \* "off", "enter" or "up"
  pc,        \* where the call in progress is
  consumed,  \* of debug_read(), within one dump
  wire,      \* printed by the shell, and on its way
  rx,        \* arrived, and in the terminal's queue
  stdio,     \* in the stream's buffer
  owed,      \* history: a prompt, or the rest of a command, was left to somebody else
  noise,     \* history: lines garbled ...
  enters, retries  \* ... and the events that are bounded

tty == <<wire, rx, stdio>>
bounds == <<enters, retries>>
vars == <<ahbVars, state, pc, consumed, tty, owed, noise, bounds>>

Item(k, d) == [kind |-> k, data |-> d]
Prompt == Item("prompt", <<>>)
Echo == Item("echo", <<>>)
Newline == Item("newline", <<>>)  \* the echo of an empty command

Init ==
  /\ AhbInit /\ state = "off" /\ pc = "idle" /\ consumed = 0
  /\ wire = <<>> /\ rx = <<>> /\ stdio = <<>> /\ owed = FALSE /\ noise = 0
  /\ enters = 0 /\ retries = 0

-----------------------------------------------------------------------------
\* The line.
Deliver ==
  /\ wire # <<>>
  /\ rx' = Append(rx, Head(wire)) /\ wire' = Tail(wire)
  /\ UNCHANGED <<ahbVars, state, pc, consumed, stdio, owed, noise, bounds>>

Garble ==
  /\ noise < MaxNoise /\ wire # <<>> /\ Head(wire).kind = "line"
  /\ wire' = <<Item("garbled", <<>>)>> \o Tail(wire) /\ noise' = noise + 1
  /\ UNCHANGED <<ahbVars, state, pc, consumed, rx, stdio, owed, bounds>>

-----------------------------------------------------------------------------
\* debug_enter(): the password, then prompt_expect().
EnterSend ==
  /\ state = "off" /\ enters < MaxEnters
  /\ state' = "enter" /\ wire' = Append(wire, Prompt) /\ enters' = enters + 1
  /\ UNCHANGED <<ahbVars, pc, consumed, rx, stdio, owed, noise, retries>>

Prompted == \E i \in DOMAIN rx : rx[i] = Prompt

Enter ==
  /\ state = "enter"
  /\ \/ Prompted /\ state' = "up" /\ rx' = <<>> /\ UNCHANGED owed
     \/ IoErrors /\ state' = "off" /\ owed' = TRUE /\ UNCHANGED rx
  /\ UNCHANGED <<ahbVars, pc, consumed, wire, stdio, noise, bounds>>

\* debug_exit(), also for release: "q", and an empty line whose echo is left.
debug_exit ==
  /\ state = "up" /\ ~busy /\ state' = "off"
  /\ wire' = wire \o <<Echo, Newline>>
  /\ UNCHANGED <<ahbVars, pc, consumed, rx, stdio, owed, noise, bounds>>

Call(r) ==
  /\ state = "up" /\ Begin(r[1], r[2], r[3]) /\ pc' = "run" /\ consumed' = 0
  /\ UNCHANGED <<state, tty, owed, noise, bounds>>

\* Which command does the work, and how much of it a single one does.
Command ==
  CASE op = "readl" -> "r"
    [] op = "read" /\ len < DumpMin -> "i"
    [] op = "read" /\ len >= DumpMin -> "d"
    [] op = "writel" -> "w"
    [] op = "write" /\ len <= ByteMax -> "o"
    [] op = "write" /\ len > ByteMax -> "u"

AtMost(n) == IF len - done > n THEN n ELSE len - done
Chunk ==
  CASE Command = "d" -> AtMost(DumpMax)
    [] Command = "u" -> AtMost(UMax)
    [] OTHER -> 1

\* What the shell prints (external): words of memory, a dump in lines.
Words(a, n) == [k \in 1 .. n |-> mem[a + k - 1]]
DumpLines(a, n) ==
  [l \in 1 .. (n + LineLen - 1) \div LineLen |->
     Item("line", Words(a + (l - 1) * LineLen,
                        IF n - (l - 1) * LineLen < LineLen
                          THEN n - (l - 1) * LineLen ELSE LineLen))]
Reply ==
  CASE Command \in {"r", "i"} -> <<Item("word", Words(phys + done, 1))>>
    [] Command = "d" -> DumpLines(phys + done, Chunk)
    [] OTHER -> <<>>

\* prompt_run(), and the answer of the shell.
prompt_run(items) == wire' = wire \o items

\* "This kludge is super annoying": the reset that debug_writel() expects.
Unanswered == Command = "w" /\ phys = Reload

\* One command, and for a "u" the prompt_write() of its data.
Run ==
  /\ pc = "run" /\ done < len
  /\ prompt_run(<<Echo>> \o Reply \o <<Prompt>>)
  /\ IF op \in Writes THEN Move(Chunk, phys + done) ELSE UNCHANGED ahbVars
  /\ \/ Command = "d" /\ pc' = "echo" /\ UNCHANGED owed
     \/ Unanswered /\ pc' = "run" /\ owed' = TRUE
     \/ Command # "d" /\ ~Unanswered /\ pc' = "expect" /\ UNCHANGED owed
  /\ UNCHANGED <<state, consumed, rx, stdio, noise, bounds>>

\* The bridge returns -1.
Fail ==
  /\ Return("fail") /\ pc' = "idle"
  /\ UNCHANGED <<state, consumed, wire, stdio, noise, bounds>>

\* read() on the terminal fails, or write() before the shell has got anything.
IoError ==
  /\ IoErrors /\ pc # "idle"
  /\ Fail /\ owed' = (owed \/ pc # "run") /\ UNCHANGED rx

\* write() fails behind a part of a command, or of the data of a "u", of which
\* the shell may have stored some; or it fails, and the shell has got it all.
\* What a shell that waits for the rest takes the next command for is not
\* looked at: owed ends what is claimed.
HalfSent ==
  LET stored(n) == [a \in Addr |-> IF op \in Writes /\ phys + done <= a /\ a < phys + done + n
                                     THEN <<calls, a - phys>> ELSE mem[a]]
  IN  /\ IoErrors /\ pc = "run" /\ done < len
      /\ \/ prompt_run(<<Echo>>) /\ \E n \in 0 .. Chunk - 1 : mem' = stored(n)
         \/ prompt_run(<<Echo>> \o Reply \o <<Prompt>>) /\ mem' = stored(Chunk)
      /\ busy' = FALSE /\ rc' = "fail" /\ pc' = "idle" /\ owed' = TRUE
      /\ UNCHANGED <<op, phys, len, done, buf, calls, state, consumed, rx, stdio, noise, bounds>>

(* Mutated: the prompt is not waited for.                                   *)
Expect_any ==
  /\ pc = "expect" /\ op \in Writes /\ rx # <<>>
  /\ rx' = <<>> /\ pc' = "run"
  /\ UNCHANGED <<ahbVars, state, consumed, wire, stdio, owed, noise, bounds>>

\* prompt_expect(): everything up to a prompt, and what was read with it.
Expect ==
  /\ pc = "expect" /\ op \in Writes /\ Prompted
  /\ rx' = <<>> /\ pc' = "run"
  /\ UNCHANGED <<ahbVars, state, consumed, wire, stdio, owed, noise, bounds>>

Junk == <<0, Size>>

\* debug_read_fixed(): what follows the first line and precedes the prompt.
Response ==
  LET p == CHOOSE i \in DOMAIN rx : rx[i] = Prompt /\ \A j \in 1 .. i - 1 : rx[j] # Prompt
  IN  IF p = 1 THEN "none"
      ELSE IF p > 2 /\ rx[2].kind = "word" THEN rx[2].data[1] ELSE Junk

ReadFixed ==
  /\ pc = "expect" /\ op \notin Writes /\ Prompted
  /\ rx' = <<>>
  /\ \/ Response = "none" /\ Fail
     \/ /\ Response # "none" /\ pc' = "run"
        /\ buf' = Append(buf, Response) /\ done' = done + 1
        /\ UNCHANGED <<mem, busy, op, phys, len, rc, calls, state, consumed, wire, stdio, noise, bounds>>
  /\ UNCHANGED owed

-----------------------------------------------------------------------------
\* prompt_gets(): the buffer is filled when it holds no whole line, and the
\* line that is returned starts with the prompts before it.
Ends(i) == stdio[i].kind # "prompt"
HasLine == \E i \in DOMAIN stdio : Ends(i)
Eol == CHOOSE i \in DOMAIN stdio : Ends(i) /\ \A j \in 1 .. i - 1 : ~Ends(j)
Drop == stdio' = SubSeq(stdio, Eol + 1, Len(stdio))

Fill ==
  /\ pc \in {"echo", "line"} /\ ~HasLine /\ rx # <<>>
  /\ stdio' = stdio \o rx /\ rx' = <<>>
  /\ UNCHANGED <<ahbVars, state, pc, consumed, wire, owed, noise, bounds>>

(* Mutated: the sense of the test for a lone prompt is inverted.            *)
GetEcho_inverted ==
  /\ pc = "echo" /\ HasLine /\ Drop
  /\ pc' = IF Eol = 2 /\ stdio[2] = Newline THEN "line" ELSE "echo"
  /\ UNCHANGED <<ahbVars, state, consumed, wire, rx, owed, noise, bounds>>

\* "Eat the echoed command", after any lone prompt from a prior run.
GetEcho ==
  /\ pc = "echo" /\ HasLine /\ Drop
  /\ pc' = IF Eol = 2 /\ stdio[2] = Newline THEN "echo" ELSE "line"
  /\ UNCHANGED <<ahbVars, state, consumed, wire, rx, owed, noise, bounds>>

\* debug_parse_d() stores a line of the dump at the cursor.
GetLine ==
  /\ pc = "line" /\ HasLine /\ stdio[Eol].kind = "line" /\ Drop
  /\ buf' = buf \o stdio[Eol].data
  /\ LET c == consumed + Len(stdio[Eol].data) IN
       IF c < Chunk
         THEN consumed' = c /\ UNCHANGED <<pc, done, owed>>
         ELSE /\ pc' = "run" /\ consumed' = 0 /\ done' = done + Chunk
              /\ owed' = (owed \/ Prompt \notin Range(SubSeq(stdio, Eol + 1, Len(stdio))))
  /\ UNCHANGED <<mem, busy, op, phys, len, rc, calls, state, wire, rx, noise, bounds>>

\* A line that does not parse: an empty command, its prompt, and the dump all
\* over again; the cursor stays where it is.
BadLine ==
  /\ pc = "line" /\ HasLine /\ stdio[Eol].kind # "line" /\ Drop
  /\ retries < MaxRetries /\ retries' = retries + 1
  /\ prompt_run(<<Newline, Prompt>>) /\ pc' = "retry"
  /\ UNCHANGED <<ahbVars, state, consumed, rx, owed, noise, enters>>

Retry ==
  /\ pc = "retry" /\ Prompted
  /\ rx' = <<>> /\ pc' = "run" /\ consumed' = 0
  /\ UNCHANGED <<ahbVars, state, wire, stdio, owed, noise, bounds>>

Done ==
  /\ pc = "run" /\ done = len
  /\ Return("ok") /\ pc' = "idle"
  /\ UNCHANGED <<state, consumed, tty, owed, noise, bounds>>

Step ==
  \/ EnterSend \/ Enter \/ Run \/ Expect \/ ReadFixed
  \/ Fill \/ GetEcho \/ GetLine \/ BadLine \/ Retry \/ Done

Next ==
  \/ Step \/ Deliver \/ Garble \/ IoError \/ HalfSent \/ debug_exit
  \/ \E r \in Requests : Call(r)

Spec == Init /\ [][Next]_vars
FairSpec == Spec /\ WF_vars(Step) /\ WF_vars(Deliver)

-----------------------------------------------------------------------------
TypeOK ==
  /\ busy = (pc # "idle") /\ done \in 0 .. len /\ phys + len <= Size
  /\ state \in {"off", "enter", "up"} /\ (busy => state = "up")
  /\ pc \in {"idle", "run", "expect", "echo", "line", "retry"}
  /\ consumed \in 0 .. len /\ noise \in 0 .. MaxNoise /\ owed \in BOOLEAN
  /\ enters \in 0 .. MaxEnters /\ retries \in 0 .. MaxRetries

\* A read or a write that succeeds has moved the words of its own addresses,
\* whatever the pace at which the shell's answers arrive and whatever calls
\* came before, as long as no line was garbled and nobody returned leaving
\* the shell's prompt behind in the terminal, or half a command (debug.c,
\* prompt.c).
InStep == noise = 0 /\ ~owed => Delivered

\* Every call returns, under the same conditions: nobody waits for a prompt
\* that was swallowed with the lines before it (debug.c, prompt_expect() after
\* prompt_gets()).
Returns == busy ~> ~busy \/ owed \/ noise > 0

-----------------------------------------------------------------------------
(***************************************************************************)
(* Said of the program, and not what it does: see "Known divergences" in   *)
(* README.md.                                                              *)
(***************************************************************************)

\* README.md: "A hardware-provided UART debug shell with arbitrary AHB
\* access".  A call that succeeds has moved the words it was asked for.
Answered == Delivered

\* debug.c: "Retrying from address".  Data never passes the end of the
\* caller's buffer.
InBuffer == Len(buf) <= len

=============================================================================
