------------------------------- MODULE Suart --------------------------------
(***************************************************************************)
(* The SuperIO UART that culvert drives from the host, uart/suart.c: a     *)
(* 16550 with two FIFOs that is polled through its line status register.   *)
(* suart_flush() pushes out a buffer and throws away what comes in;        *)
(* suart_run() relays between the user's terminal and the UART.            *)
(*                                                                         *)
(* Every access may fail, with or without an effect, or report an error    *)
(* condition of the line; either way the function returns at once.         *)
(***************************************************************************)
EXTENDS Integers, Sequences

CONSTANTS
  Fifo,     \* depth of a FIFO, slots of suart_write() and size of _uin_buf: 16
  OutSize,  \* size of _uout_buf
  Retries   \* of suart_read()

SuartAssumption == {Fifo, OutSize, Retries} \subseteq Nat \ {0}

VARIABLES
  up,      \* where the function is, "idle" or "failed"
  relay,   \* suart_run() runs, not suart_flush()
  msg,     \* what suart_write() has still to write
  slots,   \* of suart_write()
  retry, bad,  \* of suart_read(): the retries left, and whether rc is set
  uout,    \* read from the UART, and not written to the terminal
  tx, rx,  \* the FIFOs
  typed,   \* waits on the terminal for read() ...
  eof,     \* ... whose other end is closed behind it
  printed, \* what the terminal has received
  overrun  \* history: a full receive FIFO has lost a byte

terminal == <<typed, eof>>
suartVars == <<up, relay, msg, slots, retry, bad, uout, tx, rx, terminal, printed, overrun>>

SuartInit ==
  /\ up = "idle" /\ relay = FALSE /\ msg = <<>> /\ slots = 0 /\ retry = 0 /\ bad = FALSE
  /\ uout = <<>> /\ tx = <<>> /\ rx = <<>> /\ typed = <<>> /\ eof = FALSE
  /\ printed = <<>> /\ overrun = FALSE

-----------------------------------------------------------------------------
\* The other end of the line, one byte at a time (external).
Transmit == tx # <<>> /\ tx' = Tail(tx)
Receive(b) ==
  IF Len(rx) < Fifo THEN rx' = Append(rx, b) /\ UNCHANGED overrun
  ELSE overrun' = TRUE /\ UNCHANGED rx

-----------------------------------------------------------------------------
\* suart_flush(buf, len) and suart_run() are called.
Flush(buf) ==
  /\ up = "idle" /\ up' = "flush" /\ msg' = buf /\ relay' = FALSE
  /\ UNCHANGED <<slots, retry, bad, uout, tx, rx, terminal, printed, overrun>>

Relay ==
  /\ up = "idle" /\ up' = "poll" /\ relay' = TRUE
  /\ UNCHANGED <<msg, slots, retry, bad, uout, tx, rx, terminal, printed, overrun>>

\* suart_set_baud() and the end of __suart_init() reset the FIFOs.
ResetFifos == tx' = <<>> /\ rx' = <<>>

\* "Force a reset of the RCVR FIFO, we're flushing XMIT"
FlushReset ==
  /\ up = "flush"
  /\ IF msg # <<>> THEN up' = "lsr" /\ rx' = <<>>
     ELSE up' = "idle" /\ UNCHANGED rx
  /\ UNCHANGED <<relay, msg, slots, retry, bad, uout, tx, terminal, printed, overrun>>

(* Mutated: UART_LSR_THRE is not looked at.                                 *)
WriteStatus_no_thre ==
  /\ up = "lsr"
  /\ IF rx # <<>> THEN up' = (IF relay THEN "read" ELSE "flush") /\ UNCHANGED slots
     ELSE up' = "thr" /\ slots' = Fifo
  /\ UNCHANGED <<relay, msg, retry, bad, uout, tx, rx, terminal, printed, overrun>>

\* suart_write() does nothing if there is something to read, or if the FIFO is
\* not empty.
WriteStatus ==
  /\ up = "lsr"
  /\ IF rx # <<>> \/ tx # <<>>
       THEN up' = (IF relay THEN "read" ELSE "flush") /\ UNCHANGED slots
       ELSE up' = "thr" /\ slots' = Fifo
  /\ UNCHANGED <<relay, msg, retry, bad, uout, tx, rx, terminal, printed, overrun>>

\* THR is written: a byte that meets a full FIFO is lost.
PutByte ==
  /\ msg # <<>> /\ slots > 0
  /\ tx' = (IF Len(tx) < Fifo THEN Append(tx, Head(msg)) ELSE tx)
  /\ msg' = Tail(msg) /\ slots' = slots - 1

\* while (len && slots)
WriteByte ==
  /\ up = "thr"
  /\ \/ PutByte /\ UNCHANGED up
     \/ /\ msg = <<>> \/ slots = 0
        /\ up' = (IF relay THEN "read" ELSE "flush") /\ UNCHANGED <<tx, msg, slots>>
  /\ UNCHANGED <<relay, retry, bad, uout, rx, terminal, printed, overrun>>

-----------------------------------------------------------------------------
\* epoll_wait(): read() takes at most a FIFO full.  At the end of the input it
\* returns 0 again and again.
Poll ==
  /\ up = "poll"
  /\ \/ \E n \in 1 .. Fifo :
          /\ n <= Len(typed) /\ up' = "lsr"
          /\ msg' = SubSeq(typed, 1, n) /\ typed' = SubSeq(typed, n + 1, Len(typed))
     \/ typed = <<>> /\ ~eof /\ up' = "read" /\ UNCHANGED <<msg, typed>>
     \/ typed = <<>> /\ eof /\ UNCHANGED <<up, msg, typed>>
  /\ UNCHANGED <<relay, slots, retry, bad, uout, tx, rx, eof, printed, overrun>>

\* Back from suart_read(), in the loop over uin_read or around it.
AfterRead == IF msg # <<>> THEN "lsr" ELSE "poll"

(* Mutated: an empty FIFO is taken for the end of the input.                *)
ReadStatus_stuck ==
  /\ up = "read"
  /\ IF rx = <<>> THEN up' = "lsr" /\ UNCHANGED <<retry, bad>>
     ELSE up' = "rbr" /\ retry' = Retries /\ bad' = FALSE
  /\ UNCHANGED <<relay, msg, slots, uout, tx, rx, terminal, printed, overrun>>

\* suart_read()
ReadStatus ==
  /\ up = "read"
  /\ IF rx = <<>> THEN up' = AfterRead /\ UNCHANGED <<retry, bad>>
     ELSE up' = "rbr" /\ retry' = Retries /\ bad' = FALSE
  /\ UNCHANGED <<relay, msg, slots, uout, tx, rx, terminal, printed, overrun>>

Drained == rx = <<>> \/ Len(uout) = OutSize

ReadByte ==
  /\ up = "rbr" /\ retry > 0 /\ ~Drained
  /\ uout' = Append(uout, Head(rx)) /\ rx' = Tail(rx) /\ bad' = FALSE
  /\ UNCHANGED <<up, relay, msg, slots, retry, tx, terminal, printed, overrun>>

\* while (--retry): the inner loop ends at an empty FIFO, a full buffer or a
\* status that cannot be read, which only the last time is an error.
ReadAgain ==
  /\ up = "rbr" /\ retry > 0 /\ retry' = retry - 1
  /\ \/ Drained /\ bad' = FALSE
     \/ bad' = TRUE
  /\ UNCHANGED <<up, relay, msg, slots, uout, tx, rx, terminal, printed, overrun>>

ReadReturn ==
  /\ up = "rbr" /\ retry = 0
  /\ up' = IF bad THEN "failed" ELSE "print"
  /\ UNCHANGED <<relay, msg, slots, retry, bad, uout, tx, rx, terminal, printed, overrun>>

(* Mutated: a write() that takes a part is taken for a whole one.           *)
Write_once ==
  /\ up = "print" /\ up' = AfterRead /\ uout' = <<>>
  /\ \E n \in 0 .. Len(uout) : printed' = printed \o SubSeq(uout, 1, n)
  /\ UNCHANGED <<relay, msg, slots, retry, bad, tx, rx, terminal, overrun>>

\* write() may take a part.
Write ==
  /\ up = "print"
  /\ \/ /\ uout # <<>> /\ UNCHANGED up
        /\ \E n \in 1 .. Len(uout) :
             printed' = printed \o SubSeq(uout, 1, n) /\ uout' = SubSeq(uout, n + 1, Len(uout))
     \/ uout = <<>> /\ up' = AfterRead /\ UNCHANGED <<uout, printed>>
  /\ UNCHANGED <<relay, msg, slots, retry, bad, tx, rx, terminal, overrun>>

\* An access fails, or a system call; FCR, THR or RBR may have got it all the
\* same, and the byte that RBR gave away is lost.
Fails ==
  /\ up \notin {"idle", "failed"} /\ up' = "failed"
  /\ \/ UNCHANGED <<msg, slots, tx, rx>>
     \/ up = "flush" /\ msg # <<>> /\ rx' = <<>> /\ UNCHANGED <<msg, slots, tx>>
     \/ up = "thr" /\ PutByte /\ UNCHANGED rx
     \/ up = "rbr" /\ retry > 0 /\ ~Drained /\ rx' = Tail(rx) /\ UNCHANGED <<msg, slots, tx>>
  /\ UNCHANGED <<relay, retry, bad, uout, terminal, printed, overrun>>

SuartStep ==
  \/ FlushReset \/ WriteStatus \/ WriteByte
  \/ Poll \/ ReadStatus \/ ReadByte \/ ReadAgain \/ ReadReturn \/ Write

=============================================================================
