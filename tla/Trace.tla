------------------------------- MODULE Trace -------------------------------
(***************************************************************************)
(* `culvert trace`, cmd/trace.c and soc/trace.c: the bus command recorder  *)
(* of the AHB controller is set going, writes what it sees into a ring in  *)
(* the SRAM of the SoC until a SIGINT, and is then stopped and its ring    *)
(* dumped.  The command may be killed, and run again.                      *)
(*                                                                         *)
(* The entries are words, numbered as the recorder sees them.              *)
(***************************************************************************)
EXTENDS Siphon

CONSTANTS
  Sram,       \* where the trace buffer starts ...
  Ring,       \* ... and how long it is: AHBC_BCR_CSR_BUF_LEN_32K
  MaxEvents,  \* the accesses the recorder sees
  MaxRuns     \* how often the command is run

TraceAssumption ==
  /\ SiphonAssumption /\ {Sram, Ring} \subseteq Nat \ {0} /\ {MaxEvents, MaxRuns} \subseteq Nat
  /\ Sram % Ring = 0 /\ Sram + Ring <= Space

Word == 0 .. Ring - 1

VARIABLES
  en,      \* AHBC_BCR_CSR_POLL_EN
  ptr,     \* AHBC_BCR_BUF: the next word of the ring ...
  wrapped, \* ... and AHBC_BCR_BUF_WRAP
  fifo,    \* the entries that are not in the ring yet
  ring,    \* the ring: the number of an entry, or 0
  seen,    \* how many entries there have been
  phase,   \* which part of trace_dump()
  runs,
  first,   \* history: the first entry of this trace ...
  flushed, \* ... the last one before trace_stop() ...
  stale    \* ... and how many of a trace before it went to the ring

recorder == <<en, ptr, wrapped, fifo, ring, seen>>
traceHist == <<runs, first, flushed, stale>>
traceVars == <<recorder, phase, traceHist>>

TraceIdle ==
  /\ en = FALSE /\ ptr = 0 /\ wrapped = FALSE /\ fifo = <<>>
  /\ ring = [w \in Word |-> 0] /\ seen = 0 /\ phase = "none"
  /\ runs = 0 /\ first = 1 /\ flushed = 0 /\ stale = 0

TraceInit == SiphonInit /\ input = 0 /\ kind = "trace" /\ TraceIdle

-----------------------------------------------------------------------------
(***************************************************************************)
(* The recorder, external to the repository: entries pass through a FIFO   *)
(* that FLUSH empties into the ring.                                       *)
(***************************************************************************)
Store(entries) ==
  LET n == Len(entries)
      last(w) == {k \in 1 .. n : (ptr + k - 1) % Ring = w}
  IN  /\ ring' = [w \in Word |->
                    IF last(w) = {} THEN ring[w]
                    ELSE entries[CHOOSE k \in last(w) : \A j \in last(w) : j <= k]]
      /\ ptr' = (ptr + n) % Ring
      /\ wrapped' = (wrapped \/ ptr + n >= Ring)

Record ==
  /\ en /\ seen < MaxEvents /\ seen' = seen + 1 /\ fifo' = Append(fifo, seen + 1)
  /\ UNCHANGED <<en, ptr, wrapped, ring>>

Drain ==
  /\ en /\ fifo # <<>> /\ Store(<<Head(fifo)>>) /\ fifo' = Tail(fifo)
  /\ UNCHANGED <<en, seen>>

Recorder ==
  kind = "trace" /\ (Record \/ Drain) /\ UNCHANGED <<ahbVars, phase, traceHist>>

-----------------------------------------------------------------------------
Still == UNCHANGED <<bridge, siphonVars>>

(***************************************************************************)
(* trace_stop(), from label r with f and c after it.                       *)
(***************************************************************************)
StopRead(r, f, done, failed) ==
  /\ pc = r /\ UNCHANGED traceVars
  /\ Goto(IF en THEN f ELSE done) \/ Fail(failed, EIO)

(* Mutated: FLUSH is left out.                                              *)
StopFlush_dry(f, c, failed) ==
  /\ pc = f /\ flushed' = seen
  /\ Goto(c) \/ Fail(failed, EIO)
  /\ UNCHANGED <<recorder, phase, runs, first, stale>>

\* csr |= AHBC_BCR_CSR_FLUSH
StopFlush(f, c, failed) ==
  LET flush == Store(fifo) /\ fifo' = <<>> /\ flushed' = seen /\ UNCHANGED <<en, seen>>
  IN  /\ pc = f
      /\ \/ Goto(c) /\ flush
         \/ Fail(failed, EIO) /\ flush
         \/ Fail(failed, EIO) /\ UNCHANGED <<recorder, flushed>>
      /\ UNCHANGED <<phase, runs, first, stale>>

\* csr &= ~(AHBC_BCR_CSR_POLL_EN | AHBC_BCR_CSR_FLUSH)
StopClear(c, done, failed) ==
  /\ pc = c
  /\ \/ Goto(done) /\ en' = FALSE
     \/ Fail(failed, EIO) /\ en' \in {FALSE, en}
  /\ UNCHANGED <<ptr, wrapped, fifo, ring, seen, phase, traceHist>>

trace_stop(r, f, c, done, failed) ==
  \/ StopRead(r, f, done, failed) \/ StopFlush(f, c, failed) \/ StopClear(c, done, failed)

\* soc_probe(), in which the driver stops a trace that was left running.  On a
\* SoC without a recorder the command ends there, and well.
TraceProbe ==
  /\ pc = "probe" /\ UNCHANGED traceVars
  /\ Goto("init_read") \/ Fail("close", EIO) \/ Goto("close")

\* A failure of the driver is logged.
InitStop ==
  \/ trace_stop("init_read", "init_flush", "init_clear", "csr", "init_failed")
  \/ pc = "init_failed" /\ Fail("csr", OK) /\ UNCHANGED traceVars

(***************************************************************************)
(* trace_start()                                                           *)
(***************************************************************************)
\* The length of the buffer, and POLL_EN clear; then R_AHBC_BCR_ADDR.
StartCsr ==
  /\ pc = "csr"
  /\ \/ Goto("zero") /\ en' = FALSE
     \/ Fail("close", EIO) /\ en' \in {FALSE, en}
  /\ UNCHANGED <<ptr, wrapped, fifo, ring, seen, phase, traceHist>>

\* "Zeroing trace buffer", whatever becomes of the writes.
StartZero ==
  /\ pc = "zero" /\ Goto("buf")
  /\ \E kept \in SUBSET Word : ring' = [w \in Word |-> IF w \in kept THEN ring[w] ELSE 0]
  /\ UNCHANGED <<en, ptr, wrapped, fifo, seen, phase, traceHist>>

(* Mutated: the pointer is left where it was.                               *)
StartBuf_skipped ==
  pc = "buf" /\ (Goto("style") \/ Fail("close", EIO)) /\ UNCHANGED traceVars

\* R_AHBC_BCR_BUF: the start of the SRAM; writing AHBC_BCR_BUF_WRAP clears it.
StartBuf ==
  LET set == ptr' = 0 /\ wrapped' = FALSE
  IN  /\ pc = "buf"
      /\ \/ Goto("style") /\ set
         \/ Fail("close", EIO) /\ set
         \/ Fail("close", EIO) /\ UNCHANGED <<ptr, wrapped>>
      /\ UNCHANGED <<en, fifo, ring, seen, phase, traceHist>>

\* trace_style(): a width and an offset the recorder cannot do are refused.
StartStyle ==
  pc = "style" /\ (Goto("go") \/ Fail("close", EINVAL)) /\ UNCHANGED traceVars

\* AHBC_BCR_CSR_FLUSH | AHBC_BCR_CSR_POLL_EN
StartGo ==
  LET go == /\ Store(fifo) /\ fifo' = <<>> /\ en' = TRUE /\ stale' = Len(fifo)
            /\ first' = seen + 1 /\ flushed' = seen
  IN  /\ pc = "go"
      /\ \/ Goto("release") /\ go
         \/ Fail("close", EIO) /\ go
         \/ Fail("close", EIO) /\ UNCHANGED <<ptr, wrapped, fifo, ring, en, stale, first, flushed>>
      /\ UNCHANGED <<seen, phase, runs>>

trace_start == StartCsr \/ StartZero \/ StartBuf \/ StartStyle \/ StartGo

-----------------------------------------------------------------------------
\* host_bridge_release_from_ahb()
Released ==
  /\ pc = "release" /\ UNCHANGED <<siphonVars, traceVars>>
  /\ \/ Goto("wait") /\ bridge' = FALSE
     \/ Fail("close", EIO) /\ UNCHANGED bridge

\* sigwait() returns with SIGINT, and host_bridge_reinit_from_ahb() follows.
Interrupted ==
  /\ pc = "wait" /\ UNCHANGED <<siphonVars, traceVars>>
  /\ \/ Goto("stop_read") /\ bridge' = TRUE
     \/ Fail("close", EIO) /\ UNCHANGED bridge

\* Where SIGINT is not blocked it kills the process.
Killed ==
  /\ pc \notin {"open", "wait", "end"} /\ pc' = "end" /\ rc' = EIO
  /\ UNCHANGED <<bridge, siphonVars, traceVars>>

\* trace_dump(): CSR and BUF are read.
Dump ==
  /\ pc = "dump" /\ UNCHANGED <<bridge, recorder, traceHist>>
  /\ \/ wrapped /\ phase' = "tail"
          /\ Siphon("out_read", Sram + ptr, Sram + Ring - ptr)
     \/ ~wrapped /\ phase' = "head" /\ Siphon("out_read", Sram, ptr)
     \/ Fail("close", EIO) /\ UNCHANGED <<siphonVars, phase>>

DumpHead ==
  /\ pc = "dump_head" /\ UNCHANGED <<bridge, recorder, traceHist>>
  /\ \/ rc = OK /\ phase' = "head" /\ Siphon("out_read", Sram, ptr)
     \/ rc # OK /\ Goto("close") /\ UNCHANGED <<siphonVars, phase>>

DumpSiphon ==
  /\ ahb_siphon_out(IF phase = "tail" THEN "dump_head" ELSE "close")
  /\ UNCHANGED <<bridge, traceVars>>

\* The command is run again.
RunAgain ==
  /\ pc = "end" /\ runs < MaxRuns /\ runs' = runs + 1
  /\ pc' = "open" /\ rc' = OK /\ bridge' = FALSE /\ phase' = "none"
  /\ at' = 0 /\ len' = 0 /\ chunk' = <<>> /\ out' = <<>>
  /\ UNCHANGED <<input, taken, mem, recorder, first, flushed, stale>>

TraceStep ==
  /\ kind = "trace" /\ UNCHANGED kind
  /\ \/ (OpenBridge \/ Close) /\ UNCHANGED traceVars
     \/ (TraceProbe \/ InitStop \/ trace_start) /\ Still
     \/ Released \/ Interrupted
     \/ trace_stop("stop_read", "stop_flush", "stop_clear", "dump", "close") /\ Still
     \/ Dump \/ DumpHead \/ DumpSiphon \/ Killed \/ RunAgain

TraceNext == TraceStep \/ Recorder

-----------------------------------------------------------------------------
TraceTypeOK ==
  /\ en \in BOOLEAN /\ ptr \in Word /\ wrapped \in BOOLEAN
  /\ fifo \in Seq(1 .. MaxEvents) /\ ring \in [Word -> 0 .. MaxEvents]
  /\ seen \in 0 .. MaxEvents /\ phase \in {"none", "tail", "head"}
  /\ runs \in 0 .. MaxRuns /\ first \in 1 .. MaxEvents + 1
  /\ flushed \in 0 .. MaxEvents /\ stale \in Nat

\* A trace that was dumped has stopped, and what came out is what the recorder
\* saw, each entry once and in order, from its start to no earlier than its
\* stop, behind what a trace before it left in the FIFO.  A ring that wrapped
\* is another matter.
Recorded ==
  kind = "trace" /\ pc = "end" /\ rc = OK /\ phase = "head" /\ ~wrapped =>
    /\ ~en /\ Len(out) >= stale + flushed - first + 1
    /\ \A k \in 1 .. Len(out) :
         LET entry == ring[out[k] - Sram]
         IN  IF k <= stale THEN entry < first ELSE entry = first + k - stale - 1

-----------------------------------------------------------------------------
(***************************************************************************)
(* Said of the program, and not what it does: see "Known divergences" in   *)
(* README.md.                                                              *)
(***************************************************************************)

\* soc/trace.c: "Ring buffer has wrapped, dumping trace buffer from write
\* pointer".  What is dumped lies in the trace buffer.
DumpsBuffer ==
  kind = "trace" => \A k \in 1 .. Len(out) : out[k] \in Sram .. Sram + Ring - 1

=============================================================================
