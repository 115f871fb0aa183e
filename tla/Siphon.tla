------------------------------- MODULE Siphon -------------------------------
(***************************************************************************)
(* The two loops of src/src/ahb.c that move data between a file descriptor *)
(* and the AHB a chunk at a time.  Every command that reads, writes or     *)
(* dumps memory runs one of them.                                          *)
(*                                                                         *)
(* Data are tags: what is read is known by the address it was read from,   *)
(* and what comes in by its place in the input.  read() and write() on a   *)
(* file descriptor may move less than they are asked to.                   *)
(***************************************************************************)
EXTENDS Integers, Sequences

CONSTANTS
  Chunk,  \* AHB_CHUNK
  Space,  \* the addresses are 0 .. Space - 1: 2^32 of them
  Inputs  \* the lengths of the input

SiphonAssumption == {Chunk, Space} \subseteq Nat \ {0} /\ Inputs \subseteq Nat

Addr == 0 .. Space - 1
OK == 0
EIO == -5
ENOMEM == -12
ENODEV == -19
EINVAL == -22
EPIPE == -32

VARIABLES
  kind,    \* the command
  pc, rc,  \* where it is, and its result
  bridge,  \* the AHB bridge is open
  at,      \* phys, the next address
  len,     \* what is left to move: no caller asks for -1, all there is
  chunk,   \* the chunk in memory
  input,   \* the length of the standard input ...
  taken,   \* ... and how much of it has been read
  out,     \* what has been written to the standard output
  mem      \* what each address holds: 0, or the place in the input of what
           \* was written there

siphonVars == <<at, len, chunk, input, taken, out, mem>>
ahbVars == <<kind, pc, rc, bridge, siphonVars>>

Goto(l) == pc' = l /\ UNCHANGED rc
Fail(l, code) == pc' = l /\ rc' = code
\* phys is a uint32_t: the address n on, and how far on an address is.
After(n) == (at + n) % Space
Off(base, a) == (a - base) % Space

Least(a, b) == IF a < b THEN a ELSE b

SiphonInit ==
  /\ pc = "open" /\ rc = OK /\ bridge = FALSE /\ at = 0 /\ len = 0 /\ chunk = <<>> /\ taken = 0 /\ out = <<>>
  /\ input \in Inputs /\ mem = [a \in Addr |-> 0]

\* host_init() and host_get_ahb(), or a bridge's own init.
OpenBridge ==
  /\ pc = "open" /\ UNCHANGED siphonVars
  /\ \/ Goto("probe") /\ bridge' = TRUE
     \/ Fail("end", ENODEV) /\ UNCHANGED bridge

\* soc_destroy() and host_destroy(), or the bridge's own destroy.
Close == pc = "close" /\ Goto("end") /\ bridge' = FALSE /\ UNCHANGED siphonVars

\* The siphon is called on a range.
Siphon(l, base, size) ==
  /\ pc' = l /\ at' = base /\ len' = size
  /\ UNCHANGED <<rc, chunk, input, taken, out, mem>>

(***************************************************************************)
(* ahb_siphon_out()                                                        *)
(***************************************************************************)
(* Mutated: what is left is not counted down by what was read but by a     *)
(* whole chunk.                                                            *)
OutRead_overrun(done) ==
  LET n == Chunk
  IN  /\ pc = "out_read"
      /\ \/ len <= 0 /\ Goto(done) /\ UNCHANGED <<at, len, chunk>>
         \/ /\ len > 0 /\ Goto("out_write")
            /\ chunk' = [k \in 1 .. n |-> After(k - 1)]
            /\ at' = After(n) /\ len' = len - n
      /\ UNCHANGED <<input, taken, out, mem>>

\* The buffer, and ahb_read() of a chunk.
OutRead(done) ==
  LET n == Least(len, Chunk)
  IN  /\ pc = "out_read"
      /\ \/ len = 0 /\ Goto(done) /\ UNCHANGED <<at, len, chunk>>
         \/ /\ len > 0 /\ Goto("out_write")
            /\ chunk' = [k \in 1 .. n |-> After(k - 1)]
            /\ at' = After(n) /\ len' = len - n
         \/ len > 0 /\ Fail(done, EIO) /\ UNCHANGED <<at, len, chunk>>
      /\ UNCHANGED <<input, taken, out, mem>>

(* Mutated: write() is taken to write all it is given.                      *)
OutWrite_once(done) ==
  /\ pc = "out_write"
  /\ \E n \in 1 .. Len(chunk) : out' = out \o SubSeq(chunk, 1, n)
  /\ chunk' = <<>> /\ Goto("out_read")
  /\ UNCHANGED <<at, len, input, taken, mem>>

\* write() of what is left of the chunk.
OutWrite(done) ==
  /\ pc = "out_write"
  /\ \/ \E n \in 1 .. Len(chunk) :
          /\ out' = out \o SubSeq(chunk, 1, n)
          /\ chunk' = SubSeq(chunk, n + 1, Len(chunk))
          /\ Goto(IF n = Len(chunk) THEN "out_read" ELSE "out_write")
     \/ Fail(done, EPIPE) /\ UNCHANGED <<chunk, out>>
  /\ UNCHANGED <<at, len, input, taken, mem>>

ahb_siphon_out(done) == OutRead(done) \/ OutWrite(done)

(***************************************************************************)
(* ahb_siphon_in()                                                         *)
(***************************************************************************)
\* read() of the input: some of it, its end, an error.
InRead(done) ==
  LET most == Least(Least(len, Chunk), input - taken)
  IN  /\ pc = "in_read"
      /\ \/ most = 0 /\ Goto(done) /\ UNCHANGED <<chunk, taken>>
         \/ \E n \in 1 .. most :
              /\ chunk' = [k \in 1 .. n |-> taken + k] /\ taken' = taken + n
              /\ Goto("in_write")
         \/ Fail(done, EIO) /\ UNCHANGED <<chunk, taken>>
      /\ UNCHANGED <<at, len, input, out, mem>>

Landed(n) ==
  [a \in Addr |-> IF Off(at, a) < n THEN chunk[Off(at, a) + 1] ELSE mem[a]]

(* Mutated: the address moves on by a chunk after a short read.             *)
InWrite_chunks(done) ==
  /\ pc = "in_write" /\ Goto("in_read")
  /\ mem' = Landed(Len(chunk)) /\ at' = After(Chunk)
  /\ len' = len - Len(chunk)
  /\ UNCHANGED <<chunk, input, taken, out>>

\* ahb_write(): one that fails may have written the head of the chunk.
InWrite(done) ==
  LET n == Len(chunk)
  IN  /\ pc = "in_write"
      /\ \/ /\ Goto("in_read") /\ mem' = Landed(n)
            /\ at' = After(n) /\ len' = len - n
         \/ /\ Fail(done, EIO) /\ \E k \in 0 .. n : mem' = Landed(k)
            /\ UNCHANGED <<at, len>>
      /\ UNCHANGED <<chunk, input, taken, out>>

ahb_siphon_in(done) == InRead(done) \/ InWrite(done)

-----------------------------------------------------------------------------
SiphonTypeOK ==
  /\ rc \in Int /\ bridge \in BOOLEAN /\ at \in Nat /\ len \in Int
  /\ chunk \in Seq(Nat) /\ out \in Seq(Nat)
  /\ taken \in 0 .. input /\ mem \in [Addr -> Nat]

\* The standard output holds the first part of a range, and the whole of it
\* behind a success.
OutOf(base, size, done) ==
  /\ \A k \in 1 .. Len(out) : out[k] = base + k - 1
  /\ Len(out) <= size /\ (done => Len(out) = size)

\* Nothing but a range has changed, and it holds no more than the input, in
\* order from its start: all of it, up to the end of the range, behind a
\* success.
InTo(base, size, done) ==
  /\ \A a \in Addr : mem[a] # 0 => Off(base, a) < size /\ mem[a] = Off(base, a) + 1
  /\ done => \A a \in Addr : Off(base, a) < Least(size, input) => mem[a] # 0

=============================================================================
