-------------------------------- MODULE Ahb ---------------------------------
(***************************************************************************)
(* The operations of struct ahb_ops (ahb.h) as every bridge driver carries *)
(* them out: a call names an operation, an address and a length, moves the *)
(* data in one or more pieces, and returns.  The bridge modules say which  *)
(* piece of the BMC's address space a piece really reaches, AhbNext what   *)
(* the rest of culvert expects of each of them: the words of a call move   *)
(* in order, each to or from its own address, a call that succeeds has     *)
(* moved all of them, and a call may fail at any point.                    *)
(*                                                                         *)
(* The unit is a 32-bit word.  Word i of call number c is written as       *)
(* <<c, i>>, so that a misplaced, lost or repeated word is visible.        *)
(***************************************************************************)
EXTENDS Integers, Sequences

CONSTANTS
  Size,      \* the size of the address space
  Requests,  \* the <<operation, address, length>> of the callers
  MaxCalls   \* how many calls one behaviour makes

Addr == 0 .. Size - 1
Writes == {"write", "writel"}
Ops == {"read", "readl"} \union Writes

ASSUME AhbAssumption ==
  /\ Size \in Nat /\ MaxCalls \in Nat
  /\ \A r \in Requests :
       /\ r \in Ops \X Addr \X (Nat \ {0}) /\ r[2] + r[3] <= Size
       /\ r[1] \in {"readl", "writel"} => r[3] = 1

VARIABLES
  mem,    \* the BMC's address space
  busy,   \* a call is in progress
  op, phys, len,  \* its arguments, or those of the last call
  done,   \* how many words have been moved
  buf,    \* the caller's buffer, as far as it was filled by a read
  rc,     \* the result of the last call
  calls   \* number of calls so far

ahbVars == <<mem, busy, op, phys, len, done, buf, rc, calls>>

AhbInit ==
  /\ mem = [a \in Addr |-> <<0, a>>]
  /\ busy = FALSE /\ op = "read" /\ phys = 0 /\ len = 0 /\ done = 0
  /\ buf = <<>> /\ rc = "none" /\ calls = 0

\* ahb_read(), ahb_write(), ahb_readl() and ahb_writel() enter the driver.
Begin(o, a, n) ==
  /\ ~busy /\ calls < MaxCalls
  /\ busy' = TRUE /\ calls' = calls + 1
  /\ op' = o /\ phys' = a /\ len' = n /\ done' = 0 /\ buf' = <<>>
  /\ UNCHANGED <<mem, rc>>

\* The next n words go to, or come from, the addresses at, at + 1, ...
Move(n, at) ==
  /\ done' = done + n
  /\ IF op \in Writes
       THEN /\ mem' = [a \in Addr |->
                         IF at <= a /\ a < at + n THEN <<calls, done + (a - at)>> ELSE mem[a]]
            /\ UNCHANGED buf
       ELSE /\ buf' = buf \o [k \in 1 .. n |-> mem[at + k - 1]]
            /\ UNCHANGED mem
  /\ UNCHANGED <<busy, op, phys, len, rc, calls>>

Return(code) ==
  /\ busy' = FALSE /\ rc' = code
  /\ UNCHANGED <<mem, op, phys, len, done, buf, calls>>

\* What is expected of a bridge.
AhbNext ==
  \/ \E r \in Requests : Begin(r[1], r[2], r[3])
  \/ \E n \in 1 .. len - done : busy /\ Move(n, phys + done)
  \/ busy /\ done = len /\ Return("ok")
  \/ busy /\ Return("fail")

-----------------------------------------------------------------------------
AhbTypeOK ==
  /\ mem \in [Addr -> Nat \X Nat] /\ busy \in BOOLEAN
  /\ op \in Ops /\ phys \in Nat /\ len \in Nat /\ phys + len <= Size
  /\ done \in 0 .. len /\ buf \in Seq(Nat \X Nat) /\ Len(buf) <= len
  /\ rc \in {"none", "ok", "fail"} /\ calls \in 0 .. MaxCalls

\* What a call that succeeded has done.
Delivered ==
  ~busy /\ rc = "ok" =>
    IF op \in Writes
      THEN \A i \in 0 .. len - 1 : mem[phys + i] = <<calls, i>>
      ELSE buf = [k \in 1 .. len |-> mem[phys + k - 1]]

=============================================================================
