-------------------------------- MODULE Otp ---------------------------------
(***************************************************************************)
(* The one-time programmable memory of the AST2600, soc/otp.c, and the     *)
(* command that reads and writes it, cmd/otp.c.  A bit is programmed by    *)
(* raising the soak (programming time and voltages), programming, reading  *)
(* back and trying again; the controller works through a command in its    *)
(* own time, and every access to it may fail, with or without an effect.   *)
(*                                                                         *)
(* A primitive of the driver is the list of accesses it makes (todo); pc   *)
(* is where its caller continues, and OnError where it goes if one fails.  *)
(***************************************************************************)
EXTENDS Integers, Sequences, FiniteSets

CONSTANTS
  Confs,       \* NUM_OTP_CONF
  Options,     \* how often a strap can be flipped: 6
  BitLen,      \* bits of a word: 32
  Tries,       \* NUM_PROG_TRIES
  Chips,       \* contents of the OTP memory to start from
  MaxCommands  \* runs of the command in one behaviour

Bit == 0 .. BitLen - 1
Conf(w) == <<"conf", w>>
Protect == <<"protect", 0>>
Option(n) == <<"option", n>>
Word == {Conf(w) : w \in 0 .. Confs - 1} \union {Protect} \union {Option(n) : n \in 1 .. Options}

OtpAssumption ==
  /\ {Confs, Options, BitLen, Tries, MaxCommands} \subseteq Nat \ {0}
  /\ Chips \subseteq [Word -> SUBSET Bit]

VARIABLES
  pc, rc,
  todo,   \* accesses left of the primitive in progress
  req,    \* the arguments of otp_read(), otp_write_conf() or otp_write_strap()
  got,    \* what otp_read_reg() has returned
  i, res, f,  \* of otp_write_strap()
  target, \* what otp_write() is to program
  tries,
  key, addr, data, soak,  \* registers of the controller
  busy,   \* the command it works on, with what it was given, or Idle
  words,  \* the memory: the bits that are set in each word
  otpCalls,  \* bound: commands so far
  lost,      \* history: an access failed that unlocks, restores or locks, behind
             \* which no further command begins
  collided,  \* history: a register was written while the controller was busy,
             \* behind which nothing is claimed and the model ends
  yes        \* history: the user has typed YES

prog == <<req, got, i, res, f, target, tries>>
hw == <<key, addr, data, soak, busy, words>>
hist == <<otpCalls, lost, collided, yes>>
otpVars == <<todo, prog, hw, hist>>
vars == <<pc, rc, otpVars>>

OK == 0
EPERM == -1
EIO == -5
EACCES == -13
EINVAL == -22
ETIMEDOUT == -110
EALREADY == -114
EREMOTEIO == -121
EXIT_FAILURE == 1

SoakReg == {<<"soak", k>> : k \in 0 .. 2}

Idle == <<"idle">>

\* otp->soak_parameters[n] and otp->timings[n]: three words to tell apart.
SoakWord(n) == {n}

OtpInit ==
  /\ todo = <<>>
  /\ req = [fn |-> "none"] /\ got = {} /\ i = 0 /\ res = 0 /\ f = 0
  /\ target = [word |-> Protect, bit |-> 0, val |-> 0] /\ tries = 0
  /\ key = "locked" /\ addr = Protect /\ data = {} /\ busy = Idle
  /\ soak = [r \in SoakReg \union {<<"timing", 0>>} |-> SoakWord(0)]
  /\ words \in Chips
  /\ otpCalls = 0 /\ lost = FALSE /\ collided = FALSE /\ yes = FALSE

Init == pc = "idle" /\ rc = OK /\ OtpInit

-----------------------------------------------------------------------------
(***************************************************************************)
(* The controller (external).  It takes a command only while it is         *)
(* unlocked and idle, with the address and data of that moment.            *)
(***************************************************************************)
Trigger(c) ==
  /\ busy' = IF busy = Idle /\ key = "open" THEN <<c, addr, data>> ELSE busy
  /\ UNCHANGED <<key, addr, data, soak>>

Takes(a) ==
  /\ collided' = (collided \/ busy # Idle)
  /\ \/ a[1] = "COMMAND" /\ Trigger(a[2])
     \/ a[1] = "KEY" /\ key' = a[2] /\ UNCHANGED <<addr, data, soak, busy>>
     \/ a[1] = "ADDR" /\ addr' = a[2] /\ UNCHANGED <<key, data, soak, busy>>
     \/ a[1] = "COMPARE" /\ data' = a[2] /\ UNCHANGED <<key, addr, soak, busy>>
     \/ /\ a[1] = "TIMING" /\ soak' = [soak EXCEPT ![<<"timing", 0>>] = a[2]]
        /\ UNCHANGED <<key, addr, data, busy>>

\* Programming may leave a bit as it was.
Complete ==
  /\ ~collided /\ busy # Idle /\ busy' = Idle
  /\ \/ busy[1] = "read" /\ data' = words[busy[2]] /\ UNCHANGED <<words, soak>>
     \/ /\ busy[1] = "program" /\ UNCHANGED <<data, soak>>
        /\ \E burnt \in SUBSET (Bit \ busy[3]) :
             words' = [words EXCEPT ![busy[2]] = @ \union burnt]
     \/ busy[1] = "write" /\ soak' = [soak EXCEPT ![busy[2]] = busy[3]] /\ UNCHANGED <<data, words>>
  /\ UNCHANGED <<pc, rc, todo, prog, key, addr, hist>>

-----------------------------------------------------------------------------
(***************************************************************************)
(* The primitives.                                                         *)
(***************************************************************************)
otp_program(w, val) ==
  << <<"ADDR", w>>, <<"COMPARE", val>>, <<"COMMAND", "program">>, <<"STATUS">> >>

otp_read_reg(w) ==
  << <<"ADDR", w>>, <<"COMMAND", "read">>, <<"STATUS">>, <<"DATA">> >>

otp_write_reg(r, val) ==
  << <<"ADDR", r>>, <<"COMPARE", val>>, <<"COMMAND", "write">>, <<"STATUS">> >>

otp_set_soak(n) ==
  otp_write_reg(<<"soak", 0>>, SoakWord(n)) \o otp_write_reg(<<"soak", 1>>, SoakWord(n))
    \o otp_write_reg(<<"soak", 2>>, SoakWord(n)) \o << <<"TIMING", SoakWord(n)>> >>

\* prog = ~bitmask
Program == otp_program(target.word, Bit \ {target.bit})
Readback == otp_read_reg(target.word)

Run(script, next) == todo' = script /\ pc' = next

(* Mutated: a failed readback skips the restoring of the soak.              *)
OnError_skips(p) ==
  CASE p \in {"unlocked", "locked"} -> "idle"
    [] p \in {"programmed", "resoaked", "reprogrammed"} -> "undo_soak"
    [] OTHER -> "done"

OnError(p) ==
  CASE p \in {"unlocked", "locked"} -> "idle"
    [] p \in {"programmed", "verify", "resoaked", "reprogrammed"} -> "undo_soak"
    [] OTHER -> "done"

\* The clean-up ignores the results of its accesses.
Ignores(p) == p \in {"undone", "locked"}

\* otp_readl() and otp_writel() succeed; otp_wait_complete() has seen the
\* controller idle.
AccessOk ==
  /\ ~collided /\ todo # <<>> /\ todo' = Tail(todo)
  /\ \/ Takes(Head(todo)) /\ UNCHANGED got
     \/ Head(todo)[1] = "STATUS" /\ busy = Idle /\ UNCHANGED <<got, hw, collided>>
     \/ Head(todo)[1] = "DATA" /\ got' = data /\ UNCHANGED <<hw, collided>>
  /\ UNCHANGED <<pc, rc, req, i, res, f, target, tries, words, otpCalls, lost, yes>>

\* One of them fails, or the controller has been busy for half a second.  Of
\* the results of otp_wait_complete() that of clock_nanosleep() is left out:
\* with culvert's arguments it could only be EINTR, for a signal that is caught,
\* and culvert catches none.
AccessFails ==
  /\ ~collided /\ todo # <<>> /\ todo' = <<>> /\ pc' = OnError(pc)
  /\ \/ Ignores(pc) /\ UNCHANGED rc
     \/ ~Ignores(pc) /\ rc' = EIO
     \/ ~Ignores(pc) /\ Head(todo)[1] = "STATUS" /\ busy # Idle /\ rc' = ETIMEDOUT
  /\ Takes(Head(todo)) \/ UNCHANGED <<key, addr, data, soak, busy, collided>>
  /\ lost' = (lost \/ pc \in {"unlocked", "soaked", "undone", "locked"})
  /\ UNCHANGED <<prog, words, otpCalls, yes>>

-----------------------------------------------------------------------------
(***************************************************************************)
(* otp_read(), otp_write_conf() and otp_write_strap(): a step of the       *)
(* caller, whenever the primitive before it is through.                    *)
(***************************************************************************)
At(p) ==
  ~collided /\ pc = p /\ todo = <<>> /\ UNCHANGED <<hw, otpCalls, lost, collided>>

Open(r) ==
  /\ ~collided /\ ~lost /\ pc = "idle" /\ otpCalls < MaxCommands /\ otpCalls' = otpCalls + 1
  /\ req' = r /\ tries' = 0 /\ yes' = FALSE
  /\ UNCHANGED <<got, i, res, f, target, hw, lost, collided>>

\* The words, bits and values of a write are checked before any access.
BadArgs(r) ==
  \/ r.fn = "write_conf" /\ (r.word >= Confs \/ r.bit >= BitLen)
  \/ r.fn = "write_strap" /\ (r.bit >= BitLen \/ r.val > 1)

Call(r) ==
  /\ Open(r)
  /\ \/ BadArgs(r) /\ rc' = EINVAL /\ UNCHANGED <<pc, todo>>
     \/ ~BadArgs(r) /\ rc' = OK /\ Run(<< <<"KEY", "open">> >>, "unlocked")

\* host_init() to otp_get() of do_otp() fail.
NoDriver(r) == Open(r) /\ rc' = EXIT_FAILURE /\ UNCHANGED <<pc, todo>>

Read ==
  /\ At("unlocked") /\ req.fn \in {"read_strap", "read_conf"}
  /\ i' = 1 /\ Run(otp_read_reg(IF req.fn = "read_conf" THEN Conf(0) ELSE Protect), "reading")
  /\ UNCHANGED <<rc, req, got, res, f, target, tries, yes>>

ReadNext ==
  /\ At("reading")
  /\ \/ /\ req.fn = "read_conf" /\ i < Confs
        /\ i' = i + 1 /\ Run(otp_read_reg(Conf(i)), "reading")
     \/ /\ req.fn = "read_strap" /\ i <= Options
        /\ i' = i + 1 /\ Run(otp_read_reg(Option(i)), "reading")
     \/ /\ i = IF req.fn = "read_conf" THEN Confs ELSE Options + 1
        /\ pc' = "done" /\ UNCHANGED <<todo, i>>
  /\ UNCHANGED <<rc, req, got, res, f, target, tries, yes>>

WriteConf ==
  /\ At("unlocked") /\ req.fn = "write_conf"
  /\ Run(otp_read_reg(Conf(req.word)), "conf")
  /\ UNCHANGED <<rc, prog, yes>>

Refuse(e) == pc' = "done" /\ rc' = e /\ UNCHANGED <<todo, target>>

CheckConf ==
  /\ At("conf")
  /\ \/ req.bit \in got /\ Refuse(EALREADY)
     \/ /\ req.bit \notin got /\ pc' = "confirm"
        /\ target' = [word |-> Conf(req.word), bit |-> req.bit, val |-> 1]
        /\ UNCHANGED <<rc, todo>>
  /\ UNCHANGED <<req, got, i, res, f, tries, yes>>

WriteStrap ==
  /\ At("unlocked") /\ req.fn = "write_strap"
  /\ Run(otp_read_reg(Protect), "protect")
  /\ UNCHANGED <<rc, prog, yes>>

CheckProtect ==
  /\ At("protect")
  /\ \/ req.bit \in got /\ Refuse(EACCES) /\ UNCHANGED <<i, res, f>>
     \/ /\ req.bit \notin got
        /\ i' = 1 /\ res' = 0 /\ f' = 0 /\ Run(otp_read_reg(Option(1)), "option")
        /\ UNCHANGED <<rc, target>>
  /\ UNCHANGED <<req, got, tries, yes>>

\* The strap is the exclusive or of its options; f is the first free one.
Xor(x) == IF req.bit \in got THEN 1 - x ELSE x

(* Mutated: the last free option is taken.                                  *)
FirstFree_last(n) == IF req.bit \notin got THEN i ELSE n

FirstFree(n) == IF n = 0 /\ req.bit \notin got THEN i ELSE n

CheckOption ==
  /\ At("option") /\ res' = Xor(res) /\ f' = FirstFree(f)
  /\ \/ /\ i < Options /\ i' = i + 1 /\ Run(otp_read_reg(Option(i + 1)), "option")
        /\ UNCHANGED <<rc, target>>
     \/ /\ i = Options /\ UNCHANGED i
        /\ \/ f' = 0 /\ Refuse(EPERM)
           \/ f' # 0 /\ res' = req.val /\ Refuse(EALREADY)
           \/ /\ f' # 0 /\ res' # req.val /\ pc' = "confirm"
              /\ target' = [word |-> Option(f'), bit |-> req.bit, val |-> req.val]
              /\ UNCHANGED <<rc, todo>>
  /\ UNCHANGED <<req, got, tries, yes>>

\* otp_confirm(): YES, something else, or the end of the input, for which the
\* result is -errno, whatever that is.
Confirm ==
  /\ At("confirm")
  /\ \/ yes' = TRUE /\ rc' = OK /\ Run(otp_set_soak(1), "soaked")
     \/ Refuse(EINVAL) /\ UNCHANGED yes
     \/ Refuse(EIO) /\ UNCHANGED yes
     \/ rc' = OK /\ Run(otp_set_soak(1), "soaked") /\ UNCHANGED yes
  /\ UNCHANGED prog

-----------------------------------------------------------------------------
\* otp_write(), with the soak raised for the first time.
Soaked ==
  /\ At("soaked") /\ Run(Program, "programmed") /\ UNCHANGED <<rc, prog, yes>>

Programmed ==
  /\ At("programmed") /\ Run(Readback, "verify") /\ UNCHANGED <<rc, prog, yes>>

\* What is left of otp_write() behind the loop.
Finish(n) ==
  pc' = "undo_soak" /\ rc' = (IF n = Tries THEN EREMOTEIO ELSE OK) /\ UNCHANGED todo

(* Mutated: the test of the readback is inverted.                           *)
Verify_inverted ==
  /\ At("verify")
  /\ \/ target.bit \notin got /\ Finish(tries)
     \/ /\ target.bit \in got
        /\ Run(otp_set_soak(IF tries % 2 = 1 THEN 1 ELSE 2), "resoaked") /\ UNCHANGED rc
  /\ UNCHANGED <<prog, yes>>

Verify ==
  /\ At("verify")
  /\ \/ target.bit \in got /\ Finish(tries)
     \/ /\ target.bit \notin got
        /\ Run(otp_set_soak(IF tries % 2 = 1 THEN 1 ELSE 2), "resoaked") /\ UNCHANGED rc
  /\ UNCHANGED <<prog, yes>>

Resoaked ==
  /\ At("resoaked") /\ Run(Program, "reprogrammed") /\ UNCHANGED <<rc, prog, yes>>

\* while (tries++ < NUM_PROG_TRIES)
Reprogrammed ==
  /\ At("reprogrammed") /\ tries' = tries + 1
  /\ \/ tries < Tries /\ Run(Readback, "verify") /\ UNCHANGED rc
     \/ tries = Tries /\ Finish(tries')
  /\ UNCHANGED <<req, got, i, res, f, target, yes>>

UndoSoak ==
  /\ At("undo_soak") /\ Run(otp_set_soak(0), "undone") /\ UNCHANGED <<rc, prog, yes>>

\* done: the key is taken back.
Lock ==
  /\ At("undone") \/ At("done")
  /\ Run(<< <<"KEY", "locked">> >>, "locked") /\ UNCHANGED <<rc, prog, yes>>

Return ==
  /\ At("locked") /\ pc' = "idle"
  /\ got' = {} /\ i' = 0 /\ res' = 0 /\ f' = 0
  /\ UNCHANGED <<rc, todo, req, target, tries, yes>>

Function ==
  \/ AccessOk \/ AccessFails \/ Read \/ ReadNext
  \/ WriteConf \/ CheckConf \/ WriteStrap \/ CheckProtect \/ CheckOption \/ Confirm
  \/ Soaked \/ Programmed \/ Verify \/ Resoaked \/ Reprogrammed
  \/ UndoSoak \/ Lock \/ Return

\* What the functions of otp.h can be asked for, with one bit number, one word
\* number and one value that do not exist.
Requests ==
  {[fn |-> n] : n \in {"read_conf", "read_strap"}}
    \union {[fn |-> "write_conf", word |-> w, bit |-> b] : w \in 0 .. Confs, b \in 0 .. BitLen}
    \union {[fn |-> "write_strap", bit |-> b, val |-> v] : b \in 0 .. BitLen, v \in 0 .. 2}

Next ==
  \/ Function \/ Complete
  \/ \E r \in Requests : Call(r) \/ NoDriver(r)

Spec == Init /\ [][Next]_vars

-----------------------------------------------------------------------------
TypeOK ==
  /\ pc \in {"idle", "unlocked", "reading", "conf", "protect", "option", "confirm",
             "soaked", "programmed", "verify", "resoaked", "reprogrammed",
             "undo_soak", "undone", "done", "locked"}
  /\ rc \in {OK, EPERM, EIO, EACCES, EINVAL, ETIMEDOUT, EALREADY, EREMOTEIO,
             EXIT_FAILURE}
  /\ i \in 0 .. Confs + Options + 1 /\ res \in {0, 1} /\ f \in 0 .. Options
  /\ tries \in 0 .. Tries + 1
  /\ key \in {"locked", "open"} /\ got \subseteq Bit \union 0 .. 2
  /\ words \in [Word -> SUBSET Bit]

Strap(b) == Cardinality({n \in 1 .. Options : b \in words[Option(n)]}) % 2

\* A bit is burnt for good, so: only the bit that was checked, in the word
\* that was checked, and of a strap only the first free option, while the
\* strap is not protected and has not the value asked for.  The retries, the
\* soak registers that share the address and data registers, a failing access
\* and a controller that completes late make no difference, unless a register
\* was written before the controller had finished (otp.c, otp_write).
BurnsTarget ==
  [][words' # words /\ ~collided =>
       /\ words' = [words EXCEPT ![target.word] = @ \union {target.bit}]
       /\ target.word[1] = "option" =>
            /\ target.bit \notin words[Protect] /\ Strap(target.bit) # target.val
            /\ \A n \in 1 .. target.word[2] - 1 : target.bit \in words[Option(n)]]_vars

\* Whatever failed, the controller is locked and at the soak it came up with
\* when a function returns, unless the accesses that unlock, restore and lock
\* it failed themselves, or those of the first otp_set_soak(), which otp_write()
\* does not undo (otp.c, undo_soak and done).
Relocked ==
  pc = "idle" /\ ~lost /\ ~collided =>
    key = "locked" /\ \A r \in DOMAIN soak : soak[r] = SoakWord(0)

Written == pc = "idle" /\ rc = OK /\ req.fn \in {"write_conf", "write_strap"}

\* A write that succeeds has set its bit and given the strap its value, unless
\* all the tries were used up (otp.c, the readback).
WriteTakes ==
  Written /\ ~collided /\ tries <= Tries =>
    /\ target.bit \in words[target.word]
    /\ target.word[1] = "option" => Strap(target.bit) = target.val

-----------------------------------------------------------------------------
(***************************************************************************)
(* Said of the program, and not what it does: see "Known divergences" in   *)
(* README.md.                                                              *)
(***************************************************************************)

\* cmd_otp_parse_opt(): the fourth argument takes the place of the third, and
\* the value stays 0.
CommandLines == {"conf", "strap"} \X (0 .. 1) \X (0 .. 1)
cmd_otp_parse_opt(line) ==
  IF line[1] = "conf" THEN [fn |-> "write_conf", word |-> line[3], bit |-> 0, args |-> line]
  ELSE [fn |-> "write_strap", bit |-> line[3], val |-> 0, args |-> line]

CommandNext ==
  Function \/ Complete \/ \E line \in CommandLines : Call(cmd_otp_parse_opt(line))

\* cmd/otp.c, in the help: "OTP configuration (word and bit for write)" and
\* "OTP strap (bit and value for write)".  What is burnt is the bit that the
\* command line names.
BurnsArguments ==
  [][words' # words /\ ~collided =>
       IF req.args[1] = "conf"
         THEN target.word = Conf(req.args[2]) /\ target.bit = req.args[3]
         ELSE target.bit = req.args[2] /\ target.val = req.args[3]]_vars

\* otp.c: "Failed to program OTP".  A write whose tries are used up fails.
Reported ==
  Written /\ ~collided =>
    target.bit \in words[target.word]

\* otp.c: "Is this acceptable? If so, type YES".  Nothing is burnt otherwise.
Confirmed == [][words' # words => yes]_vars

=============================================================================
