# A TLA+ model of culvert

culvert reaches into an ASPEED BMC from the host (or runs on the BMC itself):
it discovers a bridge to the BMC's AHB, and through it probes the bridges'
exposure, reads and rewrites the BMC's flash, resets the SoC, and drives a few
of its devices. This directory models the parts of `src/src` in which order,
failure and stale state decide whether that is safe, checks them with TLC on
small instances, and proves the safety properties with TLAPS for every instance.

`PROJECT.json` lists for every definition the source lines it stands for, the
runs, a mutant for every checked property, the hazards and the theorems.

To repeat a run: `tlc -config Flash.cfg MCFlash`; to repeat a proof:
`tlapm FlashProofs.tla`.

## 1. The system

culvert is one process with one thread. What makes it hard is not threads but
the other side: every register access crosses a bridge that may fail, before or
after the access has taken effect; the BMC's CPU, its watchdogs and the flash
chip keep running in between; caches in the drivers (a remap register, an
mmap()ed window, an address width) may disagree with the hardware; and
everything that was opened, unlocked, gated or stopped has to be put back on
every way out.

| Component (source) | State it keeps | Operations | What is hard | What makes it correct |
|---|---|---|---|---|
| Flash erase (`flash.c`) | loop variables; the chip's contents, busy bit and write-enable latch | `flash_erase`, `fl_get_best_erase`, `fl_wren`, `fl_sync_wait_idle` | erase sizes against alignment, 64-bit wrap, a chip that ignores commands or is slow | erases only, and all of, what it was asked; returns |
| Flash write (`flash.c`) | the same, and the smart-write buffer | `flash_write`, `flash_smart_write`, `fl_wpage`, `flash_smart_comp` | pages, sectors and requests that cross both; failures half way | neighbours survive; verified means written |
| SPI controller and chip set-up (`soc/sfc.c`, `flash.c`) | control registers, `ctl_val`, `mode_4b`; the chip's own mode | `sfc_cmd_rd/wr`, `sfc_set_4b`, `flash_init`, `sfc_init/destroy` | three parties remember the width of addresses; a failed command leaves CE# low | commands are framed; widths agree; reads return data |
| Write command (`cmd/write.c`) | the window, how much of stdin was read | `cmd_write_firmware` | freezing a live BMC and thawing it on every way out | the BMC is frozen while its flash changes, and gets its CPU back |
| Reset command (`cmd/reset.c`) | - | `do_reset` | watchdogs the BMC restarts, failures behind the reset | ends in a reset, or in a BMC that runs |
| Clock, watchdogs, VUART (`soc/clk.c`, `soc/wdt.c`, `soc/uart/vuart.c`) | ARM clock gate, watchdog enables, discard bit | `clk_enable/disable`, `wdt_prevent_reset`, `wdt_perform_reset` | the BMC's software acts whenever its clock does | shared by the two commands |
| SoC drivers (`soc.c`, `soc/scu.c`, `soc/strap.c`, `soc/sioctl.c`, `soc/jtag.c`) | `drvdata`, the SCU's reference count and lock | lazy initialisation, `scu_get/put`, `soc_unbind_drivers` | nested initialisation, failures in it, destruction in an unrelated order | no use after free; unlocked while used; lock restored |
| AHB (`ahb.h`) | - | `read`, `write`, `readl`, `writel` | every command relies on it | each word goes to its own address |
| P2A bridge (`bridge/p2a.c`) | the cached remap register | `p2ab_map`, `p2ab_driver_reinit` | the SoC's reset clears the register behind the cache | implements the AHB |
| /dev/mem bridge (`bridge/devmem.c`) | the mapped window | `devmem_setup_win` | reuse, failure between munmap and mmap | implements the AHB inside what is mapped |
| iLPC bridge and SuperIO (`bridge/ilpc.c`, `sio.c`) | SuperIO lock, selected device, enables, address | a dialogue of LPC cycles | any cycle may fail | implements the AHB; leaves the SuperIO locked |
| Terminal server (`ts16.c`, `bridge/debug.c`) | modes and rate of its port, two connections | the login, `set_baud`, entry to and exit from debug mode | asynchronous commands, connections that break, failures of the clean-up | rates agree; the port is put back |
| Debug UART bridge (`bridge/debug.c`, `prompt.c`) | what is on the line, in the terminal, in stdio | `debug_read/write`, `prompt_gets/expect` | two ways of reading one stream; retries | answers belong to their questions; calls return |
| LPC2AHB bridge (`bridge/l2a.c`) | the iLPC bridge it is configured through | probe and destroy | torn down during its own initialisation | part of discovery |
| Discovery (`host.c`) | the list of bridges | `host_init`, `host_get_ahb`, `host_destroy` | probes and destroys that fail half way | what was opened is closed; the bridge works |
| Bridge controllers (`soc/pciectl.c`, `soc/ilpcctl.c`, `soc/debugctl.c`, `soc/bridges.c`, `soc/sdmc.c`, ...) | gates, filters, enables | `enforce`, `status` | the order of the writes, failures between them, three generations | takes effect; never exposes more on the way |
| Probe command (`cmd/probe.c`, `soc.c`) | the list of controllers, current and aggregate mode | `do_probe` | reports and drivers that fail; destruction order | the exit status tells the truth |
| Console command and UART mux (`cmd/console.c`, `soc/uart/mux.c`) | the routes and their saved copy | `do_console`, `uart_mux_route/connect/restore` | the routes change under a FIFO that drains by itself | each byte reaches the UART it is meant for; routes are restored |
| Software UART (`uart/suart.c`) | two FIFOs behind one status register, the relay's buffers | `suart_flush`, `suart_run`, `suart_read/write` | two streams that give way to each other, partial reads and writes | nothing is lost, repeated or stuck |
| OTP (`soc/otp.c`, `cmd/otp.c`) | one-time bits, key, soak registers | `otp_read`, `otp_write_conf`, `otp_write_strap` | irreversible; thirty accesses that may fail or time out | only the bit asked for is burnt; soak and key are put back |
| AHB siphons (`ahb.c`) | the address, the chunk | `ahb_siphon_in`, `ahb_siphon_out` | short reads and writes, failures half way | each byte goes to its own address, once |
| RAM and firmware transfers, single accesses (`cmd/read.c`, `cmd/write.c`, `ast.c`) | the range | `read ram`, `read firmware`, `write ram`, one access | ranges beside DRAM, sums that wrap at 32 and at 64 bits | touch only DRAM; refuse no part of it |
| Coprocessor command (`cmd/coprocessor.c`) | its control register, five settings | `run`, `stop` | it may be running while its memory is replaced; accesses that fail | let go only on a whole image and all its settings |
| Replace command (`cmd/replace.c`) | a window of RAM as it was read | `replace ram` | the BMC writes at the same time; matches overlap | nothing but matches changes |
| Bus trace (`soc/trace.c`, `cmd/trace.c`) | - ; the recorder has a FIFO and a ring | start, stop, dump, signals | entries in the FIFO; a ring that wraps; a trace that was killed | the dump is what the bus saw, in order |
| JTAG server (`cmd/jtag.c`) | listeners, client | a listening socket per client, the session | what one session leaves open meets the next | every client that calls is served, or the command ends |
| Argument parsing, logging, PCI and local terminals, ccan | - | - | none that concerns a model | left out |

### How the parts interact

A command (`cmd/*.c`) asks `host.c` for a bridge (module Host) and hands the
`struct ahb` to `soc_probe()`. Drivers are then asked for by name and
initialised on first use (SocDrivers). Drivers access registers only through
the AHB (Ahb, and the bridges that implement it). `flash.c` calls the flash
controller through a table of functions (Sfc), which it does not know to be
the SFC. `wdt_perform_reset()` calls back into the bridge
(`ahb_reinit_bridge`), since it has reset the bridge's far end. Commands that
move data give a descriptor and a range to a siphon of `ahb.c` (Siphon).
Everything is torn down by `soc_destroy()` and `host_destroy()`.

## 2. Modules

| Module | Models | Correspondence |
|---|---|---|
| `FlashErase` | `flash_erase()` and its callees, and the chip | one action per step between two transfers: `EraseLoop`, `WrenSend`, `WrenStat`, `EraseCmd`, `WaitIdle`; `ChipDone` is the chip's own step |
| `FlashWrite` | `flash_write()`, `flash_smart_write()` | `PageLoop`/`PageProgram`/`PageWait`, `Verify`, `SmartLoop`/`SmartErase`/`SmartNext`; the erase and `fl_wren()` by their results, which FlashErase checks; and `do_sfc()`'s write, which calls `flash_write()` for what each `read()` gives it |
| `Flash` | the flash library on three chips | EXTENDS FlashErase, INSTANCEs FlashWrite and Sfc; `part` says which one a behaviour is about |
| `FlashProofs` | - | the theorems about FlashErase, FlashWrite and Sfc |
| `Sfc` | user-mode commands, `sfc_set_4b()`, `flash_init()`, reads | `at` is the place in a command (CE# high, low, command byte, body, end), `pc` the place in the client |
| `SocReset` | clock gate, watchdogs, VUART discard, the BMC's software | operators with continuation labels, shared by the next two |
| `WriteFirmware` | `cmd_write_firmware()` | EXTENDS SocReset; a label per call, `cleanup` chain as in the code |
| `ResetCommand` | `do_reset()` | EXTENDS SocReset |
| `Otp` | `soc/otp.c`, `cmd/otp.c`, the controller | a primitive is the list of its accesses (`todo`), each an `AccessOk` or an `AccessFails`; `Complete` is the controller's own step |
| `Commands` | one command of the three | INSTANCEs the three; the BMC acts beside the first two |
| `CommandsProofs` | - | the theorems about the three |
| `SocDrivers` | `soc.c`, `scu.c` | `stack` is the nesting of `soc_device_init_driver()`; `holders` and `leaked` are history |
| `Ahb` | `struct ahb_ops`, and the abstract promise | the call in progress, its words, the memory; `Move` is the transfer of some words; `AhbNext`: any call moves its words in order, each at its own address, and may fail |
| `P2ab`, `Devmem`, `Ilpcb` | the bridges | EXTEND Ahb, one action per piece of an access |
| `DebugUart` | the debug shell dialogue | EXTENDS Ahb; `wire`, `rx`, `stdio` are the three places a byte may be |
| `Ts16` | `ts16.c` under `debug_enter()` and `debug_exit()`, the terminal server, TCP | a function is the list of its steps (`todo`); a step that fails names the list that replaces the rest (`OnFailure`) |
| `Bridges` | the command's bridge | INSTANCEs the five, one of which was picked; the first three refine Ahb |
| `BridgesProofs` | - | the theorems about Bridges |
| `Suart` | `suart_flush()`, `suart_run()` and their callees | one action per register access, `read()` and `write()` |
| `Console` | `do_console()`, the mux, the user and the BMC's UARTs | EXTENDS Suart; `Script` is the list of the function's calls, `at` the one in progress |
| `ConsoleProofs` | - | the theorems about Console |
| `Siphon` | `ahb_siphon_in()`, `ahb_siphon_out()` | `InRead`, `InWrite`, `OutRead`, `OutWrite`: a call each; data are tags |
| `Transfer` | `read ram`, `read firmware`, `write ram`, `ast_ahb_access()` | EXTENDS Siphon |
| `Coprocessor` | `cmd/coprocessor.c` | EXTENDS Transfer |
| `Replace` | `do_replace()`, the BMC's writes | EXTENDS Siphon; `Poke` is the BMC |
| `Trace` | `do_trace()`, `trace_start/stop/dump()`, the recorder | EXTENDS Siphon; the recorder's steps interleave |
| `Jtag` | `do_jtag()`, sockets, clients | EXTENDS Siphon for the bridge and the result |
| `Transfers` | one command of these | EXTENDS the last four |
| `TransfersProofs` | - | the theorems about Transfer, Coprocessor, Replace and Trace |
| `Host` | discovery | one action per probe, with the outcomes that the platform allows; `Destroy` is what each destroy function may leave open, and behind which step |
| `Session` | the frame of every command: discovery, `soc_probe()`, the drivers, destruction | EXTENDS SocDrivers, INSTANCEs Host |
| `SessionProofs` | - | the theorems about SocDrivers and Host, of the composition |
| `BridgeCtl` | `enforce()` and `status()` | one action per register write, each of which may fail with or without having landed |
| `BridgeCtlProofs` | - | the theorems about BridgeCtl |
| `Probe` | `do_probe()` | BridgeCtl's modes appear as constants of the behaviour |
| `ProbeProofs` | - | the theorems about Probe |

`MC<Module>` gives the constants that a `.cfg` cannot express. Definitions below
the line "Said of the program, and not what it does" belong to section 6. Operators whose
comment begins "Mutated" are plausible mistakes in the operation that follows
them; nothing refers to them, and they are there to show that a property would
notice.

### Abstractions common to all

* The unit of data is what the properties can tell apart: a word is the pair
  of the call that wrote it and its index; a flash byte is one bit; an image is
  counted in half windows.
* A failing access is a choice: it may have taken effect or not. Reasons for
  failure are not distinguished unless the code distinguishes them.
* Logging, formatting and argument parsing are left out.
* Variables marked "history" are not in the program; they remember what a
  property speaks about and no action reads them in a guard (where a guard
  does use one, it is a bound).

## 3. Runs

Every run but the last three passes. Deadlock is not checked: each behaviour is
a bounded number of calls of a program that ends. The type invariants of the
modules (`TypeOK`) hold in these runs and are not listed, as each would only
repeat what the properties depend on.

**Flash** - three chips, one per behaviour:

* *EraseConfined, EraseComplete, EraseReturns* (FlashErase). A chip
  of two 64 KiB blocks in units of 2 KiB, so that requests below the smallest
  sector exist; 52 ranges on and beside every boundary, past the end, and
  wrapping the 64-bit sum (modulus 128, twice the chip). Two calls, because what
  a failed call leaves behind (an erase in progress, a set latch) meets the next
  one. `fl_wren()` retries twice instead of 1000 times: once, and once more. A
  Micron chip, which has no 32 KiB erase, is asked for the 64 KiB windows that
  `cmd/write.c` uses and for the single sectors of `flash_smart_write()`. Nothing outside an accepted request is erased; 0 means all
  of it is; the call returns.
* *WriteConfined, WriteVerified, SmartPreserves* (FlashWrite). Two
  sectors of two pages of two one-bit bytes; requests that start and end inside
  pages, on pages and sectors, past the end and beyond the wrap. A failed
  transfer may have programmed part. A plain write touches nothing else; a
  verified write that returns 0 is in the chip, and so is `sfc write`, which is
  verified from wherever each short `read()` leaves it; a smart write preserves
  the neighbours that it erases, unless it read a chip that an earlier, failed
  call had left busy.
* *Framed, WidthsAgree, ReadsData* (Sfc). Both controllers and every
  kind of chip that `flash_info` lists (size, 4-byte capable, left in 4-byte
  mode, insisting on a write enable, ignoring it), two commands or reads.

**Commands** - *FlashFrozen, KeepsCpu, SuccessBoots, ResetOnWholeWindows,
Ends; BurnsTarget, Relocked, WriteTakes.* One command, chosen at the start;
FlashFrozen, KeepsCpu, SuccessBoots and Ends speak of the firmware writer and
of the reset alike.

* The firmware writer: two windows, images from empty over a half window to one
  larger than the flash, three watchdogs, a BMC that restarts watchdogs and may
  reset itself once. While the flash changes the BMC is frozen; a failure gives
  it back its CPU; success means it was reset and runs; no reset hits a
  half-written window; the command ends unless every write miscompares.
* The reset command on the same hardware. The clock is gated first, so that a
  stopped watchdog stays stopped, which is the order `cmd/write.c` does not
  have.
* The OTP command, twice on the same chip: two configuration words, straps that
  can be flipped twice (one of the three straps is used up, one protected),
  words of three bits, two tries. All arguments of the functions in `otp.h` are
  tried, among them the strap value 1, which the command line cannot give
  (divergence 13), and one that is no bit, which is refused. A bit may refuse to burn; every access may fail, with or
  without an effect; a wait may time out, or be interrupted in its
  `clock_nanosleep()`, while the controller goes on. A write
  to a busy controller ends the behaviour, as the source does not say what it
  does; and no command follows one whose clean-up failed.

**SocDrivers** - *HeldUsable, LockRestored.* `Session` on a host whose one way
to the BMC is the SuperIO (and no bridge, if the user disables that): the seven drivers that
depend on each other and a command that takes the SCU itself, in the order of
the device lists, and five acquisitions. Every init may fail, those of clk and
jtag behind `scu_get()`, too. Five reach the deepest nesting twice, and a retry.

**Bridges** - *AhbSpec, LeftAsFound; InStep, Returns.* The
first three bridges: six words, in three
windows or pages of two; every operation at every address with every length up
to four words. Two calls, with a reset of the SoC in between: the state that
one call leaves to the next is the cache and the window, which one call
determines entirely. `AhbSpec` is the refinement: `A == INSTANCE Ahb` with the
same variables, and AhbSpec is its specification while one of the three is in
use, with no access outside what is mapped (`InMapping`). LeftAsFound: the
SuperIO is locked between calls. P2A requests are those that stay in their
window or start on one, and iLPC writes have one unit: see divergences 5 and 7.

The debug UART (InStep, Returns): six registers, dumps of two to three
words, two calls, one garbled line, terminal errors at every read and write - of
which a write may have sent nothing, a part of a command or of its data, or all of
it (`HalfSent`) - one retry, debug mode entered twice. Unless a line was garbled, a
prompt left behind or half a command sent, a call that succeeds has moved its words
and every call returns.

The terminal server (LeftAsFound, InStep, Returns): any step of the login, the
connections and the entry may fail for want of memory (twice, since the
clean-up behind the first failure allocates too: what it leaves is only as
found when it did not run out again); either connection
may break, which the code learns once, before `read()` returns 0 for ever and
`write()` raises SIGPIPE; wrong credentials; a prompt across the end of the
100-byte buffer; debug mode entered twice; `force_quit` is read uninitialised
(`bridge/debug.c:551`) and may have any value, and the BMC may be at its console
or in the debug mode that somebody left it in. The password goes out at 1200
baud to a BMC that waits for it (unless it is in debug mode, and `force_quit` not
set: divergence 21), the shell is spoken to at 115200, the port is
in text mode when the control connection has been closed, and, unless somebody
went away, every function returns.

**Host** - *Released, Picked.* `Session` around an SoC of which nothing but the
SCU is bound and nothing is acquired: every platform (which LPC spaces open,
whether a SuperIO answers, which devices exist and work), any set of bridges
disabled, any one named, with the window that accesses through `/dev/mem` map
(`Access`) open or not, and every step of a destroy that may fail. What was opened
is closed, and the P2A locked, behind `host_destroy()`, except what a failing step
of the same driver leaves (`MayStay` lists it: divergence 22): no bridge that cannot
be destroyed keeps the others from it. On a host without the FW space the bridge
that is picked works.

**BridgeCtl** - *EnforceTakes, NeverLooser.* One call of `enforce()`: every
controller, generation and mode, from every setting of the registers that the
controller looks at. One call suffices because the initial registers are
arbitrary. What is disabled is closed on all endpoints; what is enabled is in
the mode asked for; and at no step, and not behind a failure, is the bridge
more open than before and than asked for.

**Probe** - *ExitStatus, AllReported, ListAlive.* The three device lists, every
mode of every bridge, every requirement, any driver missing and any report
failing. `current` is uninitialised at first: any mode.

**Console** - *Addressed, Shown, Restored, Flows.* FIFOs and a terminal buffer
of two bytes, which the longest string of the logins fills twice; three keys
and three bytes of output, one more than a FIFO holds; two retries of
`suart_read()`. Every access may fail, with or without an effect (a read of RBR that
fails loses its byte, so that Shown ends there), or report a line error; the other end
takes and sends bytes when it likes; a `sleep()` outlasts the FIFO. What goes
out arrives once, in order, at the UART that is meant; the relay's output has no
gaps unless the receive FIFO overran; the routes are restored; and both
directions make progress until the user's end is closed.

**Transfers** - *Copied, RangeChecked, LetsGoLoaded, Replaces, Recorded,
Served.* An address space of 16 with chunks of two, on hosts whose `unsigned
long` has the width of an address or twice it. `read()` and `write()` move any
part of what they are asked.

* Ranges start before, in and behind a DRAM that ends in the middle or at the
  end of the space, and are empty, fit, end behind it or wrap; inputs are
  shorter and longer than a chunk. A copy that succeeds is complete and in
  order, and a failed one is a prefix; only DRAM is touched, and no range in it
  is refused, where no sum wraps.
* The coprocessor is off, in reset or running at first, and every access may
  fail with or without effect. It is only let go behind a whole image and with
  all five registers set.
* Two windows of three bytes, matches that overlap themselves, replacements that
  are shorter or empty; the BMC changes any byte, any number of times, before and
  behind the read of its window and the command's write. At most two bytes are its
  last word at a time (`MaxPokes`); the read of a window, or a write of the command
  over them, makes room for more. At every step each window is replaced up to some
  byte, and to its end once it has been searched and no write failed; only bytes that
  the BMC was the last to write, behind the read, are its own.
* A ring of four words and five accesses, so that it wraps; the command is run
  twice, and may be killed or fail. A dump of a ring that has not wrapped is what
  the recorder saw.
* Three clients and four descriptors, one more than a session needs.

**TraceDump** - *DumpsBuffer*, violated: divergence 16.

**ProbeInterface** - *AllReported*, violated: divergence 1.

**OtpArguments** - *BurnsArguments*, violated: divergence 13.

## 4. Fairness

* `WF(Step)`: the program's own steps. It is one thread that never waits for
  another; a step that is enabled is taken.
* `WF(ChipDone)`: a chip finishes an erase it accepted. The code has no
  timeout ("XXX Add timeout") and relies on it.
* `WF(WdtFires)` of the watchdog that `wdt_perform_reset()` started: nothing
  stops it, as the BMC's CPU has no clock or is itself about to be reset.
  Watchdogs the BMC starts are not assumed to expire.
* `WF(Drain)`, `WF(Arrive)`: a UART sends what is in its FIFO, and what the BMC
  has printed arrives. Nothing holds the line: the code sets no flow control.
* `WF(Serve)` (Transfers): an OpenOCD session ends, and the kernel completes
  the calls on sockets.
* `WF(Execute)` (Ts16): the terminal server executes what was typed, as long as
  it is connected. A `sleep(1)` lasts until it has.
* `WF(Deliver)`: what the debug shell printed arrives. Reads of the terminal
  have no timeout.

No strong fairness is used, and none for the environment's failures: the
liveness properties hold although anything may fail at any time, or say what
they do not hold for (`Ends`, `Returns`, `Flows`).

## 5. Proofs

What TLC checks on the instances of section 3, TLAPS proves for every value of
the constants. Each proof has an inductive invariant, which was checked with
TLC on the run of its module before it was proved. The assumptions are those
that the modules state (`FlashAssumption`, `CommandsAssumption`,
`BridgesAssumption`, `TransfersAssumption`, ...), which TLC evaluates on every
run: sizes are positive, sectors consist of pages and chips of sectors, pages
of pages of memory, and so on.

**`EraseCorrect`** (`FlashProofs`): `ASSUME ChunkFits PROVE FlashSpec =>
[](EraseConfined /\ EraseComplete)`, for every chip size, every set of
requests, every bound and every pattern of failures. `ChunkFits` says that a
chip with 64 KiB but without 32 KiB erases is only asked for whole 64 KiB
blocks, as by `write firmware`, or for less than 32 KiB, as by the smart write;
without it the statement is false (divergence 2). `EraseConfined` is
not inductive: an erase in progress is confined because the chunk fits what is
left, what is left is part of the request, and the chip was idle with its
latch set when the command was sent. `EraseInv` adds these: `LoopOK` (dst and size
describe what is left, sector aligned, without wrap-around), `ChunkOK` (the
chunk is aligned and fits), `HandshakeOK` (between the status read and the
command the chip is idle and enabled; behind it the chunk is being erased or
is) and `DoneOK` (what lies behind dst is erased). Lemmas: `AcceptedRequest`
(the sanity checks exclude wrap-around), `BestErase` (the chosen chunk fits),
`NextStatusOK`.

**`EraseIsAtomic`** (`FlashProofs`): `ASSUME SectorRequests PROVE FlashSpec =>`
`[][WholeOrNothing]_flashVars` and, behind a call that returned 0, an idle chip
with the sector erased. It is what `FlashWrite` assumes when it takes the
`flash_erase()` of `flash_smart_write()` for a single step: of all the steps of
a call, and of the chip while it waits or after the call has failed, only one
changes what the chip holds or will hold (`EraseSettled`), and that one erases
the whole sector. `SectorInv` says why: `fl_get_best_erase()` chooses the one
command that erases an aligned sector at once (`BestSector`), so the chunk is
the request, and the loop ends behind it on an idle chip. `SectorRequests` is
how the smart write calls (one aligned sector, of a chip that has an erase
command) and implies `ChunkFits` (`SectorsFit`).

**`EraseAdvances`, `WriteMovesOn`** (`FlashProofs`), **`CommandAdvances`**
(`CommandsProofs`): the part of termination that needs no fairness. Each gives
the program's state a lexicographic measure of natural numbers - for the erase
what is left of the request and the steps left of the round, retries of
`fl_wren()` included; for the writes what is ahead of the piece in hand, its
stages and its pages; for the firmware writer and the reset the input left, the
distance to the end and the watchdogs left to stop - and says that every step
of the program decreases it and no step of the chip or the BMC increases it. So
no loop turns for ever, for every size, image and bound, except the one in
`cmd/write.c` that `CommandAdvances` names: the retry after a miscompare.

**`ScuCorrect`** (`SessionProofs`): `SessionSpec => [](HeldUsable /\
LockRestored)`, by way of SocDrivers' `Spec`, which every session implements, for every set of drivers, dependency, order of destruction and
number of acquisitions; the one assumption is that dependencies are acyclic
(`Level`) and every driver is on the list. `IInv` says that the count is the
number of initialised users and leaked references (`CountOK`, `HoldersOK`),
that the lock is open while the context lives and as found otherwise
(`LockOK`), that drivers on the stack are distinct and uninitialised
(`StackOK`), and what `soc_unbind_drivers()` has destroyed (`UnbindOK`).

**`ConfinedCorrect`, `VerifiedCorrect`, `SmartCorrect`** (`FlashProofs`):
`FlashSpec => []WriteConfined`, `[]WriteVerified` and `[]SmartPreserves`, for
every size of page, sector and chip and every contents. One invariant serves
all three operations: `Aim(u)` is what the call means unit u to be by now (the
caller's data below `Reached`, the old contents beyond), and `AimOK` says that
the chip, once it has settled, agrees with it outside the range in hand, while
the source of `flash_write()` agrees inside. `RangeOK` bounds that range,
`SmartOK` and `SfcOK` say how it lies in the request of the two callers that
cut it into pieces, and `Confined` is `WriteConfined` with every pending
program counted as done. That pages and chunks nest is `Quotient`, `SamePart`
and `SmartFits`.

**`FramedCorrect`, `WidthsCorrect`, `ReadsCorrect`** (`FlashProofs`): `[]Framed`
for every chip, and `ASSUME S!SmallFmcUntouched PROVE` `[]WidthsAgree` and
`[]ReadsData`. The width that the driver holds is only the chip's once the
command has been carried out, which happens when CE# rises, perhaps during the
next command (`Executed`); so `SwitchOK` follows the EN4B or EX4B from the
write enable before it, through each phase of the command, to the chip's next
deselection, and `FramedOK` says in which phase CE# is low. The hypothesis:
somebody may have left an FMC that drives a small chip in 4-byte mode, which
`sfc_set_4b()` does not undo. The instance of the run satisfies it, and without
it the statement is false (divergence 10).

**`FrozenCorrect`, `CpuCorrect`, `BootsCorrect`, `WindowsCorrect`**
(`CommandsProofs`), for every number of watchdogs and windows and every image.
None of the four properties is inductive alone: that the BMC has its CPU at the
end depends on which label of the clean-up a failure goes to (`WriteEndOK`,
`ResetEndOK`), that a reset meets no half-written window on `rc` being what it
is when one exists (`WindowsOK`), and that it is this command's reset on when
the watchdog that performs it runs (`OwnOK`). `StoppedOK` and `FreezeOK` say
what the BMC's software can still do, between any two steps.

**`RelockedCorrect`, `TakesCorrect`, `BurnsCorrect`** (`CommandsProofs`), for
every number of words, options, bits and tries and every contents. A primitive
of `otp.c` is a list of accesses; `Reads`, `Programs` and `Soaks` say for every
rest of such a list what the registers hold, given that a time-out may leave
the controller at work. `TargetOK` carries what the checks have established
through retries and soaks until the bit burns, and `StrapOK` the loop over the
options: its parity is that of the options burnt so far (`Parity`,
`BurntFlips`). As in the properties, a register written to a busy controller
ends what is claimed (`collided`).

**`AhbCorrect`** (`BridgesProofs`): `Spec => AhbSpec`. P2ab, Devmem and Ilpcb
implement Ahb, with the state of the call shared and the caches hidden: every
step of them either moves the next words of the call, each at its own address,
or returns, or leaves the abstract state alone, and no word is moved outside
what is mapped. P2ab needs that the remap register is what the driver believes
(`P2abInv`: a SoC reset clears the one, the reinitialisation the other), and
that the pieces of a request start on windows (`NextWindow`); Devmem that its
window is whole pages around the request (`WholePages`); Ilpcb that the address
registers hold the address of the word about to be triggered. The reset of the
SoC, the other two bridges and everything a terminal server does are stutters.

**`CopyCorrect`, `RangesCorrect`, `LetGoCorrect`** (`TransfersProofs`), for
every address space, window, chunk, DRAM, range and input. `OutLoop` and
`InLoop` say what has been moved at each label of a siphon, in terms of what
the code tells it; `ArgsOK` and `DramOK` what the code has told it, modulo the
width of its sums (`Sums`, `Wrap`, `WrapTwice`); `RefusedOK` why a range is
refused, and `CtrlOK` where the coprocessor is held.

**`TraceCorrect`** (`TransfersProofs`): `Spec => []Recorded`, for every ring,
FIFO and number of traces one after the other. `FifoOK` says that the FIFO
holds the last entries seen, in their order and whichever trace they belong to,
`PhaseOK` at which labels the recorder is on, `StoredOK` that an unwrapped ring
is the leftovers of the trace before (`stale`) and behind them every entry of
this one up to those in the FIFO, and `DumpOK` how much of it the siphon has
written to the file. A flush while entries arrive keeps `StoredOK` because it
moves the ring's end and the FIFO's head together (`RecorderKeeps`).

**`ReplacesCorrect`** (`TransfersProofs`): `Spec => []Replaces`, for every size of
window and RAM, every MATCH and REPLACE, and a BMC that changes any byte between any
two steps, however often. What a window ought to become is stated by its matches (`Found`: from the
left, none overlaps another, and one that is passed over is covered), so the invariant
is the property in progress: `WindowsOK` says of each window how far it has been
replaced - to its end, to the write that failed, to the needle, or not at all - and,
of the one in progress, that no match found reaches behind the needle, without which
the next one might overlap it. A match that is overwritten is the next of `Found`
(`FoundNext`, `Overwritten`); a step elsewhere leaves a window alone because windows do
not overlap (`Apart`, `Frame`), and takes no byte from the BMC (`pokes`). The first
match behind the needle is the least element of a set of numbers (`Leasts`, from the
well-foundedness of `<`).

**`TightCorrect`, `TakesEffect`** (`BridgeCtlProofs`): `ASSUME
NoRestrictedDebug PROVE Spec =>` `[]NeverLooser` and `[]EnforceTakes`, for every
generation, set of region filters and number of calls, from any contents of the
registers. `Status` reduces what `status()` finds, a minimum over the endpoints,
to the registers behind it, and a step is safe when it leaves the bridge as tight as it was or
as it was asked to be (`StaysTight`). The invariant says which filter is in
force at which step: the iLPC's write filter before SuperIO decodes anything
and the gate opens (`IlpcOK`), the P2A's region filters before its device is
switched on, and, while one endpoint is being disabled, that the one behind is
(`PcieOK`). The hypothesis is the code's own: "The debug UART doesn't support
restricted mode" (`soc/debugctl.c:48`), where a request for it would be granted
as permissive.

**`LeftCorrect`** (`BridgesProofs`): `Spec => []LeftAsFound`, for any number of
entries to debug mode and of failed allocations, and connections that break
anywhere. `PlaceOK` goes through the lists of steps: what is left of each function
(`Login1` to `Login9`, `Quit1` to `Up7`, ...) stands beside what is then known of
the port and the BMC. `Final` is the port once the command that was typed is executed
(`Soon`, `Now`), so that the terminal server's own steps change nothing; a place
is left by a step of one kind (`TellSteps`, `RunSteps`, ...), on or to the list that a
failure names (`OnFailures`). That the functions are those lists (`Lists`) is a matter
of where the brackets are (`Regroup3` to `Regroup5`).

**`InStepCorrect`** (`BridgesProofs`): `Spec => []InStep`, for any timing of the
line, length of a dump, line length and pattern of errors. For the debug UART the
invariant is `DebugInv`: as long as no line was garbled and no prompt was left
behind (`Sound`), either every answer is taken from the terminal (`TermOK`, which
lists what is on its way at each label), or a dump is read (`DumpOK`). Of a dump,
`Coming(p)` says that everything from its item p on - echo, lines, prompt - is in
the stream's buffer, in the terminal or on the line, whichever part is where, and
that the cursor stands p - 1 lines into the buffer; so every line parses
(`NoRetry`), and a dump ends with no more than its own prompt in the buffer
(`GetLineStep`), which the next one skips (p = -1, `GetEchoStep`). `MovedOK` says which words
have been moved so far. `WasSound` allows all of it to be claimed only as long as
nothing went wrong: `Sound` is lost, never regained. It needs that the debug UART's
requests are requests of the AHB (`DebugRequests \subseteq Requests` in
`BridgesAssumption`), as callers make them. Behind a terminal server it follows from
`PlaceOK`: of all the places one sends the password (`Elsewhere`), with the port at
1200 baud; and that a connection which is up has never broken (`ConnOK`).

**`AddressedCorrect`, `ShownCorrect`, `RestoredCorrect`** (`ConsoleProofs`): `Spec
=>` `[]Addressed`, `[]Shown` and `[]Restored`, for every depth of the FIFOs, every
size of buffer, number of retries, input and output. `SentOK` says that what
UART5, and then UART2, has received, the FIFO, what `suart_write()` has in hand and
what the rest of the script will send (`ToSend5`, `ToSend2`, from the step `Due` on)
are together the login, and behind it the keys; `MuxOK` which routes are set at
each step; so a byte that leaves the FIFO goes where it is meant, which needs that
the FIFO is empty where a route changes (the sleeps, `tx = <<>>` in `SentOK`)
and that `suart_write()` never meets a full one (`Len(tx) + slots <= Fifo` in
`UpOK`). A failure may leave the script anywhere, with any part of a login in the
FIFO: `SafeOK` is what is left of `SentOK` then. `ShownOK` says that what the terminal
has got, both buffers and what the BMC has still to print are the end of its
output. The lemmas about sequences (`Moved`, `Cut`, `Prefixes`, `Suffixes`) are of
the kind the models of queues here need.

**`ReleasedCorrect`, `PickedCorrect`** (`SessionProofs`): `SessionSpec =>`
`[]Released` and `[]Picked`: for every order of the drivers, set of platforms, disabled drivers and named one. The
invariant `HostInv` says that whatever is open either belongs to a bridge on the list,
which is what lets `host_destroy()` find it, or stayed behind a step of the same
driver that failed (`Excused`, with `MayStay`), and that without a FW space and with a
SuperIO every bridge on the list works. `ProbeOutcome` and `DestroyOutcome` reduce both
to what a single probe or destroy leaves. That out of memory leaves things open is no
exception: the command exits.

**`StatusCorrect`, `ReportedCorrect`, `AliveCorrect`** (`ProbeProofs`): `Spec =>`
`[](Unnamed => ExitStatus)`, `[](Unnamed => AllReported)` and `[]ListAlive`, for any
generations, drivers, controllers, modes and failures. `Unnamed` says that no
interface was named, which the code would take for the name of a controller
(divergence 1). `ReportOK` says that without an error the aggregate is the least of
the modes passed so far and every controller passed has reported; with `InitOK`
(behind the last driver every controller is on the list, or one has failed) the
verdict is about the whole SoC. `ListAlive` needs that no controller is on the list
twice (`ListOK`) and that, where pciectl comes last, nothing that is freed is on the
list (`FreedOK`): every other driver has one controller, which it unregisters.
`Prepended` and `Unlinked` say what `list_add()` and `list_del()` make of a list.

What attempts at these proofs showed about the models: `WidthsAgree` held only
because the chips of the run are restricted (`SmallFmcUntouched`, now a
definition of its own); the flash window of a coprocessor or a read must lie in
the address space, as the devicetree's does, and words of the OTP memory hold
bits (assumptions that were missing); and `LeftAsFound` held only because
memory ran out at most once: the clean-up of `ts16.c` allocates too, and when
that fails the port stays in binary mode. The property now says so, and its
run lets memory run out twice. `ChunkFits` allowed a Micron chip 64 KiB blocks
only, which left out the sectors of the smart write: those never meet the
choice that is wrong, and the theorem and the run now cover them.

Model-checked only:

* Liveness (`EraseReturns`, `Ends`, `Returns`, `Flows`, `Served`): fairness and
  ENABLED are out of the prover's reach. For the erase and the two commands of
  `Ends` the variants above are proved; what TLC adds is that a step is always
  possible, or the chip or the watchdog takes one.

## 6. Known divergences

What a doc, comment, assertion or test says and the code does not do. 1, 13 and
16 have a run; each of the others is reproduced by adding the formula, or its
instance, to the run that contains the module named (`Commands` for
WriteFirmware, ResetCommand and Otp; `Flash` for FlashErase, FlashWrite and
Sfc; `Bridges` for P2ab, Devmem, Ilpcb, DebugUart and Ts16; `Transfers` for
Transfer, Replace, Trace and Jtag). Where a passing run excludes one, the property or the MC module
says so.

1. `cmd/probe.c:126` - `culvert probe via debug-uart /dev/ttyUSB0`
   (`README.md:204`) passes the terminal's path as the name of the controller
   to report: none matches, nothing is reported and every requirement is met.
   Run ProbeInterface.
2. `flash.c:161` - for a chip without the 32 KiB erase `fl_get_best_erase()`
   chooses 64 KiB whenever dst is 32 KiB aligned and 32 KiB are left.
   `FlashErase`: `<<Micron, w[1], w[2]>>` for w in `AnyRange`, without
   `WritersFit`; EraseConfined.
3. `cmd/write.c:211` - a short `read()` leaves the loop with rc 0 and the SoC
   is reset onto a partly written flash, where `README.md:74` says
   "subsequent to completion". `WriteFirmware`: ResetAfterCompletion. The
   clock is ungated behind the reset (`soc/wdt.c:183`), not "immediately
   prior": UngatedPriorToReset. A reset that fails returns without ungating
   (`cmd/write.c:242`): BmcKeepsCpu.
4. `cmd/reset.c:131` - failures to get the clock or the watchdog exit with
   success. `ResetCommand`: ExitStatus.
5. `bridge/p2a.c:127` - a request from the middle of the window runs past its
   end. `Bridges` with `P == INSTANCE P2ab`: InMapping.
6. `bridge/devmem.c:227` - `assert(!ctx->win)` fails behind any access through
   the window, and the bridges behind it on the list are not destroyed: the P2A
   stays unlocked (`DestroyAborts` in Host). `Bridges`: `state # "abort"`.
7. `bridge/ilpc.c:148` - `ilpcb_write()` writes all its words to the first
   address. `Bridges` with `I == INSTANCE Ilpcb`: AhbSpec.
8. `bridge/debug.c:288` - a dump may leave its prompt behind, which answers
   the next command; `bridge/debug.c:270` - a retried dump overruns the
   caller's buffer. `DebugUart`: Answered, InBuffer.
9. `bridge/l2a.c:203` - `l2ab_init()` takes the 1 that `ilpcb_probe()` returns
   for a working bridge as an error, tears the bridge down and returns 1,
   which counts as success. `Session` with `H == INSTANCE Host`: Initialised. `bridge/ilpc.c:30` - no
   SuperIO counts as a working bridge. `Session`: Discovered.
10. `soc/sfc.c:338` - an FMC stays in 4-byte mode when a small chip is
    switched to 3 bytes. `Sfc`, with such a chip in `MCSetups`: WidthsAgree.
    `flash.c:478` - a chip that is busy when it is identified is waited for
    through a NULL pointer. `Sfc`: WaitsForIdle.
    `soc/sfc.c:953` - write protection sets the bits that enable writes.
    `Sfc`: WriteProtected.
11. `soc/pciectl.c:471` - restricting or disabling X-DMA lifts its constraint.
    `BridgeCtl`: NeverLooser without the exception. `soc/pciectl.c:186` - a
    P2A of the AST2600 that could not be switched on is reported as switched
    on. `BridgeCtl`: EnforceTakes without `Excused`.
12. `soc/pciectl.c:859` - `pciectl_driver_destroy()` frees xdmactl while it is
    on the list, and on the AST2500 the next `list_del()` writes to it.
   `Probe`: `~misuse`. `soc.c:620` - a controller whose driver failed counts
    as closed. `Probe`: ExitStatus without `~lost`.
13. `cmd/otp.c:86` - the fourth argument overwrites the third and the value
    stays 0: `otp conf write WORD BIT` burns bit 0 of word BIT, where the help
    (`cmd/otp.c:30`) says "word and bit". Run OtpArguments.
14. `soc/otp.c:252` - used-up tries are reported as success, and a success at
    the last try as a failure. `Otp`: Reported. `soc/otp.c:213` - the end of
    the input confirms a write if errno is 0. `Otp`: Confirmed.
    `soc/otp.c:231` - a first `otp_set_soak()` that fails half way is not
    undone; Relocked excepts it.
15. `uart/suart.c:236` - `suart_destroy()` disables the device `ctx->dev`,
    which nothing sets. `Console`: SuartDisabled. `uart/suart.c:431` - at the
    end of its input `suart_run()` spins and shows nothing more. `Console`:
    ShownToTheEnd. `cmd/console.c:129` - missing drivers exit with success.
    `cmd/console.c:178` - `suart_flush(suart, "\n", 5)` sends what lies behind
    the string (`NlMore` in `Script`).
16. `soc/trace.c:239` - the older half of a ring that has wrapped is dumped
    with a length that mixes an address with an offset: "dumping trace buffer
    from write pointer" goes on far beyond the buffer. Run TraceDump. A trace
    that fails or is killed leaves the recorder on, and the FIFO's contents to
    the next (`Recorded` allows for both); without a recorder, as on the
    AST2400, the command exits with success.
17. `cmd/write.c:313` - the sum of base and size wraps where `unsigned long` has
    32 bits, and `write ram` writes beyond DRAM; on an AST2600 whose 2 GiB end
    the address space every explicit range is refused; `read ram BASE 0` dumps
    all of DRAM. `Transfer`: OnlyIllFormed.
18. `cmd/replace.c:171` - matches across two windows are missed (a FIXME says
    so), an empty MATCH is found for ever, a failed write of a match is
    swallowed, and the command exits with failure when it has succeeded.
    `Replace`: FailureShows.
19. `ast.c` - a single access that fails leaves the program without destroying
    the bridge, which for the debug UART means in debug mode with the port in
    binary mode; `cmd/ilpc.c` returns 0 when its clean-up fails.
    `cmd/read.c:161` - a failed `sfc_get_flash()` does not take back the write
    protection. `cmd/sfc.c` - `sfc read` ignores a short `write()`, and writes
    its buffer out behind a failed `flash_read()`.
20. `cmd/jtag.c:175` - failures of `bind()`, and clients that hang up, leave
    sockets open until there are none left. `Jtag`: Ready. A failed
    `jtag_get()` exits with success.
21. `ts16.c:97` - a connection that breaks never gets to "Disabling binary
    mode": behind the one error `prompt_expect()` reads 0 for ever
    (`prompt.c:64`), and writes to the console raise SIGPIPE. `Ts16`: Disables.
    `ts16.c:148` - a failure in `ts16_control_destroy()` leaves the connection
    open, as does `debug_init_v()` that of the console (`bridge/debug.c:524`).
    `Ts16`: Closed. `ts16.c:133` closes what `prompt_destroy()` has closed.
    `tty.c:107` - `!ctx->fd` is not how `open()` fails: the terminal is set up
    all the same, and the caller sees -1 in place of the error.
    `bridge/debug.c:551` - without `--force-quit` ("Blindly exit debug mode before
    entering", `cmd/debug.c:27`), or with the variable uninitialised as in the other
    commands, a BMC that was left in debug mode never answers the password, and
    `debug_enter()` waits for it for ever. `Ts16`: InStep without `Waits`.
22. What `host_destroy()` leaves behind a step that fails (`Host`: Released without
    `MayStay`): `l2ab_destroy()` returns before it closes the I/O and FW spaces when
    HICR7 and 8 cannot be restored, and before the FW space when `ilpcb_destroy()`
    fails (`bridge/l2a.c:226`-232); `p2ab_destroy()` keeps mapping and descriptor
    when `munmap()` fails, and `devmem_destroy()` its mapping; and the terminal and
    the terminal server's connection of 21. `l2ab_init()` leaves the FW space open
    when there is no I/O space.

Not a divergence from anything written, but odd: `mux_lookup` gives UART4 to
UART5 the value of UART3 to UART5 (`soc/uart/mux.c:80`, 86), which continues
neither column. No command uses that route.

Nor is this contradicted by anything written: `cmd/write.c:172` stops the watchdogs
before it gates the clock, so the BMC may restart one in between and reset the SoC
while its flash changes. FlashFrozen excepts exactly that (`rearmed`); `cmd/reset.c`
gates first and does not have the gap.

## 7. Not modelled

* The routes of `soc/uart/mux.c` that no command uses, and the register
  arithmetic of all of them.
* A signal that ends the console command: it ends the process, and restores nothing.
* A bridge that goes stale in a reset, in SocReset: that `wdt_perform_reset()`
  reinitialises it before it ungates the clock is in the model as the order of its
  steps, and what the reinitialisation is for in P2ab.
* The second word of the OTP straps: one word of bits stands for both.
* What the OTP controller does when it is written while busy.
* `l2ab_map()`'s window arithmetic: no path of the program leaves a working
  LPC2AHB bridge (divergence 9).
* The timing calibration of `soc/sfc.c` (385-845): `sfc_setup()` returns
  before it.
* `flash_erase_chip()` and other functions without a caller.
* Other writers of the registers that BridgeCtl changes: no doc says who owns
  them while culvert runs.
* The bits that an OpenOCD session sets and reads, and its registers.
* The merge of half-word entries in the trace recorder's FIFO: entries are
  whole words.
* `sfc read`: one `flash_read()` and one `write()` (divergence 19).
* Local terminals (`tty.c`): an `open()` and a `tcsetattr()` per rate; argument
  parsing, logging, PCI and devicetree lookups, ccan: relays, pure I/O or
  vendored code.

## 8. Plan

Done, in this order: FlashErase (the irreversible operation) and its proof;
FlashWrite; SocReset with WriteFirmware and ResetCommand; SocDrivers and its
proof; Ahb, the bridges, Bridges; DebugUart; Host and Session; Sfc; BridgeCtl;
Probe; Otp and Commands; Suart and Console; Siphon with Transfer, Coprocessor,
Replace, Trace and Jtag, and Transfers; Ts16; Flash.

Next, modules, if any:

1. The window arithmetic of `l2ab_map()`, as an operator checked against the
   map it should compute.
2. Variants for the debug UART and the terminal servers, whose retries depend on
   what the line does.

Every safety property that a passing run checks is a theorem.
