-------------------------------- MODULE Jtag --------------------------------
(***************************************************************************)
(* `culvert jtag`, cmd/jtag.c: a server that takes one OpenOCD client at a *)
(* time on a TCP port, with a listening socket of its own for each.  What  *)
(* an earlier socket leaves behind is still there for the next: a listener *)
(* that was not closed shares the port (SO_REUSEPORT), and the kernel      *)
(* gives it clients too.                                                   *)
(*                                                                         *)
(* A command that is carried out leaves the server where it is.            *)
(***************************************************************************)
EXTENDS Siphon, FiniteSets

CONSTANTS
  Clients,  \* the clients, which connect once each
  Fds       \* how many sockets the process may have open

JtagAssumption == Fds \in Nat

VARIABLES
  listeners,  \* the listening sockets that are open, by number
  server,     \* server_fd: the number of the last one
  client,     \* whose connection client_fd is, or "nobody"
  orphans,    \* other sockets that are still open
  called,     \* the clients that have called
  waiting,    \* whose queue each client is in, or 0
  failed      \* history: an access or a call of the kernel failed

jtagVars == <<listeners, server, client, orphans, called, waiting, failed>>

JtagIdle ==
  /\ listeners = {} /\ server = 0 /\ client = "nobody" /\ orphans = 0
  /\ called = {} /\ waiting = [c \in Clients |-> 0] /\ failed = FALSE

JtagInit == SiphonInit /\ input = 0 /\ kind = "jtag" /\ JtagIdle

InUse == Cardinality(listeners) + orphans + (IF client = "nobody" THEN 0 ELSE 1)

\* soc_probe(), jtag_get() and jtag_route(), whose result is not looked at.
\* Without a JTAG controller the command ends well.
JtagProbe ==
  /\ pc = "probe" /\ UNCHANGED jtagVars
  /\ Goto("listen") \/ Goto("close") \/ Fail("close", EIO)

\* socket(), bind() and listen().  A socket that cannot be bound stays open,
\* and do_jtag() tries again, for ever.
Listen ==
  /\ pc = "listen" /\ InUse < Fds
  /\ \/ /\ Goto("accept") /\ server' = server + 1
        /\ listeners' = listeners \union {server'} /\ UNCHANGED <<orphans, failed>>
     \/ /\ Goto(pc) /\ orphans' = orphans + 1 /\ failed' = TRUE
        /\ UNCHANGED <<listeners, server>>
  /\ UNCHANGED <<client, called, waiting>>

\* accept() of a client in the queue of this socket.
Accept ==
  \E c \in Clients :
    /\ pc = "accept" /\ waiting[c] = server
    /\ \/ /\ InUse < Fds /\ Goto("serve") /\ client' = c
          /\ waiting' = [waiting EXCEPT ![c] = 0] /\ UNCHANGED failed
       \/ InUse = Fds /\ Goto("listen") /\ failed' = TRUE /\ UNCHANGED <<client, waiting>>
    /\ UNCHANGED <<listeners, server, orphans, called>>

\* A listener that is closed turns its queue away.
CloseServer ==
  /\ listeners' = listeners \ {server}
  /\ waiting' = [c \in Clients |-> IF waiting[c] = server THEN 0 ELSE waiting[c]]

(* Mutated: server_fd is not closed.                                        *)
Quit_leaks ==
  /\ pc = "serve" /\ Goto("listen") /\ client' = "nobody"
  /\ UNCHANGED <<server, listeners, waiting, orphans, called, failed>>

\* 'Q'
Quit ==
  /\ pc = "serve" /\ Goto("listen") /\ client' = "nobody" /\ CloseServer
  /\ UNCHANGED <<server, orphans, called, failed>>

\* "Client closed connection": client_fd is not closed.
HangUp ==
  /\ pc = "serve" /\ Goto("listen") /\ client' = "nobody" /\ CloseServer
  /\ orphans' = orphans + 1
  /\ UNCHANGED <<server, called, failed>>

\* jtag_bitbang_get(), jtag_bitbang_set() or write() fails: neither socket is
\* closed.
Breaks ==
  /\ pc = "serve" /\ Goto("listen") /\ client' = "nobody"
  /\ orphans' = orphans + 1 /\ failed' = TRUE
  /\ UNCHANGED <<listeners, server, called, waiting>>

run_openocd_bitbang_server == Listen \/ Accept \/ Quit \/ HangUp \/ Breaks

\* A client, which is external, connects: the kernel chooses the listener.
Connect ==
  /\ kind = "jtag"
  /\ \E c \in Clients \ called, l \in listeners :
       called' = called \union {c} /\ waiting' = [waiting EXCEPT ![c] = l]
  /\ UNCHANGED <<ahbVars, listeners, server, client, orphans, failed>>

JtagStep ==
  /\ kind = "jtag" /\ UNCHANGED <<kind, siphonVars>>
  /\ \/ (OpenBridge \/ Close) /\ UNCHANGED jtagVars
     \/ (JtagProbe \/ run_openocd_bitbang_server) /\ UNCHANGED bridge

-----------------------------------------------------------------------------
JtagTypeOK ==
  /\ listeners \subseteq 1 .. server /\ client \in Clients \union {"nobody"}
  /\ InUse <= Fds /\ called \subseteq Clients /\ waiting \in [Clients -> 0 .. server]
  /\ failed \in BOOLEAN

\* A client that has got through to the port is served or turned away, as long
\* as the sessions before it end, and nothing has failed in them: no listener
\* but the one that is accepting has clients in its queue.
Served == \A c \in Clients : waiting[c] # 0 ~> waiting[c] = 0 \/ failed

-----------------------------------------------------------------------------
(***************************************************************************)
(* Said of the program, and not what it does: see "Known divergences" in   *)
(* README.md.                                                              *)
(***************************************************************************)

\* cmd/jtag.c: "Ready to accept OpenOCD remote_bitbang connection".  While it
\* runs, the server is ready again and again.
Ready == kind = "jtag" /\ pc = "listen" ~> pc = "accept"

=============================================================================
