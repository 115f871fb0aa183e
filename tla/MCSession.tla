----------------------------- MODULE MCSession -----------------------------
(***************************************************************************)
(* The bridge drivers in the order of bridge/meson.build, and the SoC      *)
(* drivers that depend on each other, in the order in which the            *)
(* devicetrees of src/src/devicetree bind them: children before parents,   *)
(* and list_add() puts the last one at the head.                           *)
(***************************************************************************)
EXTENDS Session

MCBridgeOrder == <<"debug-uart", "devmem", "ilpc", "l2a", "p2a">>

\* Whatever answers has been opened, and what hangs off the SuperIO needs one.
Any ==
  {p \in [io : BOOLEAN, fw : BOOLEAN, sio : BOOLEAN,
          ends : SUBSET {"debug-uart", "devmem", "p2a"},
          works : SUBSET {"debug-uart", "devmem", "ilpc", "l2a", "p2a"}] :
     /\ {"ilpc", "l2a"} \intersect p.works # {} => p.sio
     /\ p.works \subseteq p.ends \union {"ilpc", "l2a"}}

\* A host that reaches its BMC through the SuperIO alone: the drivers are
\* what matters.
SioOnly == {p \in Any : p.io /\ p.sio /\ ~p.fw /\ p.ends = {} /\ p.works = {"ilpc"}}

MCDevices == {"scu", "clk", "strap", "sioctl", "jtag", "wdt", "sfc", "cmd"}

MCDep ==
  [d \in MCDevices |->
     CASE d \in {"clk", "strap", "jtag", "cmd"} -> "scu"
       [] d \in {"wdt", "sfc"} -> "clk"
       [] d = "sioctl" -> "strap"
       [] d = "scu" -> "none"]

MCLevel ==
  [d \in MCDevices |->
     IF d = "scu" THEN 0 ELSE IF d \in {"wdt", "sfc", "sioctl"} THEN 2 ELSE 1]

MCOrder == <<"wdt", "jtag", "scu", "sioctl", "strap", "clk", "sfc">>

MCFailAfter == {"clk", "jtag"}
MCKeeps == {"jtag"}

\* An SoC of which nothing but the SCU is of interest.
ScuOnly == {"scu", "cmd"}
ScuDep == [d \in ScuOnly |-> IF d = "cmd" THEN "scu" ELSE "none"]
ScuLevel == [d \in ScuOnly |-> IF d = "cmd" THEN 1 ELSE 0]
ScuOrder == <<"scu">>
Nobody == {}

=============================================================================
