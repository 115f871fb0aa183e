------------------------------- MODULE Probe --------------------------------
(***************************************************************************)
(* `culvert probe`, cmd/probe.c over soc.c: the drivers of the bridge      *)
(* controllers are initialised, each puts its controllers on soc->bridges, *)
(* every controller reports the mode of its bridge, and the exit status    *)
(* says whether the least strict of them meets a requirement.  Then the    *)
(* drivers are destroyed, in the order of soc->devices, and take their     *)
(* controllers off the list.  BridgeCtl has the modes; every report may    *)
(* fail, before or after it has set the caller's mode.                     *)
(***************************************************************************)
EXTENDS Integers, FiniteSets, SequencesExt

CONSTANTS
  Socs,     \* for each generation, soc->devices as far as they are bridge controllers
  Bridges,  \* the controllers that each driver registers, in order
  Loses,    \* the drivers whose initialisation may fail
  Names,    \* connection.interface: None, or a path
  None

Modes == 0 .. 2
bm_disabled == 2
Devs == UNION {Range(Socs[g]) : g \in DOMAIN Socs}
All(d) == Range(Bridges[d])

ASSUME ProbeAssumption ==
  /\ \A g \in DOMAIN Socs : Socs[g] \in Seq(Devs) /\ IsInjective(Socs[g])
  /\ \A d \in Devs :
       /\ Bridges[d] \in Seq(All(d)) \ {<<>>} /\ IsInjective(Bridges[d])
       /\ d # "pciectl" => Len(Bridges[d]) = 1
  /\ \A d, e \in Devs : d # e => All(d) \intersect All(e) = {}
  /\ Loses \subseteq Devs /\ None \in Names

VARIABLES
  devices,  \* soc->devices
  truth,    \* the mode of each bridge
  require,  \* arguments.requirement
  listing,  \* arguments.list_ifaces
  name,     \* arguments.connection.interface
  pc,
  next,     \* of the loop in progress
  ready,    \* devices with drvdata
  bridges,  \* soc->bridges, its head first
  current, aggregate, error,  \* of soc_probe_bridge_controllers()
  rc,       \* the exit status: 0 or 1
  reported, \* history: controllers that have reported
  lost,     \* history: the driver of some controllers failed
  freed,    \* history: controllers whose memory has been freed
  misuse    \* history: list_del() wrote to one of them

args == <<devices, truth, require, listing, name>>
loop == <<current, aggregate, error>>
vars == <<args, pc, next, ready, bridges, loop, rc, reported, lost, freed, misuse>>

Init ==
  /\ devices \in {Socs[g] : g \in DOMAIN Socs}
  /\ truth \in [UNION {All(d) : d \in Range(devices)} -> Modes]
  /\ require \in Modes /\ listing \in BOOLEAN /\ name \in Names
  /\ pc = "probe" /\ next = 1 /\ ready = {} /\ bridges = <<>>
  /\ current \in Modes /\ aggregate = bm_disabled /\ error = FALSE
  /\ rc = 0 /\ reported = {} /\ lost = FALSE /\ freed = {} /\ misuse = FALSE

\* host_init(), host_get_ahb() and soc_probe()
Start ==
  /\ pc = "probe"
  /\ \/ pc' = "init" /\ UNCHANGED rc
     \/ pc' = "done" /\ rc' = 1
  /\ UNCHANGED <<args, next, ready, bridges, loop, reported, lost, freed, misuse>>

\* soc_init_bridge_controllers(): a driver that fails is passed over.
InitDriver ==
  /\ pc = "init" /\ next <= Len(devices)
  /\ next' = next + 1
  /\ LET d == devices[next]
     IN \/ /\ ready' = ready \union {d}
           /\ bridges' = Reverse(Bridges[d]) \o bridges
           /\ UNCHANGED lost
        \/ d \in Loses /\ lost' = TRUE /\ UNCHANGED <<ready, bridges>>
  /\ UNCHANGED <<args, pc, loop, rc, reported, freed, misuse>>

Initialised ==
  /\ pc = "init" /\ next > Len(devices)
  /\ next' = 1
  /\ pc' = IF listing THEN "destroy" ELSE "report"
  /\ UNCHANGED <<args, ready, bridges, loop, rc, reported, lost, freed, misuse>>

(* Mutated: the last controller decides.                                    *)
Least_last(a, b) == a

\* The less strict of two modes.
Least(a, b) == IF a < b THEN a ELSE b

\* bridgectl_report(): it sets current, fails, or does both.
Report(c) ==
  \/ current' = truth[c] /\ UNCHANGED error /\ reported' = reported \union {c}
  \/ current' \in {current, truth[c]} /\ error' = TRUE /\ UNCHANGED reported

(* Mutated: the loop stops in front of the last entry.                      *)
ReportNext_short ==
  /\ pc = "report" /\ next < Len(bridges)
  /\ next' = IF next + 1 = Len(bridges) THEN next + 2 ELSE next + 1
  /\ Report(bridges[next]) /\ aggregate' = Least(current', aggregate)
  /\ UNCHANGED <<args, pc, ready, bridges, rc, lost, freed, misuse>>

\* soc_probe_bridge_controllers()
ReportNext ==
  /\ pc = "report" /\ next <= Len(bridges)
  /\ next' = next + 1
  /\ IF name = None \/ name = bridges[next]
       THEN Report(bridges[next]) /\ aggregate' = Least(current', aggregate)
       ELSE UNCHANGED <<loop, reported>>
  /\ UNCHANGED <<args, pc, ready, bridges, rc, lost, freed, misuse>>

Verdict ==
  /\ pc = "report" /\ next > Len(bridges)
  /\ rc' = IF ~error /\ require <= aggregate THEN 0 ELSE 1
  /\ pc' = "destroy" /\ next' = 1
  /\ UNCHANGED <<args, ready, bridges, loop, reported, lost, freed, misuse>>

-----------------------------------------------------------------------------
Neighbours(c) ==
  {bridges[i] : i \in {j \in DOMAIN bridges :
     \E k \in DOMAIN bridges : bridges[k] = c /\ (j = k - 1 \/ j = k + 1)}}

\* The controller that a driver unregisters: pciectl has two.
Unregister(d) == Head(Bridges[d])

(* Mutated: free() comes first.                                             *)
Destroy_freed(d) ==
  LET c == Unregister(d)
  IN /\ misuse' = (misuse \/ Neighbours(c) \intersect (freed \union All(d)) # {})
     /\ bridges' = RemoveAt(bridges, CHOOSE i \in DOMAIN bridges : bridges[i] = c)
     /\ freed' = freed \union All(d)

\* debugctl_driver_destroy(), ilpcctl_driver_destroy() and
\* pciectl_driver_destroy(): list_del() and free().
Destroy(d) ==
  LET c == Unregister(d)
  IN /\ misuse' = (misuse \/ Neighbours(c) \intersect freed # {})
     /\ bridges' = RemoveAt(bridges, CHOOSE i \in DOMAIN bridges : bridges[i] = c)
     /\ freed' = freed \union All(d)

\* soc_unbind_drivers()
DestroyDriver ==
  /\ pc = "destroy" /\ next <= Len(devices)
  /\ next' = next + 1
  /\ IF devices[next] \in ready THEN Destroy(devices[next])
     ELSE UNCHANGED <<misuse, bridges, freed>>
  /\ ready' = ready \ {devices[next]}
  /\ UNCHANGED <<args, pc, loop, rc, reported, lost>>

Exit ==
  /\ pc = "destroy" /\ next > Len(devices)
  /\ pc' = "done"
  /\ UNCHANGED <<args, next, ready, bridges, loop, rc, reported, lost, freed, misuse>>

Next ==
  \/ Start \/ InitDriver \/ Initialised \/ ReportNext \/ Verdict
  \/ DestroyDriver \/ Exit

Spec == Init /\ [][Next]_vars

-----------------------------------------------------------------------------
(* The list holds controllers of the SoC, and the command is somewhere.     *)
TypeOK ==
  /\ pc \in {"probe", "init", "report", "destroy", "done"}
  /\ next \in 1 .. Cardinality(DOMAIN truth) + 1 /\ ready \subseteq Range(devices)
  /\ Range(bridges) \subseteq DOMAIN truth /\ IsInjective(bridges)
  /\ {current, aggregate} \subseteq Modes /\ error \in BOOLEAN /\ rc \in {0, 1}
  /\ reported \subseteq DOMAIN truth /\ freed \subseteq DOMAIN truth /\ {lost, misuse} \subseteq BOOLEAN

Meets == \A c \in DOMAIN truth : truth[c] >= require

(* "Can optionally set the exit status based on confidentiality and         *)
(* integrity requirements": the command succeeds only if every bridge of    *)
(* the SoC is at least as strict as the requirement, and fails only if one  *)
(* is not or there was an error, even though a report that fails leaves an  *)
(* earlier, or no, mode behind in current.  The bridges of a driver that    *)
(* failed are not looked at.                                                *)
ExitStatus ==
  pc = "destroy" /\ ~listing =>
    /\ rc = 0 /\ ~lost => Meets
    /\ rc = 1 => ~Meets \/ error

(* A successful probe has reported every controller that is registered.     *)
AllReported ==
  pc = "destroy" /\ next = 1 /\ rc = 0 /\ ~listing => Range(bridges) \subseteq reported

(* No controller is taken off the list by writing to memory of another one  *)
(* that was freed, whichever of the drivers are there.  pciectl leaves one  *)
(* of its own on the list and has to be the last that is destroyed, as it   *)
(* is on the AST2400 and the AST2600.                                       *)
ListAlive == Last(devices) = "pciectl" => ~misuse

=============================================================================
