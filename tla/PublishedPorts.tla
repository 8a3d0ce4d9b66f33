------------------------- MODULE PublishedPorts -------------------------
(***************************************************************************)
(* Host ports: what validateRuntimePlan() accepts of them, what Docker     *)
(* publishes, and what comparePorts() reports of the difference.           *)
(*                                                                         *)
(* Containers are created by deployment pipelines and by hand, never by an *)
(* apply, with whatever ports their command names.  A name stands for a    *)
(* planned service and its container.                                      *)
(***************************************************************************)
EXTENDS Naturals, FiniteSets

CONSTANTS Services,
          InnerPorts,   \* ports inside a container
          OuterPorts    \* ports of the host

Every4 == "0.0.0.0"
Every6 == "::"
Loopback == "127.0.0.1"
Mapping(inner, outer, address) == [inner |-> inner, outer |-> outer, address |-> address]
Mappings == [inner : InnerPorts, outer : OuterPorts, address : {Every4, Loopback}]
\* What plans and commands name: at most two mappings.
MappingChoices == {ms \in SUBSET Mappings : Cardinality(ms) <= 2}
Exposures == {"internal", "proxy-only", "host-loopback", "direct"}

VARIABLES portsOf,   \* each service's exposure and mappings in the plan
          running,   \* the containers that exist, and
          published, \* their bindings
          labelled   \* the containers with this target's label

portVars == <<portsOf, running, published, labelled>>

isLoopbackAddress(address) == address = Loopback
isPubliclyReachable(m) == ~isLoopbackAddress(m.address)

------------------------------------------------------------------------------
(* The plan.                                                                 *)

Publishes(spec) == spec.exposure \in {"direct", "host-loopback"}

\* What a plan that validateRuntimePlan() accepts publishes; the ports of the
\* other exposures name no host port.
AcceptedPorts(plan) ==
  /\ \A s \in Services : plan[s].mappings # {} => Publishes(plan[s])
  /\ \A s, t \in Services : \A m \in plan[s].mappings, n \in plan[t].mappings :
       m.outer = n.outer /\ m.address = n.address => s = t /\ m = n

SavePorts(s, exposure, mappings) ==
  /\ portsOf' = [portsOf EXCEPT ![s] = [exposure |-> exposure, mappings |-> mappings]]
  /\ AcceptedPorts(portsOf')
  /\ UNCHANGED <<running, published, labelled>>

------------------------------------------------------------------------------
(* Docker.                                                                   *)

Overlap(a, b) == a = b \/ {a, b} = {Every4, Loopback}

\* The bindings a command results in: on a host with IPv6, a second one for
\* every interface.
Bindings(mappings) ==
  {mappings,
   mappings \cup {Mapping(m.inner, m.outer, Every6) :
                    m \in {n \in mappings : n.address = Every4}}}

\* The host's ports are everybody's.
Bindable(others, bindings) ==
  /\ \A m \in bindings, s \in others : \A n \in published[s] :
       ~(m.outer = n.outer /\ Overlap(m.address, n.address))
  /\ \A m, n \in bindings : m.outer = n.outer /\ Overlap(m.address, n.address) => m = n

Recreate(s, mappings, ours) ==
  /\ Bindable(running \ {s}, mappings)
  /\ \E bindings \in Bindings(mappings) : published' = [published EXCEPT ![s] = bindings]
  /\ running' = running \cup {s}
  /\ labelled' = IF ours THEN labelled \cup {s} ELSE labelled \ {s}
  /\ UNCHANGED portsOf

RemoveContainer(s) ==
  /\ running' = running \ {s}
  /\ published' = [published EXCEPT ![s] = {}]
  /\ labelled' = labelled \ {s}
  /\ UNCHANGED portsOf

------------------------------------------------------------------------------
(* The report.                                                               *)

Order(address) == CASE address = Every4 -> 1 [] address = Loopback -> 2 [] address = Every6 -> 3

\* parseContainerPorts() sorts by host port and keeps Docker's order.
After(m, n) ==
  m.outer > n.outer \/ (m.outer = n.outer /\ Order(m.address) > Order(n.address))

\* One binding of each port inside is compared: the last.
observedPortKeys(s) ==
  [inner \in {m.inner : m \in published[s]} |->
     CHOOSE m \in published[s] :
       m.inner = inner /\ \A n \in published[s] : n.inner = inner /\ n # m => After(m, n)]

Issue(id, severity, inner) == [id |-> id, severity |-> severity, inner |-> inner]

Compared(s) ==
  LET observed == observedPortKeys(s)
  IN {Issue("container.port.missing", "warning", m.inner) :
        m \in {n \in portsOf[s].mappings : n.inner \notin DOMAIN observed}}
     \cup
     {Issue("container.port.modified", "warning", m.inner) :
        m \in {n \in portsOf[s].mappings :
                 n.inner \in DOMAIN observed /\ observed[n.inner] # n}}

Undesired(s) ==
  {m \in published[s] : \A n \in portsOf[s].mappings : n.inner # m.inner}

\* Variant: the ports of somebody else's container are their own business.
UnexpectedOfOurs(s) ==
  {Issue("container.port.unexpected",
         IF isPubliclyReachable(m) THEN "error" ELSE "info", m.inner) :
     m \in {n \in Undesired(s) : s \in labelled}}

\* A port that reaches the internet is reported whoever owns the container.
Unexpected(s) ==
  {Issue("container.port.unexpected",
         IF isPubliclyReachable(m) THEN "error" ELSE "info", m.inner) :
     m \in {n \in Undesired(s) : isPubliclyReachable(n) \/ s \in labelled}}

comparePorts(s) == IF s \in running THEN Compared(s) \cup Unexpected(s) ELSE {}

------------------------------------------------------------------------------

PortsInit ==
  /\ portsOf = [s \in Services |-> [exposure |-> "internal", mappings |-> {}]]
  /\ running = {}
  /\ published = [s \in Services |-> {}]
  /\ labelled = {}

PortsNext ==
  \E s \in Services :
    \/ \E exposure \in Exposures, mappings \in MappingChoices : SavePorts(s, exposure, mappings)
    \/ \E mappings \in MappingChoices, ours \in BOOLEAN : Recreate(s, mappings, ours)
    \/ RemoveContainer(s)

PortsSpec == PortsInit /\ [][PortsNext]_portVars

------------------------------------------------------------------------------
(* Properties.                                                               *)

Once(mappings) == \A m, n \in mappings : m.inner = n.inner => m = n

\* Where each port of a container is published at most once, a report without
\* an entry means that the host publishes what the plan describes, and nothing
\* else but loopback ports of a container that is not ours; and such a host has
\* no entry.  A port that the plan publishes and that a second binding publishes
\* to the internet is not covered: only one binding is compared, and the report
\* can be empty.
ReportedExactly ==
  \A s \in running : Once(published[s]) /\ Once(portsOf[s].mappings) =>
    (comparePorts(s) = {} <=>
       /\ portsOf[s].mappings \subseteq published[s]
       /\ \A m \in published[s] \ portsOf[s].mappings :
            ~isPubliclyReachable(m) /\ s \notin labelled)
==============================================================================
