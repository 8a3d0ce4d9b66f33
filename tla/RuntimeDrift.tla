-------------------------- MODULE RuntimeDrift --------------------------
(***************************************************************************)
(* runtime-drift.ts: what is reported of the difference between a runtime  *)
(* plan and its host.  The report and the operations of an apply           *)
(* (RuntimeOperations) are computed independently of each other.           *)
(*                                                                         *)
(* composed are the planned containers whose application writes its own    *)
(* Compose file.  Ports are PublishedPorts' subject; drivers, images and   *)
(* restart policies are compared one by one and left out, as are           *)
(* certificates and DNS records, reported from the plan alone.             *)
(***************************************************************************)
EXTENDS RuntimeOperations

Entry(id, c, n) == [id |-> id, container |-> c, network |-> n]

\* Variant: what the plan has adopted must carry the label too.
isOwnedByLabel(plan, host, name) == host.owner[name] = "ours"

isOwnedByTarget(plan, host, name) ==
  \/ name \in plan.adopted
  \/ host.owner[name] = "ours"

\* An unowned resource is offered for adoption or in the way; the plan's
\* adoptions come before what the resource's labels say.
ownershipEntries(plan, host) ==
  {Entry("conflict", NoName, n) : n \in plan.networks \cap Conflicts(plan, host)}
    \cup {Entry("conflict", c, NoName) : c \in plan.services \cap Conflicts(plan, host)}

compareNetworkResources(plan, host) ==
  {Entry("network.missing", NoName, n) : n \in {m \in plan.networks : ~Present(host, m)}}

\* Additional attachments are reported of what CloudForge composed itself.
compareNetworks(plan, host, c) ==
  LET desired == {n \in Networks : <<c, n>> \in Wanted(plan)}
  IN {Entry("container.network.missing", c, n) :
        n \in {m \in desired : host.link[<<c, m>>] = "none"}}
       \cup {Entry("container.alias.missing", c, n) :
               n \in {m \in desired : host.link[<<c, m>>] = "stale"}}
       \cup {Entry("container.network.unexpected", c, n) :
               n \in {m \in Networks \ desired :
                        /\ isOwnedByTarget(plan, host, c)
                        /\ c \notin plan.composed
                        /\ host.link[<<c, m>>] # "none"}}

compareService(plan, host, c) ==
  IF Present(host, c) THEN compareNetworks(plan, host, c)
  ELSE {Entry("container.missing", c, NoName)}

unexpectedResources(plan, host) ==
  {Entry("network.unexpected", NoName, n) :
     n \in {m \in Networks \ plan.networks :
              Present(host, m) /\ isOwnedByTarget(plan, host, m)}}
    \cup
  {Entry("container.unexpected", c, NoName) :
     c \in {d \in Containers \ plan.services :
              Present(host, d) /\ isOwnedByTarget(plan, host, d)}}

detectRuntimeDrift(plan, host) ==
  IF plan.mode = "legacy" THEN {}
  ELSE ownershipEntries(plan, host)
         \cup compareNetworkResources(plan, host)
         \cup (UNION {compareService(plan, host, c) : c \in plan.services})
         \cup unexpectedResources(plan, host)

------------------------------------------------------------------------------

\* The operation that resolves an entry, if an apply has one.
Resolution(plan, host, remove, e) ==
  CASE e.id = "network.missing" -> {Op("create", NoName, e.network)}
    [] e.id = "container.network.missing" -> {Op("attach", e.container, e.network)}
    [] e.id = "container.alias.missing" -> {Op("alias", e.container, e.network)}
    [] e.id = "container.network.unexpected" ->
         IF e.network \in plan.networks /\ isOwnedForTarget(plan, host, e.network)
         THEN {Op("detach", e.container, e.network)} ELSE {}
    [] e.id = "network.unexpected" ->
         IF e.network \in remove /\ Attached(host, e.network) = {}
         THEN {Op("remove", NoName, e.network)} ELSE {}
    [] OTHER -> {}
==============================================================================
