------------------------ MODULE RuntimeTopology ------------------------
(***************************************************************************)
(* The part of a target's runtime plan that other features write: Jenkins  *)
(* pipelines own applications, Nginx sites own routes, and a route whose   *)
(* upstream nobody planned gets an endpoint of its own                     *)
(* (runtime-plan-service.ts).  A site or a pipeline changes first and the  *)
(* plan is synchronized afterwards; a synchronization that would store an  *)
(* invalid plan is refused.  That a synchronization replaces the very plan *)
(* it read is RuntimePlan's subject: here it is one step.                  *)
(*                                                                         *)
(* An application and its one service are one record; applications and     *)
(* services are named after whoever owns them, so names never clash.       *)
(* Reverse proxies other than the host's Nginx are left out.               *)
(***************************************************************************)
EXTENDS Naturals, Sequences, SequencesExt, FiniteSetsExt

CONSTANTS Pipelines,   \* ids of Jenkins pipelines
          Locations,   \* the routes sites may serve: a domain and a path each
          Ports,       \* host ports
          Upstreams,   \* the addresses sites proxy to: a port and a host
          PlannedPorts \* ports on which the user plans a container (loopback)

Loopback == "loopback"
NoPort == "no port"
Absent == "absent"
NoSite == [port |-> NoPort, host |-> Absent]

VARIABLES plan,        \* the topology stored for the target
          sites,       \* what the managed Nginx sites of the target proxy to
          pipelines    \* the application port of each stored pipeline

topologyVars == <<plan, sites, pipelines>>

------------------------------------------------------------------------------
(* Plans.                                                                    *)

\* A host service, or a container the user planned.
Service(owner, port, bind) == [owner |-> owner, port |-> port, bind |-> bind]
Endpoint(port, host) == Service("endpoint", port, host)

\* The name a route refers to: a pipeline's service keeps its name when its port
\* changes, an endpoint is one per address.
NameOf(s) == IF s.owner \in Pipelines THEN Service(s.owner, NoPort, Loopback) ELSE s

Planned(p) == ToSet(p.services)
Publishes(s) == s.port # NoPort

\* Variant: whether the service of a route still publishes its port is not checked.
validateRuntimePlanUnreached(p) ==
  /\ \A s, t \in Planned(p) :
       Publishes(s) /\ s.port = t.port /\ s.bind = t.bind => s = t
  /\ \A r \in p.routes : \E s \in Planned(p) : NameOf(s) = r.service

\* What makes save() refuse such a plan: an address published twice, and a
\* route to a service that is unknown or does not publish its port.
validateRuntimePlan(p) ==
  /\ \A s, t \in Planned(p) :
       Publishes(s) /\ s.port = t.port /\ s.bind = t.bind => s = t
  /\ \A r \in p.routes :
       \E s \in Planned(p) : NameOf(s) = r.service /\ s.port = r.port

\* Equality up to the order of the collections.
sameTopology(p, q) == Planned(p) = Planned(q) /\ p.routes = q.routes

cleanupTopology(p) ==
  [p EXCEPT !.services = SelectSeq(@, LAMBDA s :
     s.owner = "endpoint" => \E r \in p.routes : r.service = NameOf(s))]

HostEndpoints(p, port, host) ==
  SelectSeq(p.services, LAMBDA s :
    /\ s.owner # "container"
    /\ s.port = port
    /\ host = Loopback \/ s.bind = host)

ensureRouteEndpoint(p, port, host) ==
  IF HostEndpoints(p, port, host) # <<>> THEN p
  ELSE [p EXCEPT !.services = Append(@, Endpoint(port, host))]

findHostEndpoint(p, port, host) == Head(HostEndpoints(p, port, host))

------------------------------------------------------------------------------
(* The synchronizations.                                                     *)

upsertRuntimeRoute(p, location, upstream) ==
  LET next == ensureRouteEndpoint(p, upstream.port, upstream.host)
      target == findHostEndpoint(next, upstream.port, upstream.host)
  IN [next EXCEPT !.routes = {r \in @ : r.location # location} \cup
        {[location |-> location, port |-> upstream.port, host |-> upstream.host,
          service |-> NameOf(target)]}]

\* The sites come in the order in which they are found on the host.
Listings == {o \in [1..Cardinality(Locations) -> Locations] : ToSet(o) = Locations}

replaceRoutes(p, served, listing) ==
  cleanupTopology(
    FoldLeft(LAMBDA next, l : upsertRuntimeRoute(next, l, served[l]),
             [p EXCEPT !.routes = {}],
             SelectSeq(listing, LAMBDA l : served[l] # NoSite)))

upsertApplication(p, pipeline, port) ==
  LET service == Service(pipeline, port, Loopback)
  IN cleanupTopology(
       [p EXCEPT
          !.services = Append(SelectSeq(@, LAMBDA s : s.owner # pipeline), service),
          !.routes = {IF port # NoPort /\ r.host = Loopback /\ r.port = port
                      THEN [r EXCEPT !.service = NameOf(service)] ELSE r : r \in @}])

removeApplication(p, pipeline) ==
  LET orphans == {r \in p.routes : r.service.owner = pipeline}
      Relink(r, next) ==
        LET ensured == ensureRouteEndpoint(next, r.port, r.host)
        IN [ensured EXCEPT !.routes = (@ \ {r}) \cup
              {[r EXCEPT !.service = NameOf(findHostEndpoint(ensured, r.port, r.host))]}]
  IN cleanupTopology(
       FoldSet(Relink,
               [p EXCEPT !.services = SelectSeq(@, LAMBDA s : s.owner # pipeline)],
               orphans))

\* mutateTopology(): a mutation that changes nothing is not stored, and an
\* invalid plan is refused.
Accepted(p, next) == sameTopology(p, next) \/ validateRuntimePlan(next)

mutateTopology(next) ==
  plan' = IF sameTopology(plan, next) \/ ~validateRuntimePlan(next) THEN plan ELSE next

------------------------------------------------------------------------------
(* Steps.                                                                    *)

\* A site is written on the host; its routes are synchronized afterwards, or by
\* the next listing.
SaveSite(l, upstream) ==
  /\ sites[l] # upstream
  /\ sites' = [sites EXCEPT ![l] = upstream]
  /\ UNCHANGED <<plan, pipelines>>

RemoveSite(l) ==
  /\ sites[l] # NoSite
  /\ sites' = [sites EXCEPT ![l] = NoSite]
  /\ UNCHANGED <<plan, pipelines>>

SynchronizeRoutes ==
  /\ \E listing \in Listings : mutateTopology(replaceRoutes(plan, sites, listing))
  /\ UNCHANGED <<sites, pipelines>>

SavePipeline(p, port) ==
  /\ pipelines[p] # port
  /\ pipelines' = [pipelines EXCEPT ![p] = port]
  /\ UNCHANGED <<plan, sites>>

\* After a save, and for every pipeline of a listing.
SynchronizePipeline(p) ==
  /\ pipelines[p] # Absent
  /\ mutateTopology(upsertApplication(plan, p, pipelines[p]))
  /\ UNCHANGED <<sites, pipelines>>

\* The row goes after the application; the deletion may fail in between.
WithdrawPipeline(p) ==
  /\ pipelines[p] # Absent
  /\ mutateTopology(removeApplication(plan, p))
  /\ \/ UNCHANGED pipelines
     \/ /\ Accepted(plan, removeApplication(plan, p))
        /\ pipelines' = [pipelines EXCEPT ![p] = Absent]
  /\ UNCHANGED sites

TopologyInit ==
  /\ \E planned \in SUBSET PlannedPorts :
       plan = [services |-> SetToSeq({Service("container", n, Loopback) : n \in planned}),
               routes |-> {}]
  /\ sites = [l \in Locations |-> NoSite]
  /\ pipelines = [p \in Pipelines |-> Absent]

TopologyNext ==
  \/ \E l \in Locations : RemoveSite(l) \/ \E u \in Upstreams : SaveSite(l, u)
  \/ SynchronizeRoutes
  \/ \E p \in Pipelines :
       SynchronizePipeline(p) \/ WithdrawPipeline(p)
         \/ \E port \in Ports \cup {NoPort} : SavePipeline(p, port)

TopologySpec == TopologyInit /\ [][TopologyNext]_topologyVars

------------------------------------------------------------------------------
(* Properties.                                                               *)

Contested(port, owners) ==
  \E s \in Planned(plan) : s.owner \in owners /\ s.port = port /\ s.bind = Loopback

\* A synchronization is refused for a reason the user can see, and for no other,
\* however sites and pipelines changed before it: a pipeline whose port another
\* application has, or that leaves a port one of its routes still uses; a route
\* to a loopback port that a planned container publishes and no host service does.
\* Taking a pipeline out of the plan is never refused but for such a container.
RefusalsExplained ==
  /\ \A p \in Pipelines, port \in Ports \cup {NoPort} :
       Accepted(plan, upsertApplication(plan, p, port)) <=>
         /\ port # NoPort => ~Contested(port, (Pipelines \cup {"container"}) \ {p})
         /\ \A r \in plan.routes : r.service.owner = p => r.port = port
  /\ \A listing \in Listings :
       \/ Accepted(plan, replaceRoutes(plan, sites, listing))
       \/ \E l \in Locations :
            sites[l].host = Loopback /\ Contested(sites[l].port, {"container"})
  /\ \A p \in Pipelines :
       Accepted(plan, removeApplication(plan, p))

\* The endpoints of a stored plan are exactly those its routes need, one for an
\* address, and every route names the service that has its port, through any
\* sequence of relinking, orphaning and collection.
EndpointsExact ==
  /\ \A s \in Planned(plan) :
       s.owner = "endpoint" => \E r \in plan.routes : r.service = s
  /\ \A r \in plan.routes :
       Cardinality({s \in Planned(plan) : NameOf(s) = r.service /\ s.port = r.port}) = 1

\* The two of them: a stored plan is exact, and every change of it that is right is
\* accepted.
TopologyServes == RefusalsExplained /\ EndpointsExact
==============================================================================
