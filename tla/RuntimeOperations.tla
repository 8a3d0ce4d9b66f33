------------------------ MODULE RuntimeOperations ------------------------
(***************************************************************************)
(* runtime-operations.ts: what an apply would do about the difference      *)
(* between a runtime plan and an observation of its host, and what Docker  *)
(* makes of each command (ssh-runtime-applier.ts).                         *)
(*                                                                         *)
(* A plan lists the networks it describes, the containers its services     *)
(* run in, which of them join which network, and what it has adopted.  A   *)
(* host has an owner for every Docker name, "absent" if there is no such   *)
(* resource, and the attachments of containers to networks, "stale" when   *)
(* an alias of the plan is missing.  Drivers, ports, images, volumes and a *)
(* host without Docker only add blockers or manual operations, and are     *)
(* left out.                                                               *)
(***************************************************************************)
EXTENDS Naturals, Sequences, FiniteSets, SequencesExt

CONSTANTS Networks,    \* Docker names of networks
          Containers   \* Docker names of containers

ASSUME NamesDistinct == Networks \cap Containers = {}
ASSUME NamesFinite == IsFiniteSet(Networks) /\ IsFiniteSet(Containers)

Names == Networks \cup Containers
NoName == "none"

Modes == {"legacy", "managed"}
\* ours: labelled with this target's id; elsewhere: with another target's.
Owners == {"absent", "ours", "elsewhere", "unowned"}
Links == {"none", "stale", "current"}

PlannedTopologies ==
  [networks : SUBSET Networks, services : SUBSET Containers,
   members : SUBSET (Containers \X Networks), adopted : SUBSET Names]

DockerHosts == [owner : [Names -> Owners], link : [Containers \X Networks -> Links]]

Present(host, name) == host.owner[name] # "absent"
Attached(host, n) == {c \in Containers : host.link[<<c, n>>] # "none"}

\* Docker has no attachment without its two ends.
WellFormedHost(host) ==
  \A c \in Containers, n \in Networks :
    host.link[<<c, n>>] # "none" => Present(host, c) /\ Present(host, n)

Op(kind, c, n) == [kind |-> kind, container |-> c, network |-> n]
RuntimeOperationSet ==
  [kind : {"create", "attach", "alias", "detach", "remove", "manual"},
   container : Containers \cup {NoName}, network : Networks \cup {NoName}]

------------------------------------------------------------------------------
(* What is ours to change.                                                   *)

isOwnedForTarget(plan, host, name) ==
  name \in plan.adopted \/ host.owner[name] = "ours"

\* The names the plan wants that somebody else's resource has.
Conflicts(plan, host) ==
  {name \in plan.networks \cup plan.services :
     host.owner[name] = "unowned" /\ name \notin plan.adopted}

Blocked(plan, host) == plan.mode = "legacy" \/ Conflicts(plan, host) # {}

------------------------------------------------------------------------------
(* The operations of a change.                                               *)

Creates(plan, host) ==
  {Op("create", NoName, n) : n \in {m \in plan.networks : ~Present(host, m)}}

Wanted(plan) ==
  {m \in plan.members : m[1] \in plan.services /\ m[2] \in plan.networks}

\* Variant: every wanted attachment is listed as a missing alias.
AttachesAlways(plan, host) ==
  {Op("attach", m[1], m[2]) :
     m \in {w \in Wanted(plan) : Present(host, w[1]) /\ host.link[w] = "none"}}
  \cup
  {Op("alias", m[1], m[2]) : m \in {w \in Wanted(plan) : host.link[w] # "none"}}

Attaches(plan, host) ==
  {Op("attach", m[1], m[2]) :
     m \in {w \in Wanted(plan) : Present(host, w[1]) /\ host.link[w] = "none"}}
  \cup
  {Op("alias", m[1], m[2]) : m \in {w \in Wanted(plan) : host.link[w] = "stale"}}

\* Variant: what is not ours is detached too.
DetachesAnything(plan, host) ==
  {Op("detach", m[1], m[2]) :
     m \in {w \in (plan.services \X plan.networks) \ Wanted(plan) : host.link[w] # "none"}}

Detaches(plan, host) ==
  {Op("detach", m[1], m[2]) :
     m \in {w \in (plan.services \X plan.networks) \ Wanted(plan) :
              /\ host.link[w] # "none"
              /\ isOwnedForTarget(plan, host, w[1])
              /\ isOwnedForTarget(plan, host, w[2])}}

Removable(plan, host, remove) ==
  {n \in remove \ plan.networks :
     Present(host, n) /\ isOwnedForTarget(plan, host, n)}

Removals(plan, host, remove) ==
  {Op("remove", NoName, n) :
     n \in {m \in Removable(plan, host, remove) : Attached(host, m) = {}}}

\* Differences that are reported and not acted on.
Manuals(plan, host, remove) ==
  {Op("manual", NoName, n) :
     n \in {m \in Removable(plan, host, remove) : Attached(host, m) # {}}}
  \cup
  {Op("manual", c, NoName) : c \in {d \in plan.services : ~Present(host, d)}}

planRuntimeOperations(plan, host, remove) ==
  [blocked |-> Blocked(plan, host),
   operations |->
     IF plan.mode = "legacy" THEN <<>>
     ELSE SetToSeq(Creates(plan, host))
            \o SetToSeq(Attaches(plan, host) \cup Detaches(plan, host))
            \o SetToSeq(Removals(plan, host, remove))
            \o SetToSeq(Manuals(plan, host, remove))]

\* All but the manual ones, in their order.
executableOperations(change) ==
  LET kept == {i \in DOMAIN change.operations : change.operations[i].kind # "manual"}
  IN [k \in 1..Cardinality(kept) |->
        change.operations[CHOOSE i \in kept : Cardinality({j \in kept : j <= i}) = k]]

destructiveNames(change) ==
  {op.network : op \in {o \in ToSet(change.operations) : o.kind = "remove"}}

------------------------------------------------------------------------------
(* What Docker does with the command of one operation.                       *)

Accepts(host, op) ==
  CASE op.kind = "create" -> ~Present(host, op.network)
    [] op.kind = "attach" -> /\ Present(host, op.container)
                             /\ Present(host, op.network)
                             /\ host.link[<<op.container, op.network>>] = "none"
    [] op.kind = "alias"  -> Present(host, op.container) /\ Present(host, op.network)
    [] op.kind = "detach" -> host.link[<<op.container, op.network>>] # "none"
    [] op.kind = "remove" -> Present(host, op.network) /\ Attached(host, op.network) = {}

Execute(host, op) ==
  CASE op.kind = "create" -> [host EXCEPT !.owner[op.network] = "ours"]
    [] op.kind \in {"attach", "alias"} ->
         [host EXCEPT !.link[<<op.container, op.network>>] = "current"]
    [] op.kind = "detach" -> [host EXCEPT !.link[<<op.container, op.network>>] = "none"]
    [] op.kind = "remove" -> [host EXCEPT !.owner[op.network] = "absent"]

\* What an interrupted command leaves behind: nothing, all it does, or, for an
\* alias, a container that left the network and did not join it again.
LeftBehind(host, op) ==
  {host}
    \cup (IF Accepts(host, op) THEN {Execute(host, op)} ELSE {})
    \cup (IF op.kind = "alias"
          THEN {[host EXCEPT !.link[<<op.container, op.network>>] = "none"]} ELSE {})
==============================================================================
