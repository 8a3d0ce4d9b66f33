------------------------ MODULE MCHostComponents ------------------------
(***************************************************************************)
(* Small instances of the components that work on one host.  They share    *)
(* nothing, so a behaviour is one of a single component, its subject,      *)
(* while the others stay in one initial state: the state spaces add up     *)
(* instead of multiplying.  HostComponents.cfg gives the components that   *)
(* are extended one domain and two upstreams, of which Nginx refuses one,  *)
(* a container's name that does not resolve; and one service, each of its  *)
(* two ports on either of two of the host's; and two Ansible operations,   *)
(* alike until they start, on profiles of which one runs on the other.     *)
(***************************************************************************)
EXTENDS Naturals, HostFirewall, NginxSites, PublishedPorts, RemoteRuns,
        RuntimeApplier, TLC

VARIABLE subject

componentVars ==
  <<portVars, applierVars, nginxVars, firewallVars>>
hostVars == <<subject, componentVars, remoteVars>>

------------------------------------------------------------------------------
(* The instances.                                                            *)

\* A plan that needs 80 and 443, and one of the mode that needs nothing; rules that
\* other people make, for everybody and for one source.
MCPortPlans ==
  {[mode |-> "managed", proxy |-> "nginx", routes |-> {"plain", "tls"}, services |-> {}],
   [mode |-> "legacy", proxy |-> "nginx", routes |-> {"plain"}, services |-> {}]}
MCNatives == {[installed |-> TRUE, reach |-> "public", found |-> 443, declared |-> 443]}
MCProviderRules == {[port |-> 80, from |-> "0.0.0.0/0", direction |-> "ingress"]}

\* Three hosts, one of which no Python can be installed on.
Prepared ==
  [sound |-> TRUE, locked |-> FALSE, dns |-> TRUE, egress |-> TRUE, curl |-> TRUE,
   offered |-> TRUE, python |-> TRUE, ansible |-> TRUE, ss |-> TRUE,
   fits |-> {"docker", "portainer"}, taken |-> {}, services |-> {}]
Bare == [Prepared EXCEPT !.curl = FALSE, !.python = FALSE, !.ansible = FALSE, !.ss = FALSE]
Servers == {Prepared, Bare, [Bare EXCEPT !.offered = FALSE]}

------------------------------------------------------------------------------
(* The components, one at a time.                                            *)

\* A component that is not the subject: any one state of it.
ApplierAtRest ==
  /\ plan = [mode |-> "managed", networks |-> {}, services |-> {}, members |-> {},
             adopted |-> {}, composed |-> {}]
  /\ remove = {} /\ pending = <<>> /\ stage = "done"
  /\ docker = [owner |-> [name \in Names |-> "absent"],
               link |-> [m \in Containers \X Networks |-> "none"]]

FirewallAtRest ==
  /\ backend = "ufw"
  /\ portPlan.mode = "legacy"
  /\ ~provider.read

HostInit ==
  /\ subject \in {"ports", "applier", "nginx", "firewall", "remote"}
  /\ IF subject = "applier" THEN ApplierInit ELSE ApplierAtRest
  /\ PortsInit
  /\ NginxInit
  /\ HostFirewallInit /\ (subject # "firewall" => FirewallAtRest)
  /\ RemoteInit(IF subject = "remote" THEN Servers ELSE {Bare})

HostNext ==
  \/ /\ subject = "ports" /\ PortsNext
     /\ UNCHANGED <<subject, applierVars, nginxVars, firewallVars, remoteVars>>
  \/ /\ subject = "applier" /\ ApplierNext
     /\ UNCHANGED <<subject, portVars, nginxVars, firewallVars, remoteVars>>
  \/ /\ subject = "nginx" /\ NginxNext
     /\ UNCHANGED <<subject, portVars, applierVars, firewallVars, remoteVars>>
  \/ /\ subject = "firewall" /\ HostFirewallNext
     /\ UNCHANGED <<subject, portVars, applierVars, nginxVars, remoteVars>>
  \/ /\ subject = "remote" /\ RemoteNext
     /\ UNCHANGED <<subject, componentVars>>

HostSymmetry == Permutations(Operations)

HostSpec == HostInit /\ [][HostNext]_hostVars
==============================================================================
