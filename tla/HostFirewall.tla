-------------------------- MODULE HostFirewall --------------------------
(***************************************************************************)
(* The firewall of one host, which CloudForge opens and closes ports on by *)
(* scripts (host-firewall-script.ts), and the two firewalls a port has to  *)
(* pass: what a runtime plan and the installed services need of them       *)
(* (firewall-requirements.ts, ansible-runtime-requirements.ts) and what is *)
(* reported of them.                                                       *)
(*                                                                         *)
(* The rules that are in force and the rules that the next boot loads are  *)
(* two sets.  A script handles one port per step, and can be cut off, as   *)
(* its connection can be, between any two.  Rules only accept: what they   *)
(* do not name is dropped.  The protocol of a port is part of the port.    *)
(***************************************************************************)
EXTENDS Naturals, FiniteSets

CONSTANTS Http, Https,     \* 80/tcp and 443/tcp
          OtherPorts,
          SshPort,         \* the port of the saved target
          PortPlans,       \* what plans say of ports: see requirements
          Natives,         \* what was found installed: see requirements
          ProviderRules,   \* the rules of the provider's security lists
          HandSources,     \* the sources other people make rules for
          MaxInterruptions \* bound on the scripts that are cut off

Ports == {Http, Https} \cup OtherPorts
World == "0.0.0.0/0"
Rules == [port : Ports \cup {SshPort}, from : HandSources \cup {World}, ours : BOOLEAN]
Raw == {"nftables", "iptables"}        \* the backends with comments on rules
Backends == Raw \cup {"ufw", "firewalld"}

VARIABLES backend, persists,  \* of an iptables host: whether anything saves its rules
          live, kept,         \* the rules in force, and those of the next boot
          portPlan, native, provider,
          call,               \* the call that is under way
          opened,             \* ports an answer said were open, closed by nobody since
          torn                \* ports whose script was cut off, so many times

firewallVars == <<backend, persists, live, kept, portPlan, native, provider, call, opened, torn>>
conditionsOfHost == <<backend, persists, portPlan, native, provider>>

\* A plan names ports, and so does the registry of what can be installed.
ASSUME PortsOfPlans == \A p \in PortPlans : \A s \in p.services : s.port \in Ports
ASSUME PortsOfNatives == \A n \in Natives : n.declared \in Ports

Passes(rules, p) == \E r \in rules : r.port = p /\ r.from = World
NoCall == [op |-> "none", stage |-> "idle", ports |-> {}, left |-> {},
           changed |-> FALSE, undone |-> {}]

------------------------------------------------------------------------------
(* What is needed, and what is reported.                                     *)

\* 80 as soon as there is a route, 443 for a route with TLS.
proxyRequirements(p) ==
  IF p.proxy \in {"none", "external"} \/ p.routes = {} THEN {}
  ELSE {Http} \cup {Https : r \in p.routes \cap {"tls"}}

serviceRequirements(p) ==
  {s.port : s \in {t \in p.services : t.exposure = "direct" /\ ~t.loopback}}

firewallRequirements(p) ==
  IF p.mode = "legacy" THEN {} ELSE proxyRequirements(p) \cup serviceRequirements(p)

\* An installed service listens where it was found, or on its declared port.
observedAnsibleRequirements(n) ==
  IF n.installed /\ n.reach = "public"
  THEN {IF n.found \in Ports THEN n.found ELSE n.declared} ELSE {}

\* The services that are installed may be impossible to read.
requirementsFor ==
  {firewallRequirements(portPlan),
   firewallRequirements(portPlan) \cup observedAnsibleRequirements(native)}

\* What inspectScript() lists: firewalld keeps the rules of a source apart.
Listed(rules) ==
  {r.port : r \in {s \in rules : backend = "firewalld" => s.from = World}}

toProviderFirewallView(rules) ==
  {r.port : r \in {s \in rules : s.direction = "ingress" /\ s.from = World}}

checkConnectivity(p) ==
  LET hostOk == p \in Listed(live)
      providerOk == provider.read /\ p \in toProviderFirewallView(provider.rules)
  IN CASE ~provider.read -> "unknown"
       [] hostOk /\ providerOk -> "reachable"
       [] ~hostOk /\ ~providerOk -> "blocked-both"
       [] hostOk /\ ~providerOk -> "blocked-provider"
       [] OTHER -> "blocked-host"

------------------------------------------------------------------------------
(* The scripts.                                                              *)

Accept(p, ours) == [port |-> p, from |-> World, ours |-> ours]

\* Whether a script takes the port to be open already.
Matched(p) ==
  CASE backend = "ufw" -> \E r \in live : r.port = p
    [] backend = "firewalld" -> Passes(live, p)
    [] OTHER -> Accept(p, TRUE) \in live

StartCall(op, ports) ==
  /\ call.stage = "idle" /\ ports # {}
  /\ call' = [op |-> op, stage |-> "run", ports |-> ports, left |-> ports,
              changed |-> FALSE, undone |-> {}]
  /\ UNCHANGED <<conditionsOfHost, live, kept, opened, torn>>

\* HostFirewallService.open() and close(), and openRequiredPorts().
Open(ports) == StartCall("open", ports)
Close(ports) == SshPort \notin ports /\ StartCall("close", ports)
OpenRequired == portPlan.mode # "legacy" /\ \E ports \in requirementsFor : StartCall("open", ports)

Step(p, changed) ==
  call' = [call EXCEPT !.left = @ \ {p}, !.changed = @ \/ changed]

\* firewalld is changed for good and then reloaded.
Reload(rules) ==
  /\ kept' = rules
  /\ live' = CASE backend = "firewalld" -> rules
               [] OTHER -> (live \ (kept \ rules)) \cup (rules \ kept)

\* cloudforge_open()
OpenPort(p) ==
  /\ call.stage = "run" /\ call.op = "open" /\ p \in call.left
  /\ Step(p, ~Matched(p))
  /\ CASE Matched(p) -> UNCHANGED <<live, kept>>
       [] ~Matched(p) /\ backend \in Raw ->
            live' = live \cup {Accept(p, TRUE)} /\ kept' = kept
       [] OTHER -> Reload(kept \cup {Accept(p, FALSE)})
  /\ UNCHANGED <<conditionsOfHost, opened, torn>>

\* cloudforge_close(): with comments, only CloudForge's own rule.
ClosePort(p) ==
  /\ call.stage = "run" /\ call.op = "close" /\ p \in call.left
  /\ Step(p, Matched(p))
  /\ CASE ~Matched(p) -> UNCHANGED <<live, kept>>
       [] Matched(p) /\ backend \in Raw ->
            live' = live \ {Accept(p, TRUE)} /\ kept' = kept
       [] OTHER -> Reload(kept \ {Accept(p, FALSE)})
  /\ opened' = opened \ {p}
  /\ UNCHANGED <<conditionsOfHost, torn>>

\* Variant: only the rules of iptables are made to last.
SavedToDiskIptablesOnly == call.changed /\ backend = "iptables" /\ persists

\* persistIfChanged(); closing saves only the rules of iptables.
SavedToDisk ==
  /\ call.changed
  /\ \/ backend = "iptables" /\ persists
     \/ backend = "nftables" /\ call.op = "open"

\* The rules are saved, and the firewall is read back.
Answer ==
  /\ call.stage = "run" /\ call.left = {}
  /\ kept' = IF SavedToDisk THEN live ELSE kept
  /\ call' = NoCall
  /\ opened' = IF call.op = "open"
               THEN opened \cup {p \in call.ports \ call.undone : torn[p] = 0}
               ELSE opened
  /\ UNCHANGED <<conditionsOfHost, live, torn>>

Interrupted ==
  /\ call.stage = "run"
  /\ \A p \in call.ports : torn[p] < MaxInterruptions
  /\ torn' = [p \in Ports |-> torn[p] + IF p \in call.ports THEN 1 ELSE 0]
  /\ call' = NoCall
  /\ opened' = opened \ call.ports
  /\ UNCHANGED <<conditionsOfHost, live, kept>>

------------------------------------------------------------------------------
(* The host.                                                                 *)

\* Somebody makes or removes a rule, for good.
HandAdd(p, from) ==
  LET rule == [port |-> p, from |-> from, ours |-> FALSE]
  IN /\ live' = live \cup {rule} /\ kept' = kept \cup {rule}
     /\ UNCHANGED <<conditionsOfHost, call, opened, torn>>

HandRemove(p) ==
  LET others(rules) == {r \in rules : r.port # p}
  IN /\ live' = others(live) /\ kept' = others(kept)
     /\ opened' = opened \ {p}
     /\ call' = [call EXCEPT !.undone = @ \cup (call.ports \cap {p})]
     /\ UNCHANGED <<conditionsOfHost, torn>>

\* Nothing that is under way outlives a boot.
Reboot ==
  /\ call.stage = "idle"
  /\ live' = kept
  /\ opened' = IF backend = "iptables" /\ ~persists THEN {} ELSE opened
  /\ UNCHANGED <<conditionsOfHost, kept, call, torn>>

------------------------------------------------------------------------------

HostFirewallInit ==
  /\ backend \in Backends /\ persists \in BOOLEAN
  /\ (backend # "iptables" => persists)
  /\ live = {Accept(SshPort, FALSE)} /\ kept = live
  /\ portPlan \in PortPlans /\ native \in Natives
  /\ provider \in {[read |-> TRUE, rules |-> ProviderRules], [read |-> FALSE, rules |-> {}]}
  /\ call = NoCall /\ opened = {} /\ torn = [p \in Ports |-> 0]

HostFirewallNext ==
  \/ \E ports \in SUBSET Ports : Cardinality(ports) <= 2 /\ (Open(ports) \/ Close(ports))
  \/ OpenRequired
  \/ \E p \in Ports : OpenPort(p) \/ ClosePort(p) \/ HandRemove(p)
  \/ \E p \in Ports, from \in HandSources : HandAdd(p, from)
  \/ Answer \/ Interrupted \/ Reboot

HostFirewallSpec == HostFirewallInit /\ [][HostFirewallNext]_firewallVars

------------------------------------------------------------------------------
(* Properties.                                                               *)

\* ufw lists a rule for one source like one for all: that port is not opened.
Narrowed(p) == backend = "ufw" /\ \E r \in live : r.port = p /\ r.from # World

\* A port that an answer said was open stays open, whatever is opened and closed
\* beside it and however often the host boots, until somebody closes it.  It is not
\* promised of a host that saves no iptables rules, of a port that somebody's rule of
\* ufw opens to one source, nor of a port whose script was once cut off: the rule is
\* in force then, and no later script saves it.  The report on what blocks a port
\* never blames the host for an opened one.
OpenedStaysOpen ==
  \A p \in opened :
    /\ Narrowed(p) \/ Passes(live, p)
    /\ checkConnectivity(p) \in {"reachable", "blocked-provider", "unknown"}
    /\ (backend = "iptables" => persists) /\ call.stage = "idle" =>
         Narrowed(p) \/ Passes(kept, p)
==============================================================================
