------------------------ MODULE HostComponents_proofs ------------------------
(***************************************************************************)
(* Theorems about what works on one host: its firewall, for any ports,     *)
(* plans and rules of other people, and any number of scripts that are cut *)
(* off; its Nginx sites, for any domains and upstreams; the ports its      *)
(* containers publish, for any services; and an apply of a runtime plan,   *)
(* for any plan, any host and any number of failed attempts.               *)
(***************************************************************************)
EXTENDS HostFirewall, NginxSites, PublishedPorts, RuntimeApplier, FiniteSetTheorems,
        TLAPS

------------------------------------------------------------------------------
(* The firewall.                                                            *)

Calls ==
  [op : {"none", "open", "close"}, stage : {"idle", "run"}, ports : SUBSET Ports,
   left : SUBSET Ports, changed : BOOLEAN, undone : SUBSET Ports]

TypeOK ==
  /\ backend \in Backends
  /\ live \subseteq Rules /\ kept \subseteq Rules
  /\ portPlan \in PortPlans /\ native \in Natives
  /\ call \in Calls /\ call.left \subseteq call.ports
  /\ call.stage = "run" <=> call.op # "none"
  /\ torn \in [Ports -> Nat]
  /\ opened \subseteq {p \in Ports : torn[p] = 0}

\* The rules let p through, or it has one of ufw's for one source.
Lets(rules, p) == \E r \in rules : r.port = p /\ (backend = "ufw" \/ r.from = World)

\* ufw and firewalld save what they change; the rules of others are saved by them.
OthersSaved ==
  IF backend \in Raw THEN \A r \in Rules : ~r.ours => (r \in live <=> r \in kept)
  ELSE live = kept

\* Only the script that is running has a rule it has not saved, and will save.
Saves == backend = "iptables" => persists
OursSaved ==
  backend \in Raw /\ Saves =>
    \A p \in Ports : Accept(p, TRUE) \in live /\ torn[p] = 0 =>
      \/ Accept(p, TRUE) \in kept
      \/ call.op = "open" /\ call.changed /\ p \in call.ports

OpenNow ==
  /\ \A p \in opened : Lets(live, p)
  /\ call.op = "open" => \A p \in call.ports \ (call.left \cup call.undone) : Lets(live, p)

IInv == TypeOK /\ OthersSaved /\ OursSaved /\ OpenNow

------------------------------------------------------------------------------

(* CloudForge's rules, and what they let through.                            *)
LEMMA AcceptRules ==
  ASSUME NEW p \in Ports, NEW ours \in BOOLEAN
  PROVE  /\ Accept(p, ours) \in Rules
         /\ Accept(p, ours).port = p /\ Accept(p, ours).from = World
         /\ Accept(p, ours).ours = ours
         /\ \A rules : Accept(p, ours) \in rules => Lets(rules, p)
BY DEF Accept, Rules, Lets

(* A rule of CloudForge's is the one it makes.                               *)
LEMMA OursIsAccept ==
  ASSUME NEW r \in Rules, r.ours, r.from = World
  PROVE  r = Accept(r.port, TRUE)
BY DEF Rules, Accept

(* What a plan and what is installed need are ports.                         *)
LEMMA RequiredPorts ==
  ASSUME portPlan \in PortPlans, native \in Natives, NEW ports \in requirementsFor
  PROVE  ports \subseteq Ports
<1>1. proxyRequirements(portPlan) \subseteq Ports
  BY DEF proxyRequirements, Ports
<1>2. serviceRequirements(portPlan) \subseteq Ports
  BY PortsOfPlans DEF serviceRequirements
<1>3. observedAnsibleRequirements(native) \subseteq Ports
  BY PortsOfNatives DEF observedAnsibleRequirements
<1>4. QED
  BY <1>1, <1>2, <1>3 DEF requirementsFor, firewallRequirements

(* ufw and firewalld keep the two sets of rules the same.                    *)
LEMMA ReloadBoth ==
  ASSUME live = kept, NEW rules, Reload(rules)
  PROVE  live' = rules /\ kept' = rules
BY DEF Reload

(* The port that an operation has let through is listed as such.             *)
LEMMA LetsListed ==
  ASSUME live \subseteq Rules, NEW p, Lets(live, p)
  PROVE  /\ Narrowed(p) \/ Passes(live, p)
         /\ checkConnectivity(p) \in {"reachable", "blocked-provider", "unknown"}
<1>1. Narrowed(p) \/ Passes(live, p)
  BY DEF Narrowed, Passes, Lets
<1>2. p \in Listed(live)
  BY DEF Listed, Lets
<1>3. QED
  BY <1>1, <1>2 DEF checkConnectivity

(* What is open while no script runs is saved, unless nothing saves it.      *)
LEMMA IdleIsSaved ==
  ASSUME IInv, call.stage = "idle", Saves, NEW p \in opened
  PROVE  Lets(kept, p)
<1>1. PICK r \in live : r.port = p /\ (backend = "ufw" \/ r.from = World)
  BY DEF IInv, OpenNow, Lets
<1>2. r \in Rules /\ r.ours \in BOOLEAN /\ p \in Ports /\ torn[p] = 0
  BY <1>1 DEF IInv, TypeOK, Rules
<1>3. CASE backend \notin Raw
  BY <1>1, <1>3 DEF IInv, OthersSaved, Lets
<1>4. CASE backend \in Raw /\ ~r.ours
  BY <1>1, <1>2, <1>4 DEF IInv, OthersSaved, Lets
<1>5. CASE backend \in Raw /\ r.ours
  <2>1. r = Accept(p, TRUE)
    BY <1>1, <1>2, <1>5, OursIsAccept DEF Raw
  <2>2. r \in kept
    BY <1>1, <1>2, <1>5, <2>1 DEF IInv, OursSaved, TypeOK
  <2>3. QED
    BY <1>1, <2>2 DEF Lets
<1>6. QED
  BY <1>2, <1>3, <1>4, <1>5

(* A host starts with the one rule that lets CloudForge in.                  *)
LEMMA InitIInv == HostFirewallInit => IInv
<1> SUFFICES ASSUME HostFirewallInit PROVE IInv
  OBVIOUS
<1>1. Accept(SshPort, FALSE) \in Rules /\ ~Accept(SshPort, FALSE).ours
  BY DEF Accept, Rules
<1>2. TypeOK
  BY <1>1 DEF HostFirewallInit, TypeOK, NoCall, Calls
<1>3. \A p \in Ports : Accept(p, TRUE) \notin live
  BY <1>1, AcceptRules DEF HostFirewallInit
<1>4. QED
  BY <1>2, <1>3 DEF HostFirewallInit, IInv, OthersSaved, OursSaved, OpenNow, NoCall

(* A script starts.                                                          *)
LEMMA StartIInv ==
  ASSUME IInv, NEW op \in {"open", "close"}, NEW ports \in SUBSET Ports, StartCall(op, ports)
  PROVE  IInv'
<1>1. /\ call.op = "none" /\ UNCHANGED <<conditionsOfHost, live, kept, opened, torn>>
      /\ call' = [op |-> op, stage |-> "run", ports |-> ports, left |-> ports,
                  changed |-> FALSE, undone |-> {}]
  BY DEF StartCall, IInv, TypeOK, Calls
<1>2. TypeOK'
  BY <1>1 DEF IInv, TypeOK, Calls, conditionsOfHost
<1>3. QED
  BY <1>1, <1>2
  DEF IInv, OthersSaved, OursSaved, OpenNow, Saves, Lets, conditionsOfHost

(* A script opens one port.                                                  *)
LEMMA OpenPortIInv ==
  ASSUME IInv, NEW p \in Ports, OpenPort(p)
  PROVE  IInv'
<1>1. /\ call.op = "open" /\ call.stage = "run" /\ p \in call.left
      /\ UNCHANGED <<conditionsOfHost, opened, torn>>
      /\ call' = [call EXCEPT !.left = @ \ {p}, !.changed = @ \/ ~Matched(p)]
      /\ call \in Calls
  BY DEF OpenPort, Step, IInv, TypeOK
<1>2. /\ call'.op = "open" /\ call'.stage = "run" /\ call'.ports = call.ports
      /\ call'.left = call.left \ {p} /\ call'.undone = call.undone
      /\ call'.changed = (call.changed \/ ~Matched(p))
      /\ call' \in Calls
  BY <1>1 DEF Calls, Matched
<1>3. /\ live' \subseteq Rules /\ kept' \subseteq Rules
      /\ live \subseteq live' /\ kept \subseteq kept'
      /\ Lets(live, p)'
      /\ OthersSaved'
      /\ \A q \in Ports : Accept(q, TRUE) \in live' \ live => q = p /\ ~Matched(p)
  <2>1. CASE Matched(p)
    <3>1. UNCHANGED <<live, kept>>
      BY <2>1 DEF OpenPort
    <3>2. Lets(live, p)
      BY <2>1, AcceptRules DEF Matched, Lets, Passes
    <3>3. QED
      BY <1>1, <3>1, <3>2 DEF IInv, TypeOK, OthersSaved, Lets, conditionsOfHost
  <2>2. CASE ~Matched(p) /\ backend \in Raw
    <3>1. live' = live \cup {Accept(p, TRUE)} /\ kept' = kept
      BY <2>2 DEF OpenPort
    <3>2. Lets(live', p)
      BY <3>1, AcceptRules
    <3>3. \A q \in Ports : Accept(q, TRUE) = Accept(p, TRUE) => q = p
      BY ZenonT(60), AcceptRules
    <3>4. QED
      BY ZenonT(60), <1>1, <2>2, <3>1, <3>2, <3>3, AcceptRules
      DEF IInv, TypeOK, OthersSaved, Lets, conditionsOfHost
  <2>3. CASE ~Matched(p) /\ backend \notin Raw
    <3>1. live = kept /\ Reload(kept \cup {Accept(p, FALSE)})
      BY <2>3 DEF OpenPort, IInv, OthersSaved
    <3>2. live' = kept \cup {Accept(p, FALSE)} /\ kept' = kept \cup {Accept(p, FALSE)}
      BY <3>1, ReloadBoth
    <3>3. Lets(live', p)
      BY <3>2, AcceptRules
    <3>4. \A q \in Ports : Accept(q, TRUE) # Accept(p, FALSE)
      BY AcceptRules
    <3>5. QED
      BY ZenonT(60), <1>1, <2>3, <3>1, <3>2, <3>3, <3>4, AcceptRules
      DEF IInv, TypeOK, OthersSaved, Lets, conditionsOfHost
  <2>4. QED
    BY <2>1, <2>2, <2>3
<1>4. TypeOK'
  BY <1>1, <1>2, <1>3 DEF IInv, TypeOK, conditionsOfHost
<1>5. OursSaved'
  <2> SUFFICES ASSUME backend \in Raw, Saves, NEW q \in Ports,
                      Accept(q, TRUE) \in live', torn[q] = 0
               PROVE  \/ Accept(q, TRUE) \in kept'
                      \/ call.op = "open" /\ call'.changed /\ q \in call.ports
    BY <1>1, <1>2 DEF OursSaved, Saves, conditionsOfHost
  <2>1. CASE Accept(q, TRUE) \in live
    BY <1>1, <1>2, <1>3, <2>1 DEF IInv, OursSaved
  <2>2. CASE Accept(q, TRUE) \notin live
    <3>1. q = p /\ ~Matched(p)
      BY <1>3, <2>2
    <3>2. p \in call.ports /\ call'.changed
      BY <1>1, <1>2, <3>1 DEF IInv, TypeOK
    <3>3. QED
      BY <1>1, <3>1, <3>2
  <2>3. QED
    BY <2>1, <2>2
<1>6. OpenNow'
  BY <1>1, <1>2, <1>3 DEF IInv, OpenNow, Lets, conditionsOfHost
<1>7. QED
  BY <1>3, <1>4, <1>5, <1>6 DEF IInv

(* A script closes one port.                                                 *)
LEMMA ClosePortIInv ==
  ASSUME IInv, NEW p \in Ports, ClosePort(p)
  PROVE  IInv'
<1>1. /\ call.op = "close" /\ call.stage = "run" /\ p \in call.left
      /\ UNCHANGED <<conditionsOfHost, torn>> /\ opened' = opened \ {p}
      /\ call' = [call EXCEPT !.left = @ \ {p}, !.changed = @ \/ Matched(p)]
      /\ call \in Calls
  BY DEF ClosePort, Step, IInv, TypeOK
<1>2. call' \in Calls /\ call'.op = "close" /\ call'.stage = "run"
  BY <1>1 DEF Calls, Matched
<1>3. /\ live' \subseteq live /\ kept' \subseteq kept
      /\ \A r \in live : r.port # p => r \in live'
      /\ OthersSaved'
      /\ backend \in Raw => kept' = kept
  <2>1. CASE ~Matched(p)
    BY <1>1, <2>1 DEF ClosePort, IInv, OthersSaved, conditionsOfHost
  <2>2. CASE Matched(p) /\ backend \in Raw
    <3>1. live' = live \ {Accept(p, TRUE)} /\ kept' = kept
      BY <2>2 DEF ClosePort
    <3>2. QED
      BY <1>1, <2>2, <3>1, AcceptRules DEF IInv, OthersSaved, conditionsOfHost
  <2>3. CASE Matched(p) /\ backend \notin Raw
    <3>1. live = kept /\ Reload(kept \ {Accept(p, FALSE)})
      BY <2>3 DEF ClosePort, IInv, OthersSaved
    <3>2. live' = kept \ {Accept(p, FALSE)} /\ kept' = kept \ {Accept(p, FALSE)}
      BY <3>1, ReloadBoth
    <3>3. QED
      BY <1>1, <2>3, <3>1, <3>2, AcceptRules DEF OthersSaved, conditionsOfHost
  <2>4. QED
    BY <2>1, <2>2, <2>3
<1>4. TypeOK'
  BY <1>1, <1>2, <1>3 DEF IInv, TypeOK, conditionsOfHost
<1>5. OursSaved'
  BY <1>1, <1>2, <1>3 DEF IInv, OursSaved, Saves, conditionsOfHost
<1>6. OpenNow'
  BY <1>1, <1>2, <1>3 DEF IInv, OpenNow, Lets, conditionsOfHost
<1>7. QED
  BY <1>3, <1>4, <1>5, <1>6 DEF IInv

(* A script has done all its ports, and answers.                             *)
LEMMA AnswerIInv == ASSUME IInv, Answer PROVE IInv'
<1>1. /\ call.stage = "run" /\ call.left = {} /\ call' = NoCall
      /\ UNCHANGED <<conditionsOfHost, live, torn>>
      /\ kept' = IF SavedToDisk THEN live ELSE kept
      /\ call \in Calls
  BY DEF Answer, IInv, TypeOK
<1>2. opened' = IF call.op = "open"
                THEN opened \cup {p \in call.ports \ call.undone : torn[p] = 0} ELSE opened
  BY DEF Answer
<1>3. NoCall \in Calls /\ NoCall.op = "none" /\ NoCall.stage = "idle" /\ NoCall.left = {}
  BY DEF NoCall, Calls
<1>4. TypeOK'
  BY <1>1, <1>2, <1>3 DEF IInv, TypeOK, conditionsOfHost, Calls
<1>5. OthersSaved'
  BY <1>1 DEF IInv, OthersSaved, conditionsOfHost
<1>6. OursSaved'
  BY <1>1, <1>3 DEF IInv, OursSaved, Saves, SavedToDisk, Raw, conditionsOfHost
<1>7. OpenNow'
  BY <1>1, <1>2, <1>3 DEF IInv, OpenNow, Lets, conditionsOfHost
<1>8. QED
  BY <1>4, <1>5, <1>6, <1>7 DEF IInv

(* A script is cut off.                                                      *)
LEMMA InterruptedIInv == ASSUME IInv, Interrupted PROVE IInv'
<1>1. /\ call.stage = "run" /\ call' = NoCall /\ opened' = opened \ call.ports
      /\ UNCHANGED <<conditionsOfHost, live, kept>>
      /\ torn' = [p \in Ports |-> torn[p] + IF p \in call.ports THEN 1 ELSE 0]
      /\ call \in Calls
  BY DEF Interrupted, IInv, TypeOK
<1>2. NoCall \in Calls /\ NoCall.op = "none" /\ NoCall.stage = "idle" /\ NoCall.left = {}
  BY DEF NoCall, Calls
<1>3. /\ torn' \in [Ports -> Nat]
      /\ \A p \in Ports : torn'[p] = 0 <=> torn[p] = 0 /\ p \notin call.ports
  BY <1>1 DEF IInv, TypeOK
<1>4. TypeOK'
  BY <1>1, <1>2, <1>3 DEF IInv, TypeOK, conditionsOfHost
<1>5. OthersSaved' /\ OpenNow'
  BY <1>1, <1>2 DEF IInv, OthersSaved, OpenNow, Lets, conditionsOfHost
<1>6. OursSaved'
  BY <1>1, <1>3 DEF IInv, OursSaved, Saves, conditionsOfHost
<1>7. QED
  BY <1>4, <1>5, <1>6 DEF IInv

(* Other people make rules and remove them, and the host boots.              *)
LEMMA HostIInv ==
  ASSUME IInv,
         \/ \E p \in Ports : HandRemove(p) \/ \E from \in HandSources : HandAdd(p, from)
         \/ Reboot
  PROVE  IInv'
<1>1. CASE Reboot
  <2>1. /\ call.stage = "idle" /\ call.op = "none" /\ live' = kept
        /\ UNCHANGED <<conditionsOfHost, kept, call, torn>>
        /\ opened' = IF backend = "iptables" /\ ~persists THEN {} ELSE opened
    BY <1>1 DEF Reboot, IInv, TypeOK, Calls
  <2>2. TypeOK' /\ OthersSaved' /\ OursSaved'
    BY <2>1 DEF IInv, TypeOK, OthersSaved, OursSaved, conditionsOfHost
  <2>3. \A p \in opened' : Lets(kept, p)
    BY <2>1, IdleIsSaved DEF Saves
  <2>4. OpenNow'
    BY <2>1, <2>3 DEF OpenNow, Lets, conditionsOfHost
  <2>5. QED
    BY <2>2, <2>4 DEF IInv
<1>2. ASSUME NEW p \in Ports, NEW from \in HandSources, HandAdd(p, from) PROVE IInv'
  <2> DEFINE rule == [port |-> p, from |-> from, ours |-> FALSE]
  <2>1. /\ live' = live \cup {rule} /\ kept' = kept \cup {rule}
        /\ UNCHANGED <<conditionsOfHost, call, opened, torn>>
    BY <1>2 DEF HandAdd
  <2>2. rule \in Rules /\ ~rule.ours
    BY DEF Rules
  <2> HIDE DEF rule
  <2>3. TypeOK' /\ OthersSaved'
    BY <2>1, <2>2 DEF IInv, TypeOK, OthersSaved, conditionsOfHost
  <2>4. \A q \in Ports : Accept(q, TRUE) # rule
    BY <2>2, AcceptRules
  <2>5. OursSaved' /\ OpenNow'
    BY <2>1, <2>4 DEF IInv, OursSaved, OpenNow, Saves, Lets, conditionsOfHost
  <2>6. QED
    BY <2>3, <2>5 DEF IInv
<1>3. ASSUME NEW p \in Ports, HandRemove(p) PROVE IInv'
  <2>1. /\ live' = {r \in live : r.port # p} /\ kept' = {r \in kept : r.port # p}
        /\ opened' = opened \ {p}
        /\ call' = [call EXCEPT !.undone = @ \cup (call.ports \cap {p})]
        /\ UNCHANGED <<conditionsOfHost, torn>> /\ call \in Calls
    BY <1>3 DEF HandRemove, IInv, TypeOK
  <2>2. /\ call' \in Calls /\ call'.op = call.op /\ call'.stage = call.stage
        /\ call'.ports = call.ports /\ call'.left = call.left /\ call'.changed = call.changed
        /\ call'.undone = call.undone \cup (call.ports \cap {p})
    BY <2>1 DEF Calls
  <2>3. TypeOK' /\ OthersSaved'
    BY <2>1, <2>2 DEF IInv, TypeOK, OthersSaved, conditionsOfHost
  <2>4. OursSaved'
    BY <2>1, <2>2, AcceptRules DEF IInv, OursSaved, Saves, conditionsOfHost
  <2>5. OpenNow'
    BY <2>1, <2>2 DEF IInv, OpenNow, Lets, conditionsOfHost
  <2>6. QED
    BY <2>3, <2>4, <2>5 DEF IInv
<1>4. QED
  BY <1>1, <1>2, <1>3

(* The invariant is inductive.                                               *)
LEMMA NextIInv == IInv /\ [HostFirewallNext]_firewallVars => IInv'
<1> SUFFICES ASSUME IInv, [HostFirewallNext]_firewallVars PROVE IInv'
  OBVIOUS
<1>1. CASE UNCHANGED firewallVars
  BY ZenonT(60), <1>1
  DEF firewallVars, IInv, TypeOK, OthersSaved, OursSaved, OpenNow, Saves, Lets
<1>2. ASSUME NEW ports \in SUBSET Ports, Open(ports) \/ Close(ports) PROVE IInv'
  BY <1>2, StartIInv DEF Open, Close
<1>3. CASE OpenRequired
  <2>1. PICK ports \in requirementsFor : StartCall("open", ports)
    BY <1>3 DEF OpenRequired
  <2>2. ports \subseteq Ports
    BY RequiredPorts DEF IInv, TypeOK
  <2>3. QED
    BY <2>1, <2>2, StartIInv
<1>4. QED
  BY <1>1, <1>2, <1>3, OpenPortIInv, ClosePortIInv, AnswerIInv, InterruptedIInv, HostIInv
  DEF HostFirewallNext

(* What an answer said was open is in force and, while no script runs, saved  *)
(* (HostFirewallService.open() and what follows it on the host), for every    *)
(* backend, any rules of other people and any scripts cut off.                *)
THEOREM OpenedPortsStayOpen == HostFirewallSpec => []OpenedStaysOpen
<1>1. IInv => OpenedStaysOpen
  <2> SUFFICES ASSUME IInv, NEW p \in opened
               PROVE  /\ Narrowed(p) \/ Passes(live, p)
                      /\ checkConnectivity(p) \in {"reachable", "blocked-provider", "unknown"}
                      /\ Saves /\ call.stage = "idle" => Narrowed(p) \/ Passes(kept, p)
    BY DEF OpenedStaysOpen, Saves
  <2>1. Lets(live, p) /\ live \subseteq Rules
    BY DEF IInv, TypeOK, OpenNow
  <2>2. ASSUME Saves, call.stage = "idle" PROVE Narrowed(p) \/ Passes(kept, p)
    <3>1. Lets(kept, p)
      BY <2>2, IdleIsSaved
    <3>2. backend = "ufw" => live = kept
      BY DEF IInv, OthersSaved, Raw
    <3>3. QED
      BY <3>1, <3>2 DEF Lets, Narrowed, Passes
  <2>3. QED
    BY <2>1, <2>2, LetsListed
<1>2. QED
  BY InitIInv, NextIInv, <1>1, PTL DEF HostFirewallSpec

------------------------------------------------------------------------------
(* The sites of a host's Nginx.                                             *)

IsScript(s) ==
  s = [op |-> s.op, stage |-> s.stage, domain |-> s.domain, site |-> s.site,
       enabled |-> s.enabled, archive |-> s.archive]

IsFiles(files) == files = [d \in Domains |-> files[d]]

\* What a script has archived is what it can go back to: only its own site was
\* written since, and a removal of the Ansible page, which goes back to nothing,
\* leaves no site that could be refused.
ScriptOK(s) ==
  /\ IsScript(s)
  /\ s.stage \in {"idle", "archive", "write", "reload"} => Valid(siteFiles)
  /\ s.stage \in {"write", "test", "roll back", "restore"} =>
       IsFiles(s.archive.live) /\ Valid(s.archive.live)
  /\ s.stage = "write" => s.archive.live = siteFiles
  /\ s.stage \in {"test", "roll back"} =>
       \A d \in Domains \ {s.domain} : siteFiles[d] = s.archive.live[d]
  /\ s.stage \in {"archive", "write", "test", "roll back"} =>
       s.op \in {"save", "issue", "remove", "ansible", "ansible remove"}
  /\ s.op = "ansible remove" =>
       /\ s.site = NoSite /\ s.enabled
       /\ s.stage \in {"test", "roll back"} => Valid(siteFiles)

\* The inductive invariant, of one script at a time.
NginxIInv ==
  /\ IsFiles(siteFiles)
  /\ script = [c \in Callers |-> script[c]]
  /\ \A c \in Callers : ScriptOK(script[c])
  /\ \A archive \in archives : IsFiles(archive.live) /\ Valid(archive.live)
  /\ Valid(served)

------------------------------------------------------------------------------

(* No host has a site at first.                                              *)
LEMMA NginxInitIInv == NginxInit => NginxIInv
<1> SUFFICES ASSUME NginxInit PROVE NginxIInv
  OBVIOUS
<1>1. /\ siteFiles = NoFiles /\ served = NoFiles /\ archives = {}
      /\ script = [c \in Callers |-> NoScript]
  BY DEF NginxInit
<1>2. IsFiles(NoFiles) /\ Valid(NoFiles)
  BY DEF NoFiles, IsFiles, Valid
<1>3. IsScript(NoScript) /\ NoScript.op = "none" /\ NoScript.stage = "idle"
  BY DEF NoScript, IsScript
<1>4. \A c \in Callers : script[c] = NoScript
  BY <1>1
<1>5. ScriptOK(NoScript)
  BY <1>1, <1>2, <1>3 DEF ScriptOK
<1>6. QED
  BY <1>1, <1>2, <1>4, <1>5 DEF NginxIInv

(* A script begins where no other runs, with the files as Nginx accepts them. *)
LEMMA CallIInv ==
  ASSUME NginxIInv, \A c, d \in Callers : c = d, NEW c \in Callers,
         NEW op \in {"save", "issue", "remove", "ansible", "ansible remove"},
         NEW d, NEW site, NEW enabled, Call(c, op, d, site, enabled),
         op = "ansible remove" => site = NoSite /\ enabled
  PROVE  NginxIInv'
<1>1. PICK s : s = [op |-> op, stage |-> "archive", domain |-> d, site |-> site,
                    enabled |-> enabled, archive |-> NoArchive]
  OBVIOUS
<1>2. script' = [script EXCEPT ![c] = s] /\ UNCHANGED <<siteFiles, off, served, archives>>
  BY <1>1 DEF Call
<1>3. Valid(siteFiles)
  BY DEF Call, AtStage, NginxIInv, ScriptOK
<1>4. /\ IsScript(s) /\ s.stage = "archive" /\ s.op = op /\ s.site = site
      /\ s.enabled = enabled
  BY <1>1 DEF IsScript
<1>5. ScriptOK(s)'
  BY <1>2, <1>3, <1>4 DEF ScriptOK, IsScript, Valid
<1>6. QED
  BY <1>2, <1>5 DEF NginxIInv, IsFiles, Valid

(* The steps of the script that runs.                                        *)
LEMMA ScriptIInv ==
  ASSUME NginxIInv, \A c, d \in Callers : c = d, NEW c \in Callers,
         \/ Archive(c) \/ Write(c) \/ Test(c) \/ RollBack(c) \/ RestoreFiles(c)
         \/ ReloadSites(c) \/ \E archive \in archives : Restore(c, archive)
  PROVE  NginxIInv'
<1>1. /\ IsFiles(siteFiles) /\ Valid(served) /\ ScriptOK(script[c])
      /\ script = [d \in Callers |-> script[d]]
      /\ \A archive \in archives : IsFiles(archive.live) /\ Valid(archive.live)
  BY DEF NginxIInv
<1>2. PICK s : s = script[c]
  OBVIOUS
<1>3. ASSUME NEW t, script' = [script EXCEPT ![c] = t], ScriptOK(t)', IsFiles(siteFiles)',
             \A archive \in archives' : IsFiles(archive.live) /\ Valid(archive.live),
             Valid(served)'
      PROVE  NginxIInv'
  BY <1>1, <1>3 DEF NginxIInv, Valid, IsFiles
<1>4. ASSUME Exit(c), Valid(siteFiles)', IsFiles(siteFiles)', UNCHANGED archives,
             Valid(served)'
      PROVE  NginxIInv'
  <2>1. PICK t : t = NoScript
    OBVIOUS
  <2>2. ScriptOK(t)'
    BY <1>4, <2>1 DEF NoScript, ScriptOK, IsScript, Valid
  <2>3. QED
    BY <1>1, <1>3, <1>4, <2>1, <2>2 DEF Exit
<1>6. CASE Archive(c)
  <2>1. PICK t : t = [s EXCEPT !.stage = "write", !.archive = Etc]
    OBVIOUS
  <2>2. /\ s.stage = "archive" /\ script' = [script EXCEPT ![c] = t]
        /\ archives' \subseteq archives \cup {Etc}
        /\ UNCHANGED <<siteFiles, off, served>>
    BY <1>1, <1>2, <1>6, <2>1 DEF Archive, AtStage
  <2>3. /\ t = [op |-> s.op, stage |-> "write", domain |-> s.domain, site |-> s.site,
                enabled |-> s.enabled, archive |-> Etc]
        /\ Etc.live = siteFiles
    BY <1>1, <1>2, <2>1 DEF ScriptOK, IsScript, Etc
  <2>4. Valid(siteFiles)
    BY <1>1, <1>2, <2>2 DEF ScriptOK
  <2>5. ScriptOK(t)'
    BY <1>1, <1>2, <2>2, <2>3, <2>4 DEF ScriptOK, IsScript, Valid, IsFiles
  <2>6. QED
    BY <1>1, <1>3, <2>2, <2>3, <2>4, <2>5 DEF Valid, IsFiles
<1>7. CASE Write(c)
  <2>1. PICK t : t = [s EXCEPT !.stage = "test"]
    OBVIOUS
  <2>2. /\ s.stage = "write" /\ script' = [script EXCEPT ![c] = t]
        /\ siteFiles' = [siteFiles EXCEPT ![s.domain] = IF s.enabled THEN s.site ELSE NoSite]
        /\ UNCHANGED <<served, archives>>
    BY <1>1, <1>2, <1>7, <2>1 DEF Write, AtStage, Goto
  <2>3. t = [op |-> s.op, stage |-> "test", domain |-> s.domain, site |-> s.site,
             enabled |-> s.enabled, archive |-> s.archive]
    BY <1>1, <1>2, <2>1 DEF ScriptOK, IsScript
  <2>4. /\ IsScript(t) /\ t.stage = "test" /\ t.op = s.op /\ t.domain = s.domain
        /\ t.site = s.site /\ t.enabled = s.enabled /\ t.archive = s.archive
    BY <2>3 DEF IsScript
  <2>5. /\ Valid(siteFiles) /\ IsFiles(s.archive.live) /\ Valid(s.archive.live)
        /\ \A d \in Domains : siteFiles[d] = s.archive.live[d]
        /\ s.op \in {"save", "issue", "remove", "ansible", "ansible remove"}
        /\ s.op = "ansible remove" => s.site = NoSite /\ s.enabled
    BY <1>1, <1>2, <2>2 DEF ScriptOK
  <2>6. \A d \in Domains \ {s.domain} : siteFiles'[d] = siteFiles[d]
    BY <1>1, <2>2 DEF IsFiles
  <2>7. s.op = "ansible remove" => Valid(siteFiles)'
    <3>1. s.op = "ansible remove" =>
            \A d \in Domains : siteFiles'[d] = NoSite \/ siteFiles'[d] = siteFiles[d]
      BY <1>1, <2>2, <2>5 DEF IsFiles
    <3>2. QED
      BY <2>5, <3>1 DEF Valid
  <2>8. ScriptOK(t)'
    BY <2>4, <2>5, <2>6, <2>7 DEF ScriptOK, IsScript, Valid, IsFiles
  <2>9. QED
    BY <1>1, <1>3, <2>2, <2>8 DEF Valid, IsFiles
<1>8. CASE Test(c)
  <2>1. PICK t : t = [s EXCEPT !.stage = IF Valid(siteFiles) THEN "reload" ELSE "roll back"]
    OBVIOUS
  <2>2. /\ s.stage = "test" /\ script' = [script EXCEPT ![c] = t]
        /\ UNCHANGED <<siteFiles, off, served, archives>>
    BY <1>1, <1>2, <1>8, <2>1 DEF Test, AtStage, Goto
  <2>3. t = [op |-> s.op, stage |-> IF Valid(siteFiles) THEN "reload" ELSE "roll back",
             domain |-> s.domain, site |-> s.site, enabled |-> s.enabled,
             archive |-> s.archive]
    BY <1>1, <1>2, <2>1 DEF ScriptOK, IsScript
  <2>4. ScriptOK(t)'
    BY <1>1, <1>2, <2>2, <2>3 DEF ScriptOK, IsScript, Valid, IsFiles
  <2>5. QED
    BY <1>1, <1>3, <2>2, <2>4 DEF Valid, IsFiles
<1>9. CASE RollBack(c)
  <2>1. /\ s.stage = "roll back" /\ Exit(c) /\ UNCHANGED <<served, archives>>
        /\ \/ siteFiles' = s.archive.live
           \/ siteFiles' = [siteFiles EXCEPT ![s.domain] = s.archive.live[s.domain]]
           \/ siteFiles' = siteFiles /\ s.op # "ansible" /\ ~ByManager(s)
    BY <1>2, <1>9 DEF RollBack, AtStage
  <2>2. IsFiles(siteFiles)'
    BY <1>1, <1>2, <2>1 DEF ScriptOK, IsFiles
  <2>3. /\ Valid(s.archive.live)
        /\ \A d \in Domains \ {s.domain} : siteFiles[d] = s.archive.live[d]
        /\ s.op = "ansible remove" => Valid(siteFiles)
        /\ s.op \in {"ansible", "ansible remove"} \/ ByManager(s)
    BY <1>1, <1>2, <2>1 DEF ScriptOK, ByManager
  <2>4. siteFiles' = s.archive.live => Valid(siteFiles)'
    BY <2>3 DEF Valid
  <2>5. ASSUME siteFiles' = [siteFiles EXCEPT ![s.domain] = s.archive.live[s.domain]]
        PROVE  Valid(siteFiles)'
    <3>1. \A d \in Domains : siteFiles'[d] = s.archive.live[d]
      BY <1>1, <2>3, <2>5 DEF IsFiles
    <3>2. QED
      BY <2>3, <3>1 DEF Valid
  <2>6. siteFiles' = siteFiles /\ s.op = "ansible remove" => Valid(siteFiles)'
    BY <2>3 DEF Valid
  <2>7. Valid(siteFiles)'
    BY <2>1, <2>3, <2>4, <2>5, <2>6
  <2>8. QED
    BY <1>1, <1>4, <2>1, <2>2, <2>7 DEF Valid
<1>10. CASE RestoreFiles(c)
  <2>1. PICK t : t = [s EXCEPT !.stage = "reload"]
    OBVIOUS
  <2>2. /\ s.stage = "restore" /\ script' = [script EXCEPT ![c] = t]
        /\ siteFiles' = s.archive.live
        /\ UNCHANGED <<served, archives>>
    BY <1>1, <1>2, <1>10, <2>1 DEF RestoreFiles, AtStage, Goto
  <2>3. t = [op |-> s.op, stage |-> "reload", domain |-> s.domain, site |-> s.site,
             enabled |-> s.enabled, archive |-> s.archive]
    BY <1>1, <1>2, <2>1 DEF ScriptOK, IsScript
  <2>4. IsFiles(siteFiles)' /\ Valid(siteFiles)'
    BY <1>1, <1>2, <2>2 DEF ScriptOK, IsFiles, Valid
  <2>5. ScriptOK(t)'
    BY <1>1, <1>2, <2>2, <2>3, <2>4 DEF ScriptOK, IsScript
  <2>6. QED
    BY <1>1, <1>3, <2>2, <2>4, <2>5 DEF Valid
<1>11. CASE ReloadSites(c)
  <2>1. /\ s.stage = "reload" /\ Exit(c) /\ UNCHANGED <<siteFiles, archives>>
        /\ served' = siteFiles \/ served' = served
    BY <1>2, <1>11 DEF ReloadSites, AtStage
  <2>2. Valid(siteFiles)
    BY <1>1, <1>2, <2>1 DEF ScriptOK
  <2>3. QED
    BY <1>1, <1>4, <2>1, <2>2 DEF Valid, IsFiles
<1>12. ASSUME NEW archive \in archives, Restore(c, archive) PROVE NginxIInv'
  <2>1. PICK t : t = [NoScript EXCEPT !.op = "restore", !.stage = "restore",
                                      !.archive = archive]
    OBVIOUS
  <2>2. /\ s.stage = "idle" /\ script' = [script EXCEPT ![c] = t]
        /\ UNCHANGED <<siteFiles, off, served, archives>>
    BY <1>2, <1>12, <2>1 DEF Restore, AtStage
  <2>3. IsScript(t) /\ t.op = "restore" /\ t.stage = "restore" /\ t.archive = archive
    BY <2>1 DEF NoScript, IsScript
  <2>4. ScriptOK(t)'
    BY <1>1, <2>2, <2>3 DEF ScriptOK, IsScript, IsFiles, Valid
  <2>5. QED
    BY <1>1, <1>3, <2>2, <2>4 DEF Valid, IsFiles
<1>13. QED
  BY <1>6, <1>7, <1>8, <1>9, <1>10, <1>11, <1>12

(* Every step keeps the inductive invariant.                                 *)
LEMMA NginxNextIInv ==
  ASSUME \A c, d \in Callers : c = d, NginxIInv, [NginxNext]_nginxVars
  PROVE  NginxIInv'
<1>1. ASSUME NEW c \in Callers, NEW d,
             \/ RemoveSite(c, d) \/ AnsibleRemove(c, d) \/ IssueCertificate(c, d)
             \/ \E site \in Sites, enabled \in BOOLEAN : SaveSite(c, d, site, enabled)
             \/ \E upstream \in SiteUpstreams : AnsibleUpsert(c, d, upstream)
      PROVE  NginxIInv'
  <2>1. CASE RemoveSite(c, d) \/ AnsibleRemove(c, d)
    BY <2>1, CallIInv DEF RemoveSite, AnsibleRemove
  <2>2. CASE IssueCertificate(c, d)
    BY <2>2, CallIInv DEF IssueCertificate
  <2>3. ASSUME NEW site, NEW enabled, SaveSite(c, d, site, enabled) PROVE NginxIInv'
    BY <2>3, CallIInv DEF SaveSite
  <2>4. ASSUME NEW upstream, AnsibleUpsert(c, d, upstream) PROVE NginxIInv'
    <3>1. PICK site : Call(c, "ansible", d, site, TRUE)
      BY <2>4 DEF AnsibleUpsert
    <3>2. QED
      BY <3>1, CallIInv
  <2>5. QED
    BY <1>1, <2>1, <2>2, <2>3, <2>4
<1>2. CASE NginxNext
  BY <1>1, <1>2, ScriptIInv DEF NginxNext
<1>3. CASE UNCHANGED nginxVars
  <2>1. UNCHANGED <<siteFiles, served, archives, script>>
    BY <1>3 DEF nginxVars
  <2>2. QED
    BY ZenonT(60), <2>1 DEF NginxIInv, ScriptOK, IsScript, IsFiles, Valid
<1>4. QED
  BY <1>2, <1>3

(* While scripts run one after another, whatever they were and however they   *)
(* went, Nginx would start with the files they leave and with any backup      *)
(* they made, and what it serves passed its test.                            *)
THEOREM ScriptsLeaveSitesServable ==
  ASSUME NEW caller, Callers = {caller}
  PROVE  NginxSpec => []HostStaysServable
<1>1. NginxIInv => HostStaysServable
  BY DEF NginxIInv, ScriptOK, HostStaysServable, AtStage
<1>2. NginxIInv /\ [NginxNext]_nginxVars => NginxIInv'
  BY NginxNextIInv
<1>3. QED
  BY <1>1, <1>2, NginxInitIInv, PTL DEF NginxSpec

------------------------------------------------------------------------------
(* Published ports.                                                         *)

(* Where a port is published once, the binding that is compared is the only   *)
(* one there is, whatever order Docker lists them in.                        *)
LEMMA OnlyBindingIsCompared ==
  ASSUME NEW s \in Services, Once(published[s])
  PROVE  /\ DOMAIN observedPortKeys(s) = {m.inner : m \in published[s]}
         /\ \A m \in published[s] : observedPortKeys(s)[m.inner] = m
<1>1. ASSUME NEW m \in published[s]
      PROVE  observedPortKeys(s)[m.inner] = m
  <2> DEFINE Latest(x) == /\ x.inner = m.inner
                        /\ \A n \in published[s] : n.inner = m.inner /\ n # x => After(x, n)
  <2>1. Latest(m)
    BY DEF Once
  <2>2. \A x \in published[s] : Latest(x) => x = m
    BY DEF Once
  <2>3. observedPortKeys(s)[m.inner] = CHOOSE x \in published[s] : Latest(x)
    BY DEF observedPortKeys
  <2> HIDE DEF Latest
  <2>4. QED
    BY <2>1, <2>2, <2>3
<1>2. QED
  BY <1>1 DEF observedPortKeys

(* What the plan publishes is compared away exactly when the host has it.    *)
LEMMA ComparedIsEmpty ==
  ASSUME NEW s \in Services, Once(published[s])
  PROVE  Compared(s) = {} <=> portsOf[s].mappings \subseteq published[s]
<1> DEFINE observed == observedPortKeys(s)
           missing == {n \in portsOf[s].mappings : n.inner \notin DOMAIN observed}
           modified == {n \in portsOf[s].mappings :
                          n.inner \in DOMAIN observed /\ observed[n.inner] # n}
<1>1. /\ DOMAIN observed = {m.inner : m \in published[s]}
      /\ \A m \in published[s] : observed[m.inner] = m
  BY OnlyBindingIsCompared
<1>2. Compared(s) = {} <=> missing = {} /\ modified = {}
  BY DEF Compared
<1> HIDE DEF observed
<1>3. ASSUME missing = {}, modified = {}, NEW n \in portsOf[s].mappings
      PROVE  n \in published[s]
  <2>1. n.inner \in DOMAIN observed /\ observed[n.inner] = n
    BY <1>3
  <2>2. PICK m \in published[s] : m.inner = n.inner
    BY <1>1, <2>1
  <2>3. QED
    BY <1>1, <2>1, <2>2
<1>4. ASSUME portsOf[s].mappings \subseteq published[s], NEW n \in portsOf[s].mappings
      PROVE  n.inner \in DOMAIN observed /\ observed[n.inner] = n
  BY <1>4, <1>1
<1>5. QED
  BY <1>2, <1>3, <1>4

(* A binding of a port that the plan does not publish is passed over exactly  *)
(* when it stays on the host and its container is not ours.                  *)
LEMMA UnexpectedIsEmpty ==
  ASSUME NEW s \in Services
  PROVE  Unexpected(s) = {} <=>
           \A m \in Undesired(s) : ~isPubliclyReachable(m) /\ s \notin labelled
BY DEF Unexpected

(* Where each port of a container is published at most once, the report is    *)
(* empty exactly when the host publishes what the plan describes, and        *)
(* nothing else but loopback ports of a container that is not ours.          *)
THEOREM ReportIsExact == PortsSpec => []ReportedExactly
<1>1. ASSUME running \subseteq Services PROVE ReportedExactly
  <2> SUFFICES ASSUME NEW s \in running, Once(published[s]), Once(portsOf[s].mappings)
               PROVE  comparePorts(s) = {} <=>
                        /\ portsOf[s].mappings \subseteq published[s]
                        /\ \A m \in published[s] \ portsOf[s].mappings :
                             ~isPubliclyReachable(m) /\ s \notin labelled
    BY DEF ReportedExactly
  <2>1. s \in Services
    BY <1>1
  <2>2. comparePorts(s) = {} <=> Compared(s) = {} /\ Unexpected(s) = {}
    BY DEF comparePorts
  <2>3. portsOf[s].mappings \subseteq published[s] =>
          Undesired(s) = published[s] \ portsOf[s].mappings
    <3>1. ASSUME portsOf[s].mappings \subseteq published[s],
                 NEW m \in published[s], NEW n \in portsOf[s].mappings, n.inner = m.inner
          PROVE  m \in portsOf[s].mappings
      BY <3>1 DEF Once
    <3>2. QED
      BY <3>1 DEF Undesired
  <2>4. QED
    BY <2>1, <2>2, <2>3, ComparedIsEmpty, UnexpectedIsEmpty
<1>2. PortsInit => running \subseteq Services
  BY DEF PortsInit
<1>3. running \subseteq Services /\ [PortsNext]_portVars => (running \subseteq Services)'
  BY DEF PortsNext, SavePorts, Recreate, RemoveContainer, portVars
<1>4. QED
  BY <1>1, <1>2, <1>3, PTL DEF PortsSpec

------------------------------------------------------------------------------
(* The runtime applier.                                                     *)

(* A finite set in some order is each of its elements once.                 *)
LEMMA InSomeOrder ==
  ASSUME NEW S, IsFiniteSet(S)
  PROVE  LET n == Cardinality(S)
             s == SetToSeq(S)
         IN /\ n \in Nat /\ s \in [1..n -> S]
            /\ \A i, j \in 1..n : s[i] = s[j] => i = j
            /\ \A x \in S : \E i \in 1..n : s[i] = x
<1> DEFINE n == Cardinality(S)  s == SetToSeq(S)
<1>1. n \in Nat
  BY FS_CardinalityType
<1>2. \E f \in [1..n -> S] : IsInjective(f)
  <2>1. ExistsBijection(1..n, S)
    BY FS_CardinalityType
  <2>2. QED
    BY <2>1 DEF ExistsBijection, Bijection, Injection, IsInjective
<1>3. s \in [1..n -> S] /\ IsInjective(s)
  BY <1>2 DEF SetToSeq
<1> HIDE DEF s
<1>4. \A i, j \in 1..n : s[i] = s[j] => i = j
  BY <1>3 DEF IsInjective
<1> DEFINE T == {s[i] : i \in 1..n}
<1>5. T = S
  <2>1. T \subseteq S
    BY <1>3
  <2>2. s \in [1..n -> T]
    BY <1>3
  <2>3. s \in Bijection(1..n, T)
    BY <2>2, <1>4 DEF Bijection, Injection, Surjection, IsInjective
  <2>4. Cardinality(T) = n
    BY <2>3, <1>1, FS_CountingElements DEF ExistsBijection
  <2>5. QED
    BY <2>1, <2>4, FS_Subset
<1>6. QED
  BY <1>1, <1>3, <1>4, <1>5 DEF s

(* Leaving out the manual operations of a list that ends with them cuts the *)
(* list short.                                                              *)
LEMMA ManualsCutOff ==
  ASSUME NEW s \in Seq(RuntimeOperationSet), NEW m \in Seq(RuntimeOperationSet), NEW change,
         change.operations = s \o m,
         \A i \in 1..Len(s) : s[i].kind # "manual",
         \A i \in 1..Len(m) : m[i].kind = "manual"
  PROVE  executableOperations(change) = s
<1> DEFINE ops == change.operations
           executed == {i \in DOMAIN ops : ops[i].kind # "manual"}
           n == Len(s)
<1>1. ops \in Seq(RuntimeOperationSet) /\ DOMAIN ops = 1..(n + Len(m)) /\ n \in Nat /\ Len(m) \in Nat
  OBVIOUS
<1>2. /\ \A i \in 1..n : ops[i] = s[i]
      /\ \A i \in (n + 1)..(n + Len(m)) : ops[i] = m[i - n]
  OBVIOUS
<1>3. executed = 1..n
  BY <1>1, <1>2
<1>4. ASSUME NEW i \in Nat PROVE Cardinality(1..i) = i
  <2>1. Cardinality(1..i) = IF 1 > i THEN 0 ELSE i - 1 + 1
    BY FS_Interval
  <2>2. QED
    BY <2>1
<1>5. Cardinality(executed) = n
  BY <1>1, <1>3, <1>4
<1>6. ASSUME NEW k \in 1..n
      PROVE  (CHOOSE i \in executed : Cardinality({j \in executed : j <= i}) = k) = k
  <2>1. \A i \in executed : Cardinality({j \in executed : j <= i}) = i
    <3> SUFFICES ASSUME NEW i \in executed PROVE Cardinality({j \in executed : j <= i}) = i
      OBVIOUS
    <3>1. {j \in executed : j <= i} = 1..i /\ i \in Nat /\ i >= 1
      BY <1>1, <1>3
    <3>2. QED
      BY <3>1, <1>4
  <2>2. k \in executed
    BY <1>3
  <2>3. QED
    BY <2>1, <2>2
<1>7. executableOperations(change) = [k \in 1..n |-> ops[k]]
  <2>1. executableOperations(change) =
          [k \in 1..Cardinality(executed) |->
             ops[CHOOSE i \in executed : Cardinality({j \in executed : j <= i}) = k]]
    BY DEF executableOperations
  <2> DEFINE at(k) == CHOOSE i \in executed : Cardinality({j \in executed : j <= i}) = k
  <2>2. executableOperations(change) = [k \in 1..n |-> ops[at(k)]]
    BY <2>1, <1>5
  <2>3. \A k \in 1..n : at(k) = k
    BY <1>6
  <2> HIDE DEF at, ops, n
  <2>4. QED
    BY <2>2, <2>3
<1>8. QED
  BY <1>1, <1>2, <1>7

------------------------------------------------------------------------------

(* Networks are created before anything joins or leaves one, and removed    *)
(* last.                                                                    *)
Rank(op) == IF op.kind = "create" THEN 1 ELSE IF op.kind = "remove" THEN 3 ELSE 2

Orderly(ops) ==
  \A i, j \in DOMAIN ops : i < j => ops[i] # ops[j] /\ Rank(ops[i]) <= Rank(ops[j])

Outstanding(p, h, r) ==
  Creates(p, h) \cup Attaches(p, h) \cup Detaches(p, h) \cup Removals(p, h, r)

PlanOK(p) ==
  /\ p.mode = "managed"
  /\ p.networks \subseteq Networks /\ p.services \subseteq Containers
  /\ p.composed \subseteq p.services
  /\ p.members \subseteq Containers \X Networks

(* Lists, each without repetition and none with an operation of another,    *)
(* that follow one another.                                                 *)
LEMMA OneAfterTheOther ==
  ASSUME NEW a \in Seq(RuntimeOperationSet), NEW b \in Seq(RuntimeOperationSet),
         Orderly(a), Orderly(b),
         \A i \in DOMAIN a, j \in DOMAIN b : Rank(a[i]) < Rank(b[j])
  PROVE  /\ a \o b \in Seq(RuntimeOperationSet) /\ Orderly(a \o b)
         /\ ToSet(a \o b) = ToSet(a) \cup ToSet(b)
<1> DEFINE s == a \o b  m == Len(a)  n == Len(b)
<1>1. /\ s \in Seq(RuntimeOperationSet) /\ m \in Nat /\ n \in Nat
      /\ DOMAIN s = 1..(m + n) /\ DOMAIN a = 1..m /\ DOMAIN b = 1..n
      /\ \A i \in 1..m : s[i] = a[i]
      /\ \A i \in (m + 1)..(m + n) : s[i] = b[i - m]
  OBVIOUS
<1> HIDE DEF s, m, n
<1>2. \A i \in DOMAIN a : Rank(a[i]) \in Int
  BY DEF Rank
<1>3. Orderly(s)
  <2> SUFFICES ASSUME NEW i \in DOMAIN s, NEW j \in DOMAIN s, i < j
               PROVE  s[i] # s[j] /\ Rank(s[i]) <= Rank(s[j])
    BY DEF Orderly
  <2>1. CASE j <= m
    BY <2>1, <1>1 DEF Orderly
  <2>2. CASE i > m
    <3>1. i - m \in DOMAIN b /\ j - m \in DOMAIN b /\ i - m < j - m
      BY <2>2, <1>1
    <3>2. s[i] = b[i - m] /\ s[j] = b[j - m]
      BY <2>2, <1>1
    <3>3. QED
      BY <3>1, <3>2 DEF Orderly
  <2>3. CASE i <= m /\ j > m
    <3>1. i \in 1..m /\ j \in (m + 1)..(m + n) /\ j - m \in 1..n
      BY <2>3, <1>1
    <3>2. s[i] = a[i] /\ s[j] = b[j - m]
      BY <3>1, <1>1
    <3>3. Rank(a[i]) < Rank(b[j - m])
      BY <3>1, <1>1
    <3>4. QED
      BY <3>2, <3>3 DEF Rank
  <2>4. QED
    BY <2>1, <2>2, <2>3, <1>1
<1>4. ToSet(s) = ToSet(a) \cup ToSet(b)
  <2>1. ToSet(s) \subseteq ToSet(a) \cup ToSet(b)
    <3> SUFFICES ASSUME NEW i \in DOMAIN s PROVE s[i] \in ToSet(a) \cup ToSet(b)
      BY DEF ToSet
    <3>1. CASE i <= m
      BY <3>1, <1>1 DEF ToSet
    <3>2. CASE i > m
      <4>1. i - m \in DOMAIN b /\ s[i] = b[i - m]
        BY <3>2, <1>1
      <4>2. QED
        BY <4>1 DEF ToSet
    <3>3. QED
      BY <3>1, <3>2, <1>1
  <2>2. ToSet(a) \subseteq ToSet(s)
    BY <1>1 DEF ToSet
  <2>3. ToSet(b) \subseteq ToSet(s)
    <3> SUFFICES ASSUME NEW j \in DOMAIN b PROVE b[j] \in ToSet(s)
      BY DEF ToSet
    <3>1. m + j \in DOMAIN s /\ s[m + j] = b[j]
      BY <1>1
    <3>2. QED
      BY <3>1 DEF ToSet
  <2>4. QED
    BY <2>1, <2>2, <2>3
<1>5. QED
  BY <1>1, <1>3, <1>4 DEF s

(* A set of operations of one rank, in some order.                          *)
LEMMA OfOneRank ==
  ASSUME NEW S \in SUBSET RuntimeOperationSet, IsFiniteSet(S),
         NEW k, \A op \in S : Rank(op) = k
  PROVE  /\ SetToSeq(S) \in Seq(RuntimeOperationSet) /\ Orderly(SetToSeq(S))
         /\ ToSet(SetToSeq(S)) = S
<1> DEFINE n == Cardinality(S)  s == SetToSeq(S)
<1>1. /\ n \in Nat /\ s \in [1..n -> S]
      /\ \A i, j \in 1..n : s[i] = s[j] => i = j
      /\ \A x \in S : \E i \in 1..n : s[i] = x
  BY InSomeOrder
<1> HIDE DEF n, s
<1>2. s \in Seq(RuntimeOperationSet) /\ DOMAIN s = 1..n
  BY <1>1
<1>3. \A i \in 1..n : Rank(s[i]) = k
  BY <1>1
<1>4. Orderly(s)
  <2> SUFFICES ASSUME NEW i \in 1..n, NEW j \in 1..n, i < j
               PROVE  s[i] # s[j] /\ Rank(s[i]) <= Rank(s[j])
    BY <1>2 DEF Orderly
  <2>1. s[i] # s[j]
    BY <1>1
  <2>2. Rank(s[i]) = Rank(s[j]) /\ Rank(s[i]) \in Int
    BY <1>3 DEF Rank
  <2>3. QED
    BY <2>1, <2>2
<1>5. ToSet(s) = S
  BY <1>1, <1>2 DEF ToSet
<1>6. QED
  BY <1>2, <1>4, <1>5 DEF s

LEMMA OperationsFinite == IsFiniteSet(RuntimeOperationSet)
<1> DEFINE K == {"create", "attach", "alias", "detach", "remove", "manual"}
           C == Containers \cup {NoName}
           N == Networks \cup {NoName}
           f == [op \in RuntimeOperationSet |-> <<<<op.kind, op.container>>, op.network>>]
<1>1. IsFiniteSet(C) /\ IsFiniteSet(N)
  BY NamesFinite, FS_Singleton, FS_Union
<1>2. IsFiniteSet(K)
  <2>1. K = {"create"} \cup {"attach"} \cup {"alias"} \cup {"detach"} \cup {"remove"} \cup {"manual"}
    OBVIOUS
  <2>2. IsFiniteSet({"create"} \cup {"attach"})
    BY FS_Singleton, FS_Union
  <2>3. IsFiniteSet({"create"} \cup {"attach"} \cup {"alias"})
    BY <2>2, FS_Singleton, FS_Union
  <2>4. IsFiniteSet({"create"} \cup {"attach"} \cup {"alias"} \cup {"detach"})
    BY <2>3, FS_Singleton, FS_Union
  <2>5. IsFiniteSet({"create"} \cup {"attach"} \cup {"alias"} \cup {"detach"} \cup {"remove"})
    BY <2>4, FS_Singleton, FS_Union
  <2>6. IsFiniteSet({"create"} \cup {"attach"} \cup {"alias"} \cup {"detach"} \cup {"remove"}
                      \cup {"manual"})
    BY <2>5, FS_Singleton, FS_Union
  <2>7. QED
    BY <2>1, <2>6
<1>3. IsFiniteSet((K \X C) \X N)
  BY <1>1, <1>2, FS_Product
<1>4. f \in Injection(RuntimeOperationSet, (K \X C) \X N)
  BY DEF Injection, IsInjective, RuntimeOperationSet
<1>5. QED
  BY <1>3, <1>4, FS_Injection

(* What an apply executes is what is outstanding, in order.                 *)
LEMMA ExecutesOutstanding ==
  ASSUME NEW p, PlanOK(p), NEW h \in DockerHosts, NEW r \in SUBSET Networks
  PROVE  LET ops == executableOperations(planRuntimeOperations(p, h, r))
         IN /\ ops \in Seq(RuntimeOperationSet) /\ Orderly(ops)
            /\ ToSet(ops) = Outstanding(p, h, r)
<1> DEFINE C == Creates(p, h)
           J == Attaches(p, h) \cup Detaches(p, h)
           R == Removals(p, h, r)
           M == Manuals(p, h, r)
           change == planRuntimeOperations(p, h, r)
<1>1. \A op \in C : op \in RuntimeOperationSet /\ op.kind = "create"
  BY DEF Creates, Op, RuntimeOperationSet, PlanOK
<1>2. \A op \in J : op \in RuntimeOperationSet /\ op.kind \in {"attach", "alias", "detach"}
  BY DEF Attaches, Detaches, Wanted, Op, RuntimeOperationSet, PlanOK
<1>3. \A op \in R : op \in RuntimeOperationSet /\ op.kind = "remove"
  BY DEF Removals, Removable, Op, RuntimeOperationSet
<1>4. \A op \in M : op \in RuntimeOperationSet /\ op.kind = "manual"
  BY DEF Manuals, Removable, Op, RuntimeOperationSet, PlanOK
<1>5. change.operations = SetToSeq(C) \o SetToSeq(J) \o SetToSeq(R) \o SetToSeq(M)
  BY DEF planRuntimeOperations, PlanOK
<1>6. Outstanding(p, h, r) = C \cup J \cup R
  BY DEF Outstanding
<1> HIDE DEF C, J, R, M, change
<1>7. /\ C \subseteq RuntimeOperationSet /\ J \subseteq RuntimeOperationSet
      /\ R \subseteq RuntimeOperationSet /\ M \subseteq RuntimeOperationSet
  BY <1>1, <1>2, <1>3, <1>4
<1>8. IsFiniteSet(C) /\ IsFiniteSet(J) /\ IsFiniteSet(R) /\ IsFiniteSet(M)
  BY <1>7, OperationsFinite, FS_Subset
<1>9. /\ \A op \in C : Rank(op) = 1
      /\ \A op \in J : Rank(op) = 2
      /\ \A op \in R : Rank(op) = 3
      /\ \A op \in M : Rank(op) = 2
  BY <1>1, <1>2, <1>3, <1>4 DEF Rank
<1> DEFINE c == SetToSeq(C)  j == SetToSeq(J)  s == SetToSeq(R)  m == SetToSeq(M)
<1>10. /\ c \in Seq(RuntimeOperationSet) /\ Orderly(c) /\ ToSet(c) = C
       /\ j \in Seq(RuntimeOperationSet) /\ Orderly(j) /\ ToSet(j) = J
       /\ s \in Seq(RuntimeOperationSet) /\ Orderly(s) /\ ToSet(s) = R
       /\ m \in Seq(RuntimeOperationSet) /\ Orderly(m) /\ ToSet(m) = M
  BY <1>7, <1>8, <1>9, OfOneRank
<1>11. change.operations = c \o j \o s \o m
  BY <1>5
<1> HIDE DEF c, j, s, m
<1>12. /\ \A i \in DOMAIN c : c[i] \in C
       /\ \A i \in DOMAIN j : j[i] \in J
       /\ \A i \in DOMAIN s : s[i] \in R
       /\ \A i \in DOMAIN m : m[i] \in M
  BY <1>10 DEF ToSet
<1> DEFINE cj == c \o j  cjs == cj \o s
<1>13. /\ cj \in Seq(RuntimeOperationSet) /\ Orderly(cj) /\ ToSet(cj) = C \cup J
  <2>1. \A i \in DOMAIN c, k \in DOMAIN j : Rank(c[i]) < Rank(j[k])
    BY <1>9, <1>12
  <2>2. QED
    <3>1. /\ cj \in Seq(RuntimeOperationSet) /\ Orderly(cj)
          /\ ToSet(cj) = ToSet(c) \cup ToSet(j)
      BY <2>1, <1>10, OneAfterTheOther
    <3>2. QED
      BY <3>1, <1>10
<1>14. change.operations = cjs \o m
  BY <1>11
<1> HIDE DEF cj
<1>15. \A i \in DOMAIN cj : cj[i] \in C \cup J
  BY <1>13 DEF ToSet
<1>16. /\ cjs \in Seq(RuntimeOperationSet) /\ Orderly(cjs) /\ ToSet(cjs) = C \cup J \cup R
  <2>1. \A i \in DOMAIN cj, k \in DOMAIN s : Rank(cj[i]) < Rank(s[k])
    BY <1>9, <1>12, <1>15
  <2>2. QED
    BY <2>1, <1>10, <1>13, OneAfterTheOther
<1> HIDE DEF cjs
<1>17. \A i \in 1..Len(cjs) : cjs[i].kind # "manual"
  <2>1. \A i \in DOMAIN cjs : cjs[i] \in C \cup J \cup R
    BY <1>16 DEF ToSet
  <2>2. \A op \in C \cup J \cup R : op.kind # "manual"
    BY <1>1, <1>2, <1>3
  <2>3. DOMAIN cjs = 1..Len(cjs)
    BY <1>16
  <2>4. QED
    BY <2>1, <2>2, <2>3
<1>18. \A i \in 1..Len(m) : m[i].kind = "manual"
  <2>1. DOMAIN m = 1..Len(m)
    BY <1>10
  <2>2. QED
    BY <2>1, <1>4, <1>12
<1>19. executableOperations(change) = cjs
  BY <1>10, <1>14, <1>16, <1>17, <1>18, ManualsCutOff
<1>20. QED
  BY <1>6, <1>16, <1>19 DEF change

------------------------------------------------------------------------------

ApplierIInv ==
  /\ PlanOK(plan) /\ remove \in SUBSET Networks
  /\ docker \in DockerHosts /\ WellFormedHost(docker)
  /\ stage \in {"running", "failed", "done"}
  /\ pending \in Seq(RuntimeOperationSet) /\ Orderly(pending)
  /\ stage \in {"failed", "done"} => pending = <<>>
  /\ stage \in {"running", "done"} => ToSet(pending) = Outstanding(plan, docker, remove)

LEMMA ApplierStarts ==
  ASSUME ApplierInit
  PROVE  ApplierIInv
<1>1. PlanOK(plan)
  BY DEF ApplierInit, PlanOK, PlannedTopologies
<1>2. /\ pending \in Seq(RuntimeOperationSet) /\ Orderly(pending)
      /\ ToSet(pending) = Outstanding(plan, docker, remove)
  BY <1>1, ExecutesOutstanding DEF ApplierInit, Change
<1>3. QED
  BY <1>1, <1>2 DEF ApplierInit, ApplierIInv

(* The kinds of the operations that are outstanding.                        *)
LEMMA OutstandingIs ==
  ASSUME NEW p, PlanOK(p), NEW h \in DockerHosts, NEW r \in SUBSET Networks,
         NEW op \in Outstanding(p, h, r)
  PROVE  \/ op \in Creates(p, h) /\ op.kind = "create"
         \/ op \in Attaches(p, h) /\ op.kind \in {"attach", "alias"}
         \/ op \in Detaches(p, h) /\ op.kind = "detach"
         \/ op \in Removals(p, h, r) /\ op.kind = "remove"
BY DEF Outstanding, Creates, Attaches, Detaches, Removals, Op

(* What an operation on an attachment is of.                                *)
LEMMA AttachIsOf ==
  ASSUME NEW p, PlanOK(p), NEW h, NEW op \in Attaches(p, h)
  PROVE  \E c \in Containers, n \in Networks :
           /\ <<c, n>> \in Wanted(p) /\ c \in p.services /\ n \in p.networks
           /\ \/ op = Op("attach", c, n) /\ Present(h, c) /\ h.link[<<c, n>>] = "none"
              \/ op = Op("alias", c, n) /\ h.link[<<c, n>>] = "stale"
<1>1. PICK w \in Wanted(p) :
        \/ op = Op("attach", w[1], w[2]) /\ Present(h, w[1]) /\ h.link[w] = "none"
        \/ op = Op("alias", w[1], w[2]) /\ h.link[w] = "stale"
  BY DEF Attaches
<1>2. PICK c \in Containers, n \in Networks : w = <<c, n>>
  BY DEF Wanted, PlanOK
<1>3. w[1] = c /\ w[2] = n /\ c \in p.services /\ n \in p.networks
  BY <1>2 DEF Wanted
<1>4. QED
  BY <1>1, <1>2, <1>3

LEMMA DetachIsOf ==
  ASSUME NEW p, PlanOK(p), NEW h, NEW op \in Detaches(p, h)
  PROVE  \E c \in Containers, n \in Networks :
           /\ <<c, n>> \notin Wanted(p) /\ c \in p.services /\ n \in p.networks
           /\ op = Op("detach", c, n) /\ h.link[<<c, n>>] # "none"
           /\ isOwnedForTarget(p, h, c) /\ isOwnedForTarget(p, h, n)
<1>1. PICK w \in (p.services \X p.networks) \ Wanted(p) :
        /\ op = Op("detach", w[1], w[2]) /\ h.link[w] # "none"
        /\ isOwnedForTarget(p, h, w[1]) /\ isOwnedForTarget(p, h, w[2])
  BY DEF Detaches
<1>2. PICK c \in p.services, n \in p.networks : w = <<c, n>>
  OBVIOUS
<1>3. w[1] = c /\ w[2] = n /\ c \in Containers /\ n \in Networks
  BY <1>2 DEF PlanOK
<1>4. QED
  BY <1>1, <1>2, <1>3

(* The next operation is one that is outstanding; nothing is joined before  *)
(* every network has been created.                                          *)
LEMMA NextOutstanding ==
  ASSUME ApplierIInv, pending # <<>>
  PROVE  /\ stage = "running"
         /\ Head(pending) \in RuntimeOperationSet
         /\ Head(pending) \in Outstanding(plan, docker, remove)
         /\ Head(pending).kind # "create" => Creates(plan, docker) = {}
<1>1. stage = "running" /\ ToSet(pending) = Outstanding(plan, docker, remove)
  BY DEF ApplierIInv
<1>2. /\ pending \in Seq(RuntimeOperationSet) /\ 1 \in DOMAIN pending
      /\ Head(pending) = pending[1]
  BY DEF ApplierIInv
<1>3. ASSUME NEW op \in Creates(plan, docker) PROVE Head(pending).kind = "create"
  <2>1. op \in ToSet(pending) /\ op.kind = "create"
    BY <1>1 DEF Outstanding, Creates, Op
  <2>2. PICK i \in DOMAIN pending : pending[i] = op
    BY <2>1 DEF ToSet
  <2>3. i = 1 \/ 1 < i
    BY <1>2
  <2>4. Rank(pending[i]) = 1
    BY <2>1, <2>2 DEF Rank
  <2>5. 1 < i => Rank(pending[1]) <= 1
    BY <1>2, <2>4 DEF ApplierIInv, Orderly
  <2>6. QED
    BY <1>2, <2>1, <2>2, <2>3, <2>5 DEF Rank
<1>4. QED
  BY <1>1, <1>2, <1>3 DEF ToSet

(* What Docker makes of an operation of each kind.                          *)
LEMMA AcceptsKind ==
  ASSUME NEW h, NEW op
  PROVE  /\ op.kind = "create" => (Accepts(h, op) <=> ~Present(h, op.network))
         /\ op.kind = "attach" =>
              (Accepts(h, op) <=> /\ Present(h, op.container) /\ Present(h, op.network)
                                  /\ h.link[<<op.container, op.network>>] = "none")
         /\ op.kind = "alias" =>
              (Accepts(h, op) <=> Present(h, op.container) /\ Present(h, op.network))
         /\ op.kind = "detach" => (Accepts(h, op) <=> h.link[<<op.container, op.network>>] # "none")
         /\ op.kind = "remove" =>
              (Accepts(h, op) <=> Present(h, op.network) /\ Attached(h, op.network) = {})
<1>1. CASE op.kind = "create"
  BY <1>1 DEF Accepts
<1>2. CASE op.kind = "attach"
  BY <1>2 DEF Accepts
<1>3. CASE op.kind = "alias"
  BY <1>3 DEF Accepts
<1>4. CASE op.kind = "detach"
  BY <1>4 DEF Accepts
<1>5. CASE op.kind = "remove"
  BY <1>5 DEF Accepts
<1>6. QED
  BY <1>1, <1>2, <1>3, <1>4, <1>5

LEMMA ExecuteKind ==
  ASSUME NEW h, NEW op
  PROVE  /\ op.kind = "create" => Execute(h, op) = [h EXCEPT !.owner[op.network] = "ours"]
         /\ op.kind \in {"attach", "alias"} =>
              Execute(h, op) = [h EXCEPT !.link[<<op.container, op.network>>] = "current"]
         /\ op.kind = "detach" =>
              Execute(h, op) = [h EXCEPT !.link[<<op.container, op.network>>] = "none"]
         /\ op.kind = "remove" => Execute(h, op) = [h EXCEPT !.owner[op.network] = "absent"]
<1>1. CASE op.kind = "create"
  BY <1>1 DEF Execute
<1>2. CASE op.kind \in {"attach", "alias"}
  BY <1>2 DEF Execute
<1>3. CASE op.kind = "detach"
  BY <1>3 DEF Execute
<1>4. CASE op.kind = "remove"
  BY <1>4 DEF Execute
<1>5. QED
  BY <1>1, <1>2, <1>3, <1>4

(* So Docker accepts it.                                                    *)
LEMMA NextAccepted ==
  ASSUME ApplierIInv, pending # <<>>
  PROVE  Accepts(docker, Head(pending))
<1> DEFINE op == Head(pending)
<1>1. /\ op \in Outstanding(plan, docker, remove)
      /\ op.kind # "create" => Creates(plan, docker) = {}
      /\ PlanOK(plan) /\ docker \in DockerHosts /\ WellFormedHost(docker)
      /\ remove \in SUBSET Networks
  BY NextOutstanding DEF ApplierIInv
<1> SUFFICES Accepts(docker, op)
  OBVIOUS
<1> HIDE DEF op
<1>2. CASE op \in Creates(plan, docker)
  BY <1>2, AcceptsKind DEF Creates, Op
<1>3. CASE op \in Attaches(plan, docker)
  <2>1. PICK c \in Containers, n \in Networks :
          /\ n \in plan.networks
          /\ \/ /\ op = Op("attach", c, n)
                /\ Present(docker, c) /\ docker.link[<<c, n>>] = "none"
             \/ op = Op("alias", c, n) /\ docker.link[<<c, n>>] = "stale"
    BY <1>1, <1>3, AttachIsOf
  <2>2. Creates(plan, docker) = {}
    BY <1>1, <2>1 DEF Op
  <2>3. Present(docker, n)
    <3>1. ~Present(docker, n) => Op("create", NoName, n) \in Creates(plan, docker)
      BY <2>1 DEF Creates
    <3>2. QED
      BY <2>2, <3>1
  <2>4. docker.link[<<c, n>>] = "stale" => Present(docker, c)
    BY <1>1, <2>1 DEF WellFormedHost
  <2>5. QED
    BY <2>1, <2>3, <2>4, AcceptsKind DEF Op
<1>4. CASE op \in Detaches(plan, docker)
  <2>1. PICK c \in Containers, n \in Networks :
          /\ <<c, n>> \notin Wanted(plan) /\ c \in plan.services /\ n \in plan.networks
          /\ op = Op("detach", c, n) /\ docker.link[<<c, n>>] # "none"
          /\ isOwnedForTarget(plan, docker, c) /\ isOwnedForTarget(plan, docker, n)
    BY <1>1, <1>4, DetachIsOf
  <2>2. op.kind = "detach" /\ op.container = c /\ op.network = n
    BY <2>1 DEF Op
  <2>3. QED
    BY <2>1, <2>2, AcceptsKind
<1>5. CASE op \in Removals(plan, docker, remove)
  BY <1>5, AcceptsKind DEF Removals, Removable, Op
<1>6. QED
  BY <1>1, <1>2, <1>3, <1>4, <1>5 DEF Outstanding

------------------------------------------------------------------------------
(* Executing an operation.                                                  *)

(* A network that is created has no attachments, and nothing else depends   *)
(* on it.                                                                   *)
LEMMA CreateDone ==
  ASSUME NEW p, PlanOK(p), NEW h \in DockerHosts, WellFormedHost(h), NEW r \in SUBSET Networks,
         NEW op \in Creates(p, h), NEW g, g = Execute(h, op)
  PROVE  /\ g \in DockerHosts /\ WellFormedHost(g)
         /\ Creates(p, g) = Creates(p, h) \ {op} /\ Attaches(p, g) = Attaches(p, h)
         /\ Detaches(p, g) = Detaches(p, h) /\ Removals(p, g, r) = Removals(p, h, r)
<1>1. PICK n \in p.networks : ~Present(h, n) /\ op = Op("create", NoName, n)
  BY DEF Creates
<1>2. n \in Networks /\ n \notin Containers
  BY NamesDistinct DEF PlanOK
<1>3. g = [h EXCEPT !.owner[n] = "ours"]
  <2>1. op.kind = "create" /\ op.network = n
    BY <1>1 DEF Op
  <2>2. QED
    BY <2>1, ExecuteKind
<1>4. /\ g \in DockerHosts /\ g.link = h.link /\ g.owner[n] = "ours"
      /\ \A x \in Names : x # n => g.owner[x] = h.owner[x]
  BY <1>2, <1>3 DEF DockerHosts, Owners, Names
<1>5. /\ Present(g, n) /\ \A x \in Names : x # n => (Present(g, x) <=> Present(h, x))
      /\ \A x \in Names : x # n => (isOwnedForTarget(p, g, x) <=> isOwnedForTarget(p, h, x))
  BY <1>4 DEF Present, isOwnedForTarget
<1>6. \A c \in Containers : h.link[<<c, n>>] = "none" /\ c # n /\ c \in Names
  BY <1>1, <1>2 DEF WellFormedHost, Names
<1>7. WellFormedHost(g)
  BY <1>2, <1>4, <1>5, <1>6 DEF WellFormedHost, Names
<1>8. Creates(p, g) = Creates(p, h) \ {op}
  <2>1. p.networks \subseteq Names
    BY DEF PlanOK, Names
  <2>2. \A m \in p.networks : ~Present(g, m) <=> ~Present(h, m) /\ m # n
    BY <1>5, <2>1
  <2>3. \A m \in p.networks : Op("create", NoName, m) = op <=> m = n
    BY <1>1 DEF Op
  <2>4. QED
    BY <2>2, <2>3 DEF Creates
<1>9. Attaches(p, g) = Attaches(p, h)
  <2>1. \A w \in Wanted(p) : w[1] \in Containers
    BY DEF Wanted, PlanOK
  <2>2. \A w \in Wanted(p) : Present(g, w[1]) <=> Present(h, w[1])
    BY <2>1, <1>5, <1>6
  <2>3. QED
    BY <2>2, <1>4 DEF Attaches
<1>10. Detaches(p, g) = Detaches(p, h)
  <2>1. ASSUME NEW w \in p.services \X p.networks, h.link[w] # "none"
        PROVE  /\ isOwnedForTarget(p, g, w[1]) <=> isOwnedForTarget(p, h, w[1])
               /\ isOwnedForTarget(p, g, w[2]) <=> isOwnedForTarget(p, h, w[2])
    <3>1. PICK c \in p.services, m \in p.networks : w = <<c, m>>
      OBVIOUS
    <3>2. c \in Containers /\ m \in Networks /\ m # n
      BY <2>1, <3>1, <1>6 DEF PlanOK
    <3>3. m \in Names /\ w[1] = c /\ w[2] = m
      BY <3>1, <3>2 DEF Names
    <3>4. QED
      BY <3>2, <3>3, <1>5, <1>6
  <2>2. QED
    BY <2>1, <1>4 DEF Detaches
<1>11. Removals(p, g, r) = Removals(p, h, r)
  <2>1. \A m \in r \ p.networks : m # n /\ m \in Names
    BY DEF Names
  <2>2. Removable(p, g, r) = Removable(p, h, r)
    BY <2>1, <1>5 DEF Removable
  <2>3. \A m : Attached(g, m) = Attached(h, m)
    BY <1>4 DEF Attached
  <2>4. QED
    BY <2>2, <2>3 DEF Removals
<1>12. QED
  BY <1>4, <1>7, <1>8, <1>9, <1>10, <1>11

(* A network that is removed has none either, and is none of the plan's.    *)
LEMMA RemoveDone ==
  ASSUME NEW p, PlanOK(p), NEW h \in DockerHosts, WellFormedHost(h), NEW r \in SUBSET Networks,
         NEW op \in Removals(p, h, r), NEW g, g = Execute(h, op)
  PROVE  /\ g \in DockerHosts /\ WellFormedHost(g)
         /\ Creates(p, g) = Creates(p, h) /\ Attaches(p, g) = Attaches(p, h)
         /\ Detaches(p, g) = Detaches(p, h) /\ Removals(p, g, r) = Removals(p, h, r) \ {op}
<1>1. PICK n \in Removable(p, h, r) : Attached(h, n) = {} /\ op = Op("remove", NoName, n)
  BY DEF Removals
<1>2. n \in Networks /\ n \notin Containers /\ n \notin p.networks
  BY <1>1, NamesDistinct DEF Removable
<1>3. g = [h EXCEPT !.owner[n] = "absent"]
  <2>1. op.kind = "remove" /\ op.network = n
    BY <1>1 DEF Op
  <2>2. QED
    BY <2>1, ExecuteKind
<1>4. /\ g \in DockerHosts /\ g.link = h.link /\ g.owner[n] = "absent"
      /\ \A x \in Names : x # n => g.owner[x] = h.owner[x]
  BY <1>2, <1>3 DEF DockerHosts, Owners, Names
<1>5. /\ ~Present(g, n) /\ \A x \in Names : x # n => (Present(g, x) <=> Present(h, x))
      /\ \A x \in Names : x # n => (isOwnedForTarget(p, g, x) <=> isOwnedForTarget(p, h, x))
  BY <1>4 DEF Present, isOwnedForTarget
<1>6. \A c \in Containers : h.link[<<c, n>>] = "none" /\ c # n /\ c \in Names
  BY <1>1, <1>2 DEF Attached, Names
<1>7. WellFormedHost(g)
  BY <1>2, <1>4, <1>5, <1>6 DEF WellFormedHost, Names
<1>8. \A m \in p.networks : m # n /\ m \in Names
  BY <1>2 DEF PlanOK, Names
<1>9. Creates(p, g) = Creates(p, h)
  BY <1>5, <1>8 DEF Creates
<1>10. Attaches(p, g) = Attaches(p, h)
  <2>1. \A w \in Wanted(p) : w[1] \in Containers
    BY DEF Wanted, PlanOK
  <2>2. \A w \in Wanted(p) : Present(g, w[1]) <=> Present(h, w[1])
    BY <2>1, <1>5, <1>6
  <2>3. QED
    BY <2>2, <1>4 DEF Attaches
<1>11. Detaches(p, g) = Detaches(p, h)
  <2>1. ASSUME NEW w \in p.services \X p.networks
        PROVE  /\ isOwnedForTarget(p, g, w[1]) <=> isOwnedForTarget(p, h, w[1])
               /\ isOwnedForTarget(p, g, w[2]) <=> isOwnedForTarget(p, h, w[2])
    <3>1. w[1] \in Containers /\ w[2] \in p.networks
      BY DEF PlanOK
    <3>2. QED
      BY <3>1, <1>5, <1>6, <1>8
  <2>2. QED
    BY <2>1, <1>4 DEF Detaches
<1>12. Removals(p, g, r) = Removals(p, h, r) \ {op}
  <2>1. Removable(p, g, r) = Removable(p, h, r) \ {n}
    <3>1. r \subseteq Names
      BY DEF Names
    <3>2. QED
      BY <3>1, <1>5 DEF Removable
  <2>2. \A m : Attached(g, m) = Attached(h, m)
    BY <1>4 DEF Attached
  <2>3. \A m : Op("remove", NoName, m) = op <=> m = n
    BY <1>1 DEF Op
  <2>4. QED
    BY <2>1, <2>2, <2>3 DEF Removals
<1>13. QED
  BY <1>4, <1>7, <1>9, <1>10, <1>11, <1>12

(* A host of which one attachment of the plan's changes.                    *)
LEMMA LinkSet ==
  ASSUME NEW h \in DockerHosts, NEW c \in Containers, NEW n \in Networks, NEW link \in Links
  PROVE  LET g == [h EXCEPT !.link[<<c, n>>] = link]
         IN /\ g \in DockerHosts /\ g.owner = h.owner /\ g.link[<<c, n>>] = link
            /\ \A w \in Containers \X Networks : w # <<c, n>> => g.link[w] = h.link[w]
BY DEF DockerHosts

LEMMA LinkChanges ==
  ASSUME NEW p, PlanOK(p), NEW h \in DockerHosts, NEW r \in SUBSET Networks,
         NEW c \in Containers, NEW n \in p.networks, NEW g \in DockerHosts,
         g.owner = h.owner,
         \A w \in Containers \X Networks : w # <<c, n>> => g.link[w] = h.link[w]
  PROVE  /\ Creates(p, g) = Creates(p, h) /\ Removals(p, g, r) = Removals(p, h, r)
         /\ \A x : Present(g, x) <=> Present(h, x)
         /\ \A x : isOwnedForTarget(p, g, x) <=> isOwnedForTarget(p, h, x)
<1>1. /\ \A x : Present(g, x) <=> Present(h, x)
      /\ \A x : isOwnedForTarget(p, g, x) <=> isOwnedForTarget(p, h, x)
  BY DEF Present, isOwnedForTarget
<1>2. Creates(p, g) = Creates(p, h)
  BY <1>1 DEF Creates
<1>3. Removable(p, g, r) = Removable(p, h, r)
  BY <1>1 DEF Removable
<1>4. ASSUME NEW m \in Removable(p, h, r) PROVE Attached(g, m) = Attached(h, m)
  <2>1. m \in Networks /\ m # n
    BY DEF Removable
  <2>2. \A d \in Containers : g.link[<<d, m>>] = h.link[<<d, m>>]
    BY <2>1
  <2>3. QED
    BY <2>2 DEF Attached
<1>5. Removals(p, g, r) = Removals(p, h, r)
  BY <1>3, <1>4 DEF Removals
<1>6. QED
  BY <1>1, <1>2, <1>5

(* A container that has joined a network with every alias.                  *)
LEMMA AttachDone ==
  ASSUME NEW p, PlanOK(p), NEW h \in DockerHosts, WellFormedHost(h), NEW r \in SUBSET Networks,
         NEW op \in Attaches(p, h), Accepts(h, op), NEW g, g = Execute(h, op)
  PROVE  /\ g \in DockerHosts /\ WellFormedHost(g)
         /\ Creates(p, g) = Creates(p, h) /\ Attaches(p, g) = Attaches(p, h) \ {op}
         /\ Detaches(p, g) = Detaches(p, h) /\ Removals(p, g, r) = Removals(p, h, r)
<1>1. PICK c \in Containers, n \in Networks :
        /\ <<c, n>> \in Wanted(p) /\ c \in p.services /\ n \in p.networks
        /\ \/ op = Op("attach", c, n) /\ Present(h, c) /\ h.link[<<c, n>>] = "none"
           \/ op = Op("alias", c, n) /\ h.link[<<c, n>>] = "stale"
  BY AttachIsOf
<1>2. /\ op.kind \in {"attach", "alias"} /\ op.container = c /\ op.network = n
  BY <1>1 DEF Op
<1>3. g = [h EXCEPT !.link[<<c, n>>] = "current"]
  BY <1>2, ExecuteKind
<1>4. "current" \in Links /\ c \in p.services /\ n \in p.networks
  BY <1>1 DEF Links
<1>5. /\ g \in DockerHosts /\ g.owner = h.owner /\ g.link[<<c, n>>] = "current"
      /\ \A w \in Containers \X Networks : w # <<c, n>> => g.link[w] = h.link[w]
  BY <1>3, <1>4, LinkSet
<1>6. /\ g \in DockerHosts /\ g.owner = h.owner /\ g.link[<<c, n>>] = "current"
      /\ \A w \in Containers \X Networks : w # <<c, n>> => g.link[w] = h.link[w]
      /\ Creates(p, g) = Creates(p, h) /\ Removals(p, g, r) = Removals(p, h, r)
      /\ \A x : Present(g, x) <=> Present(h, x)
      /\ \A x : isOwnedForTarget(p, g, x) <=> isOwnedForTarget(p, h, x)
  BY <1>5, <1>4, LinkChanges
<1>7. Present(h, c) /\ Present(h, n)
  BY <1>2, AcceptsKind
<1>8. WellFormedHost(g)
  <2> SUFFICES ASSUME NEW d \in Containers, NEW m \in Networks, g.link[<<d, m>>] # "none"
               PROVE  Present(g, d) /\ Present(g, m)
    BY DEF WellFormedHost
  <2>1. CASE d = c /\ m = n
    BY <2>1, <1>6, <1>7
  <2>2. CASE ~(d = c /\ m = n)
    <3>1. h.link[<<d, m>>] # "none"
      BY <2>2, <1>6
    <3>2. QED
      BY <3>1, <1>6 DEF WellFormedHost
  <2>3. QED
    BY <2>1, <2>2
<1>9. Wanted(p) \subseteq Containers \X Networks
  BY DEF Wanted, PlanOK
<1>10. Attaches(p, g) = Attaches(p, h) \ {op}
  <2>1. \A o \in Attaches(p, g) : o \in Attaches(p, h) /\ o # op
    <3> SUFFICES ASSUME NEW o \in Attaches(p, g) PROVE o \in Attaches(p, h) /\ o # op
      OBVIOUS
    <3>1. PICK w \in Wanted(p) :
            \/ o = Op("attach", w[1], w[2]) /\ Present(g, w[1]) /\ g.link[w] = "none"
            \/ o = Op("alias", w[1], w[2]) /\ g.link[w] = "stale"
      BY DEF Attaches
    <3>2. w # <<c, n>> /\ w = <<w[1], w[2]>>
      BY <3>1, <1>6, <1>9
    <3>3. o.container = w[1] /\ o.network = w[2]
      BY <3>1 DEF Op
    <3>4. o # op
      BY <3>2, <3>3, <1>2
    <3>5. g.link[w] = h.link[w] /\ (Present(g, w[1]) <=> Present(h, w[1]))
      BY <3>2, <1>6, <1>9
    <3>6. o \in Attaches(p, h)
      BY <3>1, <3>5 DEF Attaches
    <3>7. QED
      BY <3>4, <3>6
  <2>2. ASSUME NEW o \in Attaches(p, h), o # op PROVE o \in Attaches(p, g)
    <3>1. PICK w \in Wanted(p) :
            \/ o = Op("attach", w[1], w[2]) /\ Present(h, w[1]) /\ h.link[w] = "none"
            \/ o = Op("alias", w[1], w[2]) /\ h.link[w] = "stale"
      BY DEF Attaches
    <3>2. w # <<c, n>>
      <4>1. CASE w = <<c, n>>
        <5>1. w[1] = c /\ w[2] = n
          BY <4>1
        <5>2. o = op
          BY <3>1, <4>1, <5>1, <1>1
        <5>3. QED
          BY <5>2, <2>2
      <4>2. QED
        BY <4>1
    <3>3. g.link[w] = h.link[w] /\ (Present(g, w[1]) <=> Present(h, w[1]))
      BY <3>2, <1>6, <1>9
    <3>4. QED
      BY <3>1, <3>3 DEF Attaches
  <2>3. QED
    BY <2>1, <2>2
<1>11. Detaches(p, g) = Detaches(p, h)
  <2>1. \A w \in (p.services \X p.networks) \ Wanted(p) : g.link[w] = h.link[w]
    BY <1>1, <1>6 DEF PlanOK
  <2>2. QED
    BY <2>1, <1>6 DEF Detaches
<1>12. QED
  BY <1>6, <1>8, <1>10, <1>11

(* A container that has left a network.                                     *)
LEMMA DetachDone ==
  ASSUME NEW p, PlanOK(p), NEW h \in DockerHosts, WellFormedHost(h), NEW r \in SUBSET Networks,
         NEW op \in Detaches(p, h), NEW g, g = Execute(h, op)
  PROVE  /\ g \in DockerHosts /\ WellFormedHost(g)
         /\ Creates(p, g) = Creates(p, h) /\ Attaches(p, g) = Attaches(p, h)
         /\ Detaches(p, g) = Detaches(p, h) \ {op} /\ Removals(p, g, r) = Removals(p, h, r)
<1>1. PICK c \in Containers, n \in Networks :
        /\ <<c, n>> \notin Wanted(p) /\ c \in p.services /\ n \in p.networks
        /\ op = Op("detach", c, n) /\ h.link[<<c, n>>] # "none"
        /\ isOwnedForTarget(p, h, c) /\ isOwnedForTarget(p, h, n)
  BY DetachIsOf
<1>2. op.kind = "detach" /\ op.container = c /\ op.network = n
  BY <1>1 DEF Op
<1>3. g = [h EXCEPT !.link[<<c, n>>] = "none"]
  BY <1>2, ExecuteKind
<1>4. "none" \in Links /\ c \in p.services /\ n \in p.networks
  BY <1>1 DEF Links
<1>5. /\ g \in DockerHosts /\ g.owner = h.owner /\ g.link[<<c, n>>] = "none"
      /\ \A w \in Containers \X Networks : w # <<c, n>> => g.link[w] = h.link[w]
      /\ Creates(p, g) = Creates(p, h) /\ Removals(p, g, r) = Removals(p, h, r)
      /\ \A x : Present(g, x) <=> Present(h, x)
      /\ \A x : isOwnedForTarget(p, g, x) <=> isOwnedForTarget(p, h, x)
  <2>1. /\ g \in DockerHosts /\ g.owner = h.owner /\ g.link[<<c, n>>] = "none"
        /\ \A w \in Containers \X Networks : w # <<c, n>> => g.link[w] = h.link[w]
    BY <1>3, <1>4, LinkSet
  <2>2. QED
    BY <2>1, <1>4, LinkChanges
<1>6. WellFormedHost(g)
  <2> SUFFICES ASSUME NEW d \in Containers, NEW m \in Networks, g.link[<<d, m>>] # "none"
               PROVE  Present(g, d) /\ Present(g, m)
    BY DEF WellFormedHost
  <2>1. h.link[<<d, m>>] # "none"
    BY <1>5
  <2>2. QED
    BY <2>1, <1>5 DEF WellFormedHost
<1>7. Attaches(p, g) = Attaches(p, h)
  <2>1. \A w \in Wanted(p) : g.link[w] = h.link[w]
    BY <1>1, <1>5 DEF Wanted, PlanOK
  <2>2. QED
    BY <2>1, <1>5 DEF Attaches
<1>8. Detaches(p, g) = Detaches(p, h) \ {op}
  <2> DEFINE S == (p.services \X p.networks) \ Wanted(p)
  <2>1. \A w \in S : w # <<c, n>> => g.link[w] = h.link[w]
    BY <1>5 DEF PlanOK
  <2>2. \A w \in S : Op("detach", w[1], w[2]) = op <=> w = <<c, n>>
    <3> SUFFICES ASSUME NEW w \in S PROVE Op("detach", w[1], w[2]) = op <=> w = <<c, n>>
      OBVIOUS
    <3>1. w = <<w[1], w[2]>>
      OBVIOUS
    <3>2. Op("detach", w[1], w[2]).container = w[1] /\ Op("detach", w[1], w[2]).network = w[2]
      BY DEF Op
    <3>3. QED
      BY <3>1, <3>2, <1>1, <1>2
  <2>3. QED
    BY <2>1, <2>2, <1>5 DEF Detaches
<1>9. QED
  BY <1>5, <1>6, <1>7, <1>8

(* What has been executed is outstanding no more, and nothing else changes. *)
LEMMA ExecutedIsDone ==
  ASSUME NEW p, PlanOK(p), NEW h \in DockerHosts, WellFormedHost(h), NEW r \in SUBSET Networks,
         NEW op \in Outstanding(p, h, r), Accepts(h, op), NEW g, g = Execute(h, op)
  PROVE  /\ g \in DockerHosts /\ WellFormedHost(g)
         /\ Outstanding(p, g, r) = Outstanding(p, h, r) \ {op}
<1>1. /\ \A o \in Creates(p, h) : o.kind = "create"
      /\ \A o \in Attaches(p, h) : o.kind \in {"attach", "alias"}
      /\ \A o \in Detaches(p, h) : o.kind = "detach"
      /\ \A o \in Removals(p, h, r) : o.kind = "remove"
  BY DEF Creates, Attaches, Detaches, Removals, Op
<1>2. CASE op \in Creates(p, h)
  <2>1. op \notin Attaches(p, h) /\ op \notin Detaches(p, h) /\ op \notin Removals(p, h, r)
    BY <1>1, <1>2
  <2>2. QED
    BY <1>2, <2>1, CreateDone DEF Outstanding
<1>3. CASE op \in Attaches(p, h)
  <2>1. op \notin Creates(p, h) /\ op \notin Detaches(p, h) /\ op \notin Removals(p, h, r)
    BY <1>1, <1>3
  <2>2. QED
    BY <1>3, <2>1, AttachDone DEF Outstanding
<1>4. CASE op \in Detaches(p, h)
  <2>1. op \notin Creates(p, h) /\ op \notin Attaches(p, h) /\ op \notin Removals(p, h, r)
    BY <1>1, <1>4
  <2>2. QED
    BY <1>4, <2>1, DetachDone DEF Outstanding
<1>5. CASE op \in Removals(p, h, r)
  <2>1. op \notin Creates(p, h) /\ op \notin Attaches(p, h) /\ op \notin Detaches(p, h)
    BY <1>1, <1>5
  <2>2. QED
    BY <1>5, <2>1, RemoveDone DEF Outstanding
<1>6. QED
  BY <1>2, <1>3, <1>4, <1>5 DEF Outstanding

(* What an interrupted operation leaves is a host as well.                  *)
LEMMA LeftBehindIsHost ==
  ASSUME ApplierIInv, pending # <<>>, NEW g \in LeftBehind(docker, Head(pending))
  PROVE  g \in DockerHosts /\ WellFormedHost(g)
<1> DEFINE op == Head(pending)
<1>1. /\ op \in Outstanding(plan, docker, remove) /\ Accepts(docker, op)
      /\ PlanOK(plan) /\ docker \in DockerHosts /\ WellFormedHost(docker)
      /\ remove \in SUBSET Networks
  BY NextOutstanding, NextAccepted DEF ApplierIInv
<1>2. \/ g = docker \/ g = Execute(docker, op)
      \/ op.kind = "alias" /\ g = [docker EXCEPT !.link[<<op.container, op.network>>] = "none"]
  BY DEF LeftBehind
<1> HIDE DEF op
<1>3. CASE g = Execute(docker, op)
  BY <1>1, <1>3, ExecutedIsDone
<1>4. CASE op.kind = "alias" /\ g = [docker EXCEPT !.link[<<op.container, op.network>>] = "none"]
  <2>1. \A c \in Containers, n \in Networks :
          g.link[<<c, n>>] # "none" => docker.link[<<c, n>>] # "none"
    BY <1>1, <1>4 DEF DockerHosts, Links
  <2>2. g \in DockerHosts /\ g.owner = docker.owner
    BY <1>1, <1>4 DEF DockerHosts, Links
  <2>3. QED
    BY <1>1, <2>1, <2>2 DEF WellFormedHost, Present
<1>5. QED
  BY <1>1, <1>2, <1>3, <1>4

(* The next operation leaves the list in order.                             *)
LEMMA TailOrderly ==
  ASSUME NEW s \in Seq(RuntimeOperationSet), s # <<>>, Orderly(s)
  PROVE  /\ Tail(s) \in Seq(RuntimeOperationSet) /\ Orderly(Tail(s))
         /\ ToSet(Tail(s)) = ToSet(s) \ {Head(s)}
<1> DEFINE t == Tail(s)
<1>1. /\ t \in Seq(RuntimeOperationSet) /\ Len(t) = Len(s) - 1 /\ Len(s) \in Nat \ {0}
      /\ \A i \in 1..Len(t) : t[i] = s[i + 1]
      /\ DOMAIN t = 1..Len(t) /\ DOMAIN s = 1..Len(s) /\ Head(s) = s[1]
  OBVIOUS
<1> HIDE DEF t
<1>2. \A i \in DOMAIN t : i + 1 \in DOMAIN s /\ t[i] = s[i + 1]
  BY <1>1
<1>3. Orderly(t)
  <2> SUFFICES ASSUME NEW i \in DOMAIN t, NEW j \in DOMAIN t, i < j
               PROVE  t[i] # t[j] /\ Rank(t[i]) <= Rank(t[j])
    BY DEF Orderly
  <2>1. i + 1 \in DOMAIN s /\ j + 1 \in DOMAIN s /\ i + 1 < j + 1
    BY <1>1, <1>2
  <2>2. s[i + 1] # s[j + 1] /\ Rank(s[i + 1]) <= Rank(s[j + 1])
    BY <2>1 DEF Orderly
  <2>3. QED
    BY <2>2, <1>2
<1>4. ASSUME NEW i \in DOMAIN t PROVE t[i] \in ToSet(s) \ {Head(s)}
  <2>1. i + 1 \in DOMAIN s /\ 1 \in DOMAIN s /\ 1 < i + 1
    BY <1>1
  <2>2. s[1] # s[i + 1]
    BY <2>1 DEF Orderly
  <2>3. QED
    BY <2>1, <2>2, <1>1, <1>2 DEF ToSet
<1>5. ASSUME NEW k \in DOMAIN s, s[k] # Head(s) PROVE s[k] \in ToSet(t)
  <2>1. k - 1 \in DOMAIN t /\ t[k - 1] = s[k]
    BY <1>1, <1>5
  <2>2. QED
    BY <2>1 DEF ToSet
<1>6. ToSet(t) = ToSet(s) \ {Head(s)}
  BY <1>4, <1>5 DEF ToSet
<1>7. QED
  BY <1>1, <1>3, <1>6 DEF t

LEMMA ApplierKeeps ==
  ASSUME ApplierIInv, [ApplierNext]_applierVars
  PROVE  ApplierIInv'
<1> USE DEF ApplierIInv
<1>1. CASE ExecuteNext
  <2>1. /\ Head(pending) \in Outstanding(plan, docker, remove) /\ stage = "running"
        /\ pending # <<>>
    BY <1>1, NextOutstanding DEF ExecuteNext
  <2>2. /\ docker' \in DockerHosts /\ WellFormedHost(docker')
        /\ Outstanding(plan, docker', remove) =
             Outstanding(plan, docker, remove) \ {Head(pending)}
    BY <1>1, <2>1, ExecutedIsDone DEF ExecuteNext
  <2>3. /\ Tail(pending) \in Seq(RuntimeOperationSet) /\ Orderly(Tail(pending))
        /\ ToSet(Tail(pending)) = ToSet(pending) \ {Head(pending)}
    BY <2>1, TailOrderly
  <2>4. plan' = plan /\ remove' = remove /\ stage' = stage /\ pending' = Tail(pending)
    BY <1>1 DEF ExecuteNext
  <2>5. QED
    BY <2>1, <2>2, <2>3, <2>4
<1>2. CASE FailNext
  <2>1. docker' \in DockerHosts /\ WellFormedHost(docker')
    BY <1>2, LeftBehindIsHost DEF FailNext
  <2>2. /\ plan' = plan /\ remove' = remove /\ stage' = "failed" /\ pending' = <<>>
    BY <1>2 DEF FailNext
  <2>3. Orderly(<<>>) /\ <<>> \in Seq(RuntimeOperationSet)
    BY DEF Orderly
  <2>4. QED
    BY <2>1, <2>2, <2>3
<1>3. CASE Finish
  BY <1>3 DEF Finish
<1>4. CASE ApplyAgain
  <2>1. /\ pending' \in Seq(RuntimeOperationSet) /\ Orderly(pending')
        /\ ToSet(pending') = Outstanding(plan, docker, remove)
    BY <1>4, ExecutesOutstanding DEF ApplyAgain, Change
  <2>2. plan' = plan /\ remove' = remove /\ docker' = docker /\ stage' = "running"
    BY <1>4 DEF ApplyAgain
  <2>3. QED
    BY <2>1, <2>2
<1>5. CASE UNCHANGED applierVars
  BY <1>5 DEF applierVars
<1>6. QED
  BY <1>1, <1>2, <1>3, <1>4, <1>5 DEF ApplierNext

(* Wherever an apply of whatever plan to whatever host is interrupted,      *)
(* another can finish it: Docker accepts every operation when its turn      *)
(* comes, and a new preview lists exactly what is left.                     *)
THEOREM AppliesCanBeFinished == ApplierSpec => []ApplyCanBeFinished
<1>1. ApplierInit => ApplierIInv
  BY ApplierStarts
<1>2. ApplierIInv /\ [ApplierNext]_applierVars => ApplierIInv'
  BY ApplierKeeps
<1>3. ApplierIInv => ApplyCanBeFinished
  <2> SUFFICES ASSUME ApplierIInv PROVE ApplyCanBeFinished
    OBVIOUS
  <2>1. EveryOperationAccepted
    BY NextAccepted DEF EveryOperationAccepted
  <2>2. ToSet(executableOperations(Change)) = Outstanding(plan, docker, remove)
    BY ExecutesOutstanding DEF ApplierIInv, Change
  <2>3. RetryIsRemainder
    BY <2>2 DEF RetryIsRemainder, ApplierIInv
  <2>4. QED
    BY <2>1, <2>3 DEF ApplyCanBeFinished
<1>4. QED
  BY <1>1, <1>2, <1>3, PTL DEF ApplierSpec

------------------------------------------------------------------------------
(* The report.                                                              *)

(* What an apply does about a difference of each kind.                      *)
LEMMA ResolutionKind ==
  ASSUME NEW p, NEW h, NEW r, NEW e
  PROVE  /\ e.id = "network.missing" =>
              Resolution(p, h, r, e) = {Op("create", NoName, e.network)}
         /\ e.id = "container.network.missing" =>
              Resolution(p, h, r, e) = {Op("attach", e.container, e.network)}
         /\ e.id = "container.alias.missing" =>
              Resolution(p, h, r, e) = {Op("alias", e.container, e.network)}
         /\ e.id = "container.network.unexpected" =>
              Resolution(p, h, r, e) =
                IF e.network \in p.networks /\ isOwnedForTarget(p, h, e.network)
                THEN {Op("detach", e.container, e.network)} ELSE {}
         /\ e.id = "network.unexpected" =>
              Resolution(p, h, r, e) =
                IF e.network \in r /\ Attached(h, e.network) = {}
                THEN {Op("remove", NoName, e.network)} ELSE {}
         /\ e.id \in {"conflict", "container.missing", "container.unexpected"} =>
              Resolution(p, h, r, e) = {}
<1>1. CASE e.id = "network.missing"
  BY <1>1 DEF Resolution
<1>2. CASE e.id = "container.network.missing"
  BY <1>2 DEF Resolution
<1>3. CASE e.id = "container.alias.missing"
  BY <1>3 DEF Resolution
<1>4. CASE e.id = "container.network.unexpected"
  BY <1>4 DEF Resolution
<1>5. CASE e.id = "network.unexpected"
  BY <1>5 DEF Resolution
<1>6. CASE e.id \in {"conflict", "container.missing", "container.unexpected"}
  BY <1>6 DEF Resolution
<1>7. QED
  BY <1>1, <1>2, <1>3, <1>4, <1>5, <1>6

Resolved(p, h, r) == UNION {Resolution(p, h, r, e) : e \in detectRuntimeDrift(p, h)}

(* Every difference with a resolution is outstanding.                       *)
LEMMA ReportedIsOutstanding ==
  ASSUME NEW p, PlanOK(p), NEW h \in DockerHosts, WellFormedHost(h), NEW r \in SUBSET Networks,
         NEW e \in detectRuntimeDrift(p, h), NEW op \in Resolution(p, h, r, e)
  PROVE  /\ op \in Outstanding(p, h, r)
         /\ ~(op.kind = "detach" /\ op.container \in p.composed)
<1>1. \/ e \in ownershipEntries(p, h) \/ e \in compareNetworkResources(p, h)
      \/ \E c \in p.services : e \in compareService(p, h, c)
      \/ e \in unexpectedResources(p, h)
  <2>1. p.mode # "legacy"
    BY DEF PlanOK
  <2>2. detectRuntimeDrift(p, h) =
          ownershipEntries(p, h) \cup compareNetworkResources(p, h)
            \cup (UNION {compareService(p, h, c) : c \in p.services})
            \cup unexpectedResources(p, h)
    BY <2>1 DEF detectRuntimeDrift
  <2>3. e \in UNION {compareService(p, h, c) : c \in p.services} =>
          \E c \in p.services : e \in compareService(p, h, c)
    OBVIOUS
  <2>4. QED
    BY <2>2, <2>3
<1>2. CASE e \in ownershipEntries(p, h)
  <2>1. e.id = "conflict"
    BY <1>2 DEF ownershipEntries, Entry
  <2>2. QED
    BY <2>1, ResolutionKind
<1>3. CASE e \in compareNetworkResources(p, h)
  <2>1. PICK n \in p.networks : ~Present(h, n) /\ e = Entry("network.missing", NoName, n)
    BY <1>3 DEF compareNetworkResources
  <2>2. e.id = "network.missing" /\ e.network = n
    BY <2>1 DEF Entry
  <2>3. op = Op("create", NoName, n)
    BY <2>2, ResolutionKind
  <2>4. op \in Creates(p, h) /\ op.kind = "create"
    BY <2>1, <2>3 DEF Creates, Op
  <2>5. QED
    BY <2>4 DEF Outstanding
<1>4. ASSUME NEW c \in p.services, e \in compareService(p, h, c)
      PROVE  /\ op \in Outstanding(p, h, r)
             /\ ~(op.kind = "detach" /\ op.container \in p.composed)
  <2>1. CASE ~Present(h, c)
    <3>1. e.id = "container.missing"
      BY <1>4, <2>1 DEF compareService, Entry
    <3>2. QED
      BY <3>1, ResolutionKind
  <2>2. CASE Present(h, c)
    <3> DEFINE desired == {n \in Networks : <<c, n>> \in Wanted(p)}
    <3>1. \/ \E n \in desired : /\ h.link[<<c, n>>] = "none"
                                /\ e = Entry("container.network.missing", c, n)
          \/ \E n \in desired : /\ h.link[<<c, n>>] = "stale"
                                /\ e = Entry("container.alias.missing", c, n)
          \/ \E n \in Networks \ desired :
               /\ isOwnedByTarget(p, h, c) /\ c \notin p.composed
               /\ h.link[<<c, n>>] # "none"
               /\ e = Entry("container.network.unexpected", c, n)
      BY <1>4, <2>2 DEF compareService, compareNetworks
    <3>2. ASSUME NEW n \in desired, h.link[<<c, n>>] = "none",
                 e = Entry("container.network.missing", c, n)
          PROVE  op \in Attaches(p, h) /\ op.kind = "attach"
      <4>1. op = Op("attach", c, n)
        <5>1. e.id = "container.network.missing" /\ e.container = c /\ e.network = n
          BY <3>2 DEF Entry
        <5>2. QED
          BY <5>1, ResolutionKind
      <4>2. <<c, n>> \in Wanted(p) /\ <<c, n>>[1] = c /\ <<c, n>>[2] = n
        OBVIOUS
      <4>3. QED
        BY <4>1, <4>2, <3>2, <2>2 DEF Attaches, Op
    <3>3. ASSUME NEW n \in desired, h.link[<<c, n>>] = "stale",
                 e = Entry("container.alias.missing", c, n)
          PROVE  op \in Attaches(p, h) /\ op.kind = "alias"
      <4>1. op = Op("alias", c, n)
        <5>1. e.id = "container.alias.missing" /\ e.container = c /\ e.network = n
          BY <3>3 DEF Entry
        <5>2. QED
          BY <5>1, ResolutionKind
      <4>2. <<c, n>> \in Wanted(p) /\ <<c, n>>[1] = c /\ <<c, n>>[2] = n
        OBVIOUS
      <4>3. QED
        BY <4>1, <4>2, <3>3 DEF Attaches, Op
    <3>4. ASSUME NEW n \in Networks \ desired, isOwnedByTarget(p, h, c), c \notin p.composed,
                 h.link[<<c, n>>] # "none", e = Entry("container.network.unexpected", c, n)
          PROVE  op \in Detaches(p, h) /\ op.container \notin p.composed
      <4>1. op = Op("detach", c, n) /\ n \in p.networks /\ isOwnedForTarget(p, h, n)
        <5>1. e.id = "container.network.unexpected" /\ e.container = c /\ e.network = n
          BY <3>4 DEF Entry
        <5>2. QED
          BY <5>1, ResolutionKind
      <4>2. <<c, n>> \in (p.services \X p.networks) \ Wanted(p)
        BY <4>1, <3>4
      <4>3. isOwnedForTarget(p, h, c)
        BY <3>4 DEF isOwnedByTarget, isOwnedForTarget
      <4>4. <<c, n>>[1] = c /\ <<c, n>>[2] = n
        OBVIOUS
      <4>5. op \in Detaches(p, h)
        BY <4>1, <4>2, <4>3, <4>4, <3>4 DEF Detaches
      <4>6. op.container = c
        BY <4>1 DEF Op
      <4>7. QED
        BY <4>5, <4>6, <3>4
    <3> HIDE DEF desired
    <3>5. QED
      BY <3>1, <3>2, <3>3, <3>4 DEF Outstanding
  <2>3. QED
    BY <2>1, <2>2
<1>5. CASE e \in unexpectedResources(p, h)
  <2>1. \/ \E c : e = Entry("container.unexpected", c, NoName)
        \/ \E n \in Networks \ p.networks :
             /\ Present(h, n) /\ isOwnedByTarget(p, h, n)
             /\ e = Entry("network.unexpected", NoName, n)
    BY <1>5 DEF unexpectedResources
  <2>2. ASSUME NEW c, e = Entry("container.unexpected", c, NoName) PROVE FALSE
    <3>1. e.id = "container.unexpected"
      BY <2>2 DEF Entry
    <3>2. QED
      BY <3>1, ResolutionKind
  <2>3. ASSUME NEW n \in Networks \ p.networks, Present(h, n), isOwnedByTarget(p, h, n),
               e = Entry("network.unexpected", NoName, n)
        PROVE  op \in Removals(p, h, r) /\ op.kind = "remove"
    <3>1. e.id = "network.unexpected" /\ e.network = n
      BY <2>3 DEF Entry
    <3>2. op = Op("remove", NoName, n) /\ n \in r /\ Attached(h, n) = {}
      BY <3>1, ResolutionKind
    <3>3. isOwnedForTarget(p, h, n)
      BY <2>3 DEF isOwnedByTarget, isOwnedForTarget
    <3>4. QED
      BY <2>3, <3>2, <3>3 DEF Removals, Removable, Op
  <2>4. QED
    BY <2>1, <2>2, <2>3 DEF Outstanding
<1>6. QED
  <2>1. (\E c \in p.services : e \in compareService(p, h, c)) =>
          /\ op \in Outstanding(p, h, r)
          /\ ~(op.kind = "detach" /\ op.container \in p.composed)
    BY <1>4
  <2>2. QED
    BY <2>1, <1>1, <1>2, <1>3, <1>5

(* And what is outstanding resolves a difference that is reported, unless   *)
(* it detaches a container whose application writes its own Compose file.   *)
LEMMA OutstandingIsReported ==
  ASSUME NEW p, PlanOK(p), NEW h \in DockerHosts, WellFormedHost(h), NEW r \in SUBSET Networks,
         NEW op \in Outstanding(p, h, r), ~(op.kind = "detach" /\ op.container \in p.composed)
  PROVE  \E e \in detectRuntimeDrift(p, h) : op \in Resolution(p, h, r, e)
<1>1. detectRuntimeDrift(p, h) =
        ownershipEntries(p, h) \cup compareNetworkResources(p, h)
          \cup (UNION {compareService(p, h, c) : c \in p.services})
          \cup unexpectedResources(p, h)
  BY DEF detectRuntimeDrift, PlanOK
<1>2. CASE op \in Creates(p, h)
  <2>1. PICK n \in p.networks : ~Present(h, n) /\ op = Op("create", NoName, n)
    BY <1>2 DEF Creates
  <2> DEFINE e == Entry("network.missing", NoName, n)
  <2>2. e \in compareNetworkResources(p, h)
    BY <2>1 DEF compareNetworkResources
  <2>3. e.id = "network.missing" /\ e.network = n
    BY DEF Entry
  <2> HIDE DEF e
  <2>4. op \in Resolution(p, h, r, e)
    BY <2>1, <2>3, ResolutionKind
  <2>5. QED
    BY <1>1, <2>2, <2>4
<1>3. CASE op \in Attaches(p, h)
  <2>1. PICK c \in Containers, n \in Networks :
          /\ <<c, n>> \in Wanted(p) /\ c \in p.services /\ n \in p.networks
          /\ \/ op = Op("attach", c, n) /\ Present(h, c) /\ h.link[<<c, n>>] = "none"
             \/ op = Op("alias", c, n) /\ h.link[<<c, n>>] = "stale"
    BY <1>3, AttachIsOf
  <2>2. Present(h, c)
    BY <2>1 DEF WellFormedHost
  <2>3. CASE op = Op("attach", c, n) /\ h.link[<<c, n>>] = "none"
    <3> DEFINE e == Entry("container.network.missing", c, n)
    <3>1. e \in compareService(p, h, c)
      BY <2>1, <2>2, <2>3 DEF compareService, compareNetworks
    <3>2. e.id = "container.network.missing" /\ e.container = c /\ e.network = n
      BY DEF Entry
    <3> HIDE DEF e
    <3>3. op \in Resolution(p, h, r, e)
      BY <2>3, <3>2, ResolutionKind
    <3>4. QED
      BY <1>1, <2>1, <3>1, <3>3
  <2>4. CASE op = Op("alias", c, n) /\ h.link[<<c, n>>] = "stale"
    <3> DEFINE e == Entry("container.alias.missing", c, n)
    <3>1. e \in compareService(p, h, c)
      BY <2>1, <2>2, <2>4 DEF compareService, compareNetworks
    <3>2. e.id = "container.alias.missing" /\ e.container = c /\ e.network = n
      BY DEF Entry
    <3> HIDE DEF e
    <3>3. op \in Resolution(p, h, r, e)
      BY <2>4, <3>2, ResolutionKind
    <3>4. QED
      BY <1>1, <2>1, <3>1, <3>3
  <2>5. QED
    BY <2>1, <2>3, <2>4
<1>4. CASE op \in Detaches(p, h)
  <2>1. PICK c \in Containers, n \in Networks :
          /\ <<c, n>> \notin Wanted(p) /\ c \in p.services /\ n \in p.networks
          /\ op = Op("detach", c, n) /\ h.link[<<c, n>>] # "none"
          /\ isOwnedForTarget(p, h, c) /\ isOwnedForTarget(p, h, n)
    BY <1>4, DetachIsOf
  <2>2. op.kind = "detach" /\ op.container = c
    BY <2>1 DEF Op
  <2>3. Present(h, c) /\ c \notin p.composed /\ isOwnedByTarget(p, h, c)
    BY <2>1, <2>2 DEF WellFormedHost, isOwnedByTarget, isOwnedForTarget
  <2> DEFINE e == Entry("container.network.unexpected", c, n)
  <2>4. e \in compareService(p, h, c)
    BY <2>1, <2>3 DEF compareService, compareNetworks
  <2>5. e.id = "container.network.unexpected" /\ e.container = c /\ e.network = n
    BY DEF Entry
  <2> HIDE DEF e
  <2>6. op \in Resolution(p, h, r, e)
    BY <2>1, <2>5, ResolutionKind
  <2>7. QED
    BY <1>1, <2>1, <2>4, <2>6
<1>5. CASE op \in Removals(p, h, r)
  <2>1. PICK n \in Removable(p, h, r) : Attached(h, n) = {} /\ op = Op("remove", NoName, n)
    BY <1>5 DEF Removals
  <2>2. /\ n \in Networks \ p.networks /\ n \in r
        /\ Present(h, n) /\ isOwnedByTarget(p, h, n)
    BY <2>1 DEF Removable, isOwnedByTarget, isOwnedForTarget
  <2> DEFINE e == Entry("network.unexpected", NoName, n)
  <2>3. e \in unexpectedResources(p, h)
    BY <2>2 DEF unexpectedResources
  <2>4. e.id = "network.unexpected" /\ e.network = n
    BY DEF Entry
  <2> HIDE DEF e
  <2>5. Resolution(p, h, r, e) = {Op("remove", NoName, n)}
    BY <2>1, <2>2, <2>4, ResolutionKind
  <2>6. op \in Resolution(p, h, r, e)
    BY <2>1, <2>5
  <2>7. QED
    BY <1>1, <2>3, <2>6
<1>6. QED
  BY <1>2, <1>3, <1>4, <1>5 DEF Outstanding

(* The report and the change say the same, although they are computed       *)
(* independently: whatever the plan, the host and the moment of an apply.   *)
THEOREM ReportMatchesOperations == ApplierSpec => []OperationsReported
<1>1. ApplierInit => ApplierIInv
  BY ApplierStarts
<1>2. ApplierIInv /\ [ApplierNext]_applierVars => ApplierIInv'
  BY ApplierKeeps
<1>3. ApplierIInv => OperationsReported
  <2> SUFFICES ASSUME ApplierIInv, stage \in {"running", "done"}
               PROVE  Resolved(plan, docker, remove) =
                        {op \in ToSet(pending) :
                           ~(op.kind = "detach" /\ op.container \in plan.composed)}
    BY DEF OperationsReported, Resolved
  <2>1. /\ PlanOK(plan) /\ docker \in DockerHosts /\ WellFormedHost(docker)
        /\ remove \in SUBSET Networks /\ ToSet(pending) = Outstanding(plan, docker, remove)
    BY DEF ApplierIInv
  <2>2. \A op \in Resolved(plan, docker, remove) :
          /\ op \in Outstanding(plan, docker, remove)
          /\ ~(op.kind = "detach" /\ op.container \in plan.composed)
    BY <2>1, ReportedIsOutstanding DEF Resolved
  <2>3. \A op \in Outstanding(plan, docker, remove) :
          ~(op.kind = "detach" /\ op.container \in plan.composed) =>
            op \in Resolved(plan, docker, remove)
    BY <2>1, OutstandingIsReported DEF Resolved
  <2>4. QED
    BY <2>1, <2>2, <2>3
<1>4. QED
  BY <1>1, <1>2, <1>3, PTL DEF ApplierSpec

------------------------------------------------------------------------------
(* What is somebody else's.                                                 *)

ForeignKept(p, h, g) ==
  /\ \A name \in Names :
       ~isOwnedForTarget(p, h, name) /\ Present(h, name) =>
         g.owner[name] = h.owner[name]
  /\ \A c \in Containers, n \in Networks :
       /\ h.link[<<c, n>>] = "current"
       /\ ~isOwnedForTarget(p, h, c) \/ ~isOwnedForTarget(p, h, n)
       => g.link[<<c, n>>] # "none"

LEMMA LinkIsSet ==
  ASSUME NEW h \in DockerHosts, NEW c \in Containers, NEW n \in Networks, NEW link,
         NEW g, g = h \/ g = [h EXCEPT !.link[<<c, n>>] = link]
  PROVE  /\ g.owner = h.owner
         /\ \A w \in Containers \X Networks : w # <<c, n>> => g.link[w] = h.link[w]
BY DEF DockerHosts

LEMMA NextKeepsForeign ==
  ASSUME NEW p, PlanOK(p), NEW h \in DockerHosts, NEW r \in SUBSET Networks,
         NEW op \in Outstanding(p, h, r), NEW g \in LeftBehind(h, op)
  PROVE  ForeignKept(p, h, g)
<1>1. /\ op \in Outstanding(p, h, r)
      /\ PlanOK(p) /\ h \in DockerHosts /\ r \in SUBSET Networks
  OBVIOUS
<1>2. \/ g = h \/ g = Execute(h, op)
      \/ op.kind = "alias" /\ g = [h EXCEPT !.link[<<op.container, op.network>>] = "none"]
  BY DEF LeftBehind
<1>3. CASE op \in Creates(p, h)
  <2>1. PICK m \in p.networks : ~Present(h, m) /\ op = Op("create", NoName, m)
    BY <1>3 DEF Creates
  <2>2. op.kind = "create" /\ op.network = m
    BY <2>1 DEF Op
  <2>3. g = h \/ g = [h EXCEPT !.owner[m] = "ours"]
    BY <1>2, <2>2, ExecuteKind
  <2>4. \A name \in Names : name # m => g.owner[name] = h.owner[name]
    BY <1>1, <2>3 DEF DockerHosts
  <2>5. g.link = h.link
    BY <1>1, <2>3 DEF DockerHosts
  <2>6. \A name \in Names : Present(h, name) => g.owner[name] = h.owner[name]
    BY <2>1, <2>4
  <2>7. \A d \in Containers, k \in Networks :
          h.link[<<d, k>>] = "current" => g.link[<<d, k>>] # "none"
    BY <2>5
  <2>8. QED
    BY SMTT(30), <2>6, <2>7 DEF ForeignKept
<1>4. CASE op \in Attaches(p, h)
  <2>1. PICK d \in Containers, m \in Networks :
          /\ <<d, m>> \in Wanted(p) /\ d \in p.services /\ m \in p.networks
          /\ \/ op = Op("attach", d, m) /\ Present(h, d) /\ h.link[<<d, m>>] = "none"
             \/ op = Op("alias", d, m) /\ h.link[<<d, m>>] = "stale"
    BY SMTT(60), <1>4, AttachIsOf
  <2>2. op.kind \in {"attach", "alias"} /\ op.container = d /\ op.network = m
    BY <2>1 DEF Op
  <2>3. \/ g = h
        \/ g = [h EXCEPT !.link[<<d, m>>] = "current"]
        \/ g = [h EXCEPT !.link[<<d, m>>] = "none"]
    BY <1>2, <2>2, ExecuteKind
  <2>4. /\ g.owner = h.owner
        /\ \A w \in Containers \X Networks : w # <<d, m>> => g.link[w] = h.link[w]
    BY <2>3, LinkIsSet
  <2>5. h.link[<<d, m>>] # "current"
    BY <2>1
  <2>6. \A c \in Containers, n \in Networks :
          h.link[<<c, n>>] = "current" => g.link[<<c, n>>] = "current"
    BY <2>4, <2>5
  <2>7. QED
    BY <2>4, <2>6 DEF ForeignKept
<1>5. CASE op \in Detaches(p, h)
  <2>1. PICK d \in Containers, m \in Networks :
          /\ <<d, m>> \notin Wanted(p) /\ d \in p.services /\ m \in p.networks
          /\ op = Op("detach", d, m) /\ h.link[<<d, m>>] # "none"
          /\ isOwnedForTarget(p, h, d) /\ isOwnedForTarget(p, h, m)
    BY <1>5, DetachIsOf
  <2>2. op.kind = "detach" /\ op.container = d /\ op.network = m
    BY <2>1 DEF Op
  <2>3. g = h \/ g = [h EXCEPT !.link[<<d, m>>] = "none"]
    BY <1>2, <2>2, ExecuteKind
  <2>4. /\ g.owner = h.owner
        /\ \A w \in Containers \X Networks : w # <<d, m>> => g.link[w] = h.link[w]
    BY <2>3, LinkIsSet
  <2>5. QED
    BY <2>1, <2>4 DEF ForeignKept
<1>6. CASE op \in Removals(p, h, r)
  <2>1. PICK m \in Removable(p, h, r) : op = Op("remove", NoName, m)
    BY <1>6 DEF Removals
  <2>2. op.kind = "remove" /\ op.network = m
    BY <2>1 DEF Op
  <2>3. g = h \/ g = [h EXCEPT !.owner[m] = "absent"]
    BY <1>2, <2>2, ExecuteKind
  <2>4. \A name \in Names : name # m => g.owner[name] = h.owner[name]
    BY <1>1, <2>3 DEF DockerHosts
  <2>5. g.link = h.link
    BY <1>1, <2>3 DEF DockerHosts
  <2>6. isOwnedForTarget(p, h, m)
    BY <2>1 DEF Removable
  <2>7. QED
    BY <2>4, <2>5, <2>6 DEF ForeignKept
<1>7. QED
  BY <1>1, <1>3, <1>4, <1>5, <1>6 DEF Outstanding

(* An apply of whatever plan to whatever host, cut off anywhere, removes no *)
(* network of somebody else, and ends no attachment of or to something of   *)
(* somebody else that has every alias the plan wants.                       *)
THEOREM AppliesKeepForeign == ApplierSpec => ForeignUntouched
<1>1. ApplierInit => ApplierIInv
  BY ApplierStarts
<1>2. ApplierIInv /\ [ApplierNext]_applierVars => ApplierIInv'
  BY ApplierKeeps
<1>3. ASSUME ApplierIInv, [ApplierNext]_applierVars
      PROVE  docker' = docker \/ ForeignKept(plan, docker, docker')
  <2>1. CASE ExecuteNext
    <3>1. pending # <<>> /\ docker' \in LeftBehind(docker, Head(pending))
      BY <2>1 DEF ExecuteNext, LeftBehind
    <3>2. QED
      BY <1>3, <3>1, NextOutstanding, NextKeepsForeign DEF ApplierIInv
  <2>2. CASE FailNext
    <3>1. pending # <<>> /\ docker' \in LeftBehind(docker, Head(pending))
      BY <2>2 DEF FailNext
    <3>2. QED
      BY <1>3, <3>1, NextOutstanding, NextKeepsForeign DEF ApplierIInv
  <2>3. CASE Finish \/ ApplyAgain \/ UNCHANGED applierVars
    BY <2>3 DEF Finish, ApplyAgain, applierVars
  <2>4. QED
    BY <1>3, <2>1, <2>2, <2>3 DEF ApplierNext
<1>4. ASSUME docker' = docker \/ ForeignKept(plan, docker, docker')
      PROVE  /\ \A name \in Names :
                  ~isOwnedForTarget(plan, docker, name) /\ Present(docker, name) =>
                    docker'.owner[name] = docker.owner[name]
             /\ \A c \in Containers, n \in Networks :
                  /\ docker.link[<<c, n>>] = "current"
                  /\ ~isOwnedForTarget(plan, docker, c) \/ ~isOwnedForTarget(plan, docker, n)
                  => docker'.link[<<c, n>>] # "none"
  BY <1>4 DEF ForeignKept
<1>5. QED
  BY <1>1, <1>2, <1>3, <1>4, PTL DEF ApplierSpec, ForeignUntouched
==============================================================================
