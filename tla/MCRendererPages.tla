------------------------- MODULE MCRendererPages -------------------------
(***************************************************************************)
(* Small instances of the renderer's pages.  As in MCHostComponents, a     *)
(* behaviour is one of a single page, its subject.  RendererPages.cfg      *)
(* gives the runtime page two servers that are alike; the workspace two    *)
(* projects, two calls under way, and one transition that fails; the       *)
(* Infrastructure page a plan, the plan without resources, and two visits; *)
(* the Ansible page two rows and two hosts they may be of.                 *)
(***************************************************************************)
EXTENDS Naturals, RuntimePage, WorkspacePages, InfrastructurePage, AnsiblePage,
        CloudflareConsole

CONSTANTS h1, h2, opc, t1, t2, p1, p2, z1, z2, r1, r2, k1, k2, d1, d2

VARIABLE subject

rendererVars ==
  <<subject, ansibleVars, runtimePageVars, workspacePagesVars, infrastructurePageVars,
    consoleVars>>

------------------------------------------------------------------------------
(* The instances.                                                            *)

\* A change removes one network before the server changed and another after.
RemovesOne == [h \in 0 .. 1 |-> IF h = 0 THEN {"old"} ELSE {"older"}]

\* The Ansible page while others edit the one target, which the page promises less about.
Crowded ==
  INSTANCE AnsiblePage WITH
    Hosts <- {h1, h2}, Logins <- {opc}, DefaultLogin <- opc, VpsTargets <- {t1},
    Profiles <- {"nginx"}, Secretive <- {}, ConfiguredHosts <- {}, MaxMutations <- 1

\* Both records are of the first zone, one of them is added there.
InFirstZone == [r \in {r1, r2} |-> z1]

\* The tabs of rules: one redirect, and one more rule that can be added.
CloudflareRules ==
  INSTANCE CloudflareConsole WITH
    Tabs <- {"rules", "redirects"}, Records <- {}, Home <- <<>>, Addresses <- {},
    RuleIds <- {k1, k2}, Literal <- {d1, d2}
NoRules == [z \in {z1, z2} |-> {}]

------------------------------------------------------------------------------
(* The pages, one at a time.                                                 *)

PagesInit ==
  /\ subject \in {"ansible", "crowded", "runtime", "workspace", "infrastructure", "records",
                   "rules"}
  /\ IF subject = "crowded" THEN Crowded!AnsibleInit /\ ~alone
     ELSE AnsibleInit /\ alone
  /\ subject \notin {"ansible", "crowded"} => Saved = {} /\ profile = "jenkins"
  /\ RuntimePageInit
  /\ WorkspacePagesInit
  /\ subject # "workspace" => rows = {p1, p2} /\ patient
  /\ InfrastructurePageInit
  /\ subject # "infrastructure" => saved = None /\ staying
  /\ IF subject = "rules"
     THEN \E destination \in {d1, Expression} :
            CloudflareRules!ConsoleInit({z1, z2}, {}, NoRules,
              [NoRules EXCEPT ![z1] = {Rule(k1, destination)}])
     ELSE ConsoleInit({z1, z2}, {r1}, NoRules, NoRules)
  /\ subject \notin {"records", "rules"} => tab = "zones"

PagesNext ==
  \/ /\ \/ subject = "ansible" /\ AnsibleNext
        \/ subject = "crowded" /\ Crowded!AnsibleNext
     /\ UNCHANGED <<subject, runtimePageVars, workspacePagesVars, infrastructurePageVars,
                    consoleVars>>
  \/ /\ subject = "runtime" /\ RuntimePageNext
     /\ UNCHANGED <<subject, ansibleVars, workspacePagesVars, infrastructurePageVars, consoleVars>>
  \/ /\ subject = "workspace" /\ WorkspacePagesNext
     /\ UNCHANGED <<subject, ansibleVars, runtimePageVars, infrastructurePageVars, consoleVars>>
  \/ /\ subject = "infrastructure" /\ InfrastructurePageNext
     /\ UNCHANGED <<subject, ansibleVars, runtimePageVars, workspacePagesVars, consoleVars>>
  \/ /\ \/ subject = "records" /\ ConsoleNext
        \/ subject = "rules" /\ CloudflareRules!ConsoleNext
     /\ UNCHANGED <<subject, ansibleVars, runtimePageVars, workspacePagesVars, infrastructurePageVars>>

PagesSpec == PagesInit /\ [][PagesNext]_rendererVars
==============================================================================
