----------------------- MODULE MCServiceComponents -----------------------
(***************************************************************************)
(* Small instances of the services of the main process and of its          *)
(* database.  As in MCHostComponents, a behaviour is one of a single       *)
(* component, its subject.  Those that are extended keep the names of      *)
(* their variables and constants; ServiceComponents.cfg gives two calls,   *)
(* two previews and a server that changes its address, two deployments of  *)
(* two steps and a process that ends under them, a connection opened over  *)
(* another, two changes of a project between its backup and its restore,   *)
(* two writes that fail, two certificates, the second made while the first *)
(* is listed, swept or issued, a pipeline that moves between two targets,  *)
(* with two requests that fail, and a database that two projects share,    *)
(* with as many starts as a rebuild that is interrupted twice needs.       *)
(***************************************************************************)
EXTENDS Naturals, InfrastructureStack, Deployments, SshTerminals, Certificates,
        ProjectBackup, ProjectAggregate, ProjectDuplication, JenkinsPipelines,
        DatabaseUpgrade

CONSTANTS t1, t2, caller1, caller2

VARIABLES subject, topology, sites, builders

topologyVars == <<topology, sites, builders>>
earlierVars ==
  <<jenkinsVars, stackVars, aggregateVars, duplicationVars, backupVars, upgradeVars,
    terminalVars, deploymentVars>>
serviceVars == <<subject, earlierVars, topologyVars, certificateVars>>

------------------------------------------------------------------------------
(* The instances.                                                            *)

\* Forms that rename the project, move it or leave both alone.
MCForms ==
  {[identity |-> "beta", region |-> "keep"], [identity |-> "keep", region |-> "west"],
   [identity |-> "keep", region |-> "keep"]}

\* Two projects that share credentials.
MCProjectOrder == <<"first", "second">>
MCTargetOrder == <<"web">>
MCPipelineOrder == <<"build">>
MCLegacyCredentials == {<<"key">>, <<"token">>}

\* Two pipelines and two sites contend for two ports; one of them may be taken by
\* a planned container, and one site proxies to another host.
Topology ==
  INSTANCE RuntimeTopology WITH
    Pipelines <- {"first", "second"}, Locations <- {"site", "other"},
    Ports <- {"3000", "4000"}, PlannedPorts <- {"3000"},
    Upstreams <- {[port |-> "3000", host |-> "loopback"],
                  [port |-> "3000", host |-> "10.0.0.9"]},
    plan <- topology, pipelines <- builders

------------------------------------------------------------------------------
(* The components, one at a time.                                            *)

ServiceInit ==
  /\ subject \in {"jenkins", "stack", "project", "duplication", "backup", "upgrade",
                   "terminal", "deployment", "topology", "certificates"}
  /\ JenkinsInit
  /\ StackInit
  /\ AggregateInit
  /\ project.identity = "alpha" /\ project.region = "east"
  /\ subject # "project" => regionOfPlan = "east"
  /\ DuplicationInit
  /\ subject # "duplication" => source.plan = "key" /\ source.provider = "key"
  /\ BackupInit
  /\ UpgradeInit /\ (subject # "upgrade" => Fresh)
  /\ TerminalInit
  /\ DeploymentsInit
  /\ Topology!TopologyInit /\ (subject # "topology" => topology.services = <<>>)
  /\ CertificatesInit

ServiceNext ==
  \/ /\ subject = "jenkins" /\ JenkinsNext
     /\ UNCHANGED <<subject, stackVars, aggregateVars, duplicationVars, backupVars, upgradeVars,
                    terminalVars, deploymentVars, topologyVars, certificateVars>>
  \/ /\ subject = "stack" /\ StackNext
     /\ UNCHANGED <<subject, jenkinsVars, aggregateVars, duplicationVars, backupVars, upgradeVars,
                    terminalVars, deploymentVars, topologyVars, certificateVars>>
  \/ /\ subject = "project" /\ AggregateNext
     /\ UNCHANGED <<subject, jenkinsVars, stackVars, duplicationVars, backupVars, upgradeVars,
                    terminalVars, deploymentVars, topologyVars, certificateVars>>
  \/ /\ subject = "duplication" /\ DuplicationNext
     /\ UNCHANGED <<subject, jenkinsVars, stackVars, aggregateVars, backupVars, upgradeVars,
                    terminalVars, deploymentVars, topologyVars, certificateVars>>
  \/ /\ subject = "backup" /\ BackupNext
     /\ UNCHANGED <<subject, jenkinsVars, stackVars, aggregateVars, duplicationVars, upgradeVars,
                    terminalVars, deploymentVars, topologyVars, certificateVars>>
  \/ /\ subject = "upgrade" /\ UpgradeNext
     /\ UNCHANGED <<subject, jenkinsVars, stackVars, aggregateVars, duplicationVars, backupVars,
                    terminalVars, deploymentVars, topologyVars, certificateVars>>
  \/ /\ subject = "terminal" /\ TerminalNext
     /\ UNCHANGED <<subject, jenkinsVars, stackVars, aggregateVars, duplicationVars, backupVars,
                    upgradeVars, deploymentVars, topologyVars, certificateVars>>
  \/ /\ subject = "deployment" /\ DeploymentsNext
     /\ UNCHANGED <<subject, jenkinsVars, stackVars, aggregateVars, duplicationVars, backupVars,
                    upgradeVars, terminalVars, topologyVars, certificateVars>>
  \/ /\ subject = "topology" /\ Topology!TopologyNext
     /\ UNCHANGED <<subject, earlierVars, certificateVars>>
  \/ /\ subject = "certificates" /\ CertificatesNext
     /\ UNCHANGED <<subject, earlierVars, topologyVars>>

ServiceSpec == ServiceInit /\ [][ServiceNext]_serviceVars

------------------------------------------------------------------------------
(* The property of the component that is an instance.                        *)

TopologyServes == subject = "topology" => Topology!TopologyServes
==============================================================================
