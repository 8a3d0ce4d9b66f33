------------------------ MODULE JenkinsPipelines ------------------------
(***************************************************************************)
(* JenkinsPipelineService: one pipeline, whose job is in Jenkins, whose    *)
(* record is in the database, whose domain is served by an Nginx site and  *)
(* whose application is in the runtime plan of its target.  A save writes  *)
(* them one after the other; every request may fail, and nothing undoes    *)
(* what came before it.  Jobs are also edited in Jenkins' own pages.       *)
(*                                                                         *)
(* Of the build parameters HOST_PORT is modelled, which CloudForge manages *)
(* while the domain is configured and which may else be written by hand.   *)
(* Each target has its own Jenkins and its own Nginx.                      *)
(***************************************************************************)
EXTENDS Naturals, FiniteSets

CONSTANTS Targets,        \* VPS targets a pipeline can be deployed to
          AppPorts,       \* application ports
          Callers,        \* calls that can be in progress at the same time
          Savers,         \* those that may save or remove (the form waits for its call)
          MaxFaults       \* bound on failed requests and on edits in Jenkins

Absent == "absent"
ByHand == "by hand"       \* a HOST_PORT somebody wrote
NoPort == "no port"
Parameters == AppPorts \cup {Absent, ByHand}

NoPipeline == [target |-> Absent, configureDomain |-> FALSE, port |-> NoPort,
               hostPort |-> Absent]
NoJob == "no job"

ASSUME PortsAreNotJobs == NoJob \notin AppPorts

VARIABLES pipeline,   \* the pipeline's record
          jobs,       \* HOST_PORT of the job on each target's Jenkins, or NoJob
          proxied,    \* the port each target's Nginx proxies the domain to
          apps,       \* the targets whose plan has the application
          jenkinsCall,
          faults

jenkinsVars == <<pipeline, jobs, proxied, apps, jenkinsCall, faults>>

JenkinsIdle ==
  [op |-> "none", stage |-> "idle", existing |-> NoPipeline, input |-> NoPipeline]

PipelineAt(c, stage) == jenkinsCall[c].stage = stage
Step(c, stage) == jenkinsCall' = [jenkinsCall EXCEPT ![c].stage = stage]
Finish(c) == jenkinsCall' = [jenkinsCall EXCEPT ![c] = JenkinsIdle]
Fault == faults < MaxFaults /\ faults' = faults + 1

------------------------------------------------------------------------------
(* Parameters.                                                               *)

\* A HOST_PORT is withdrawn if CloudForge put it there.
synchronizeApplicationPortParameter(parameter, configureDomain, port, previously) ==
  CASE configureDomain -> port
    [] ~configureDomain /\ previously -> Absent
    [] OTHER -> parameter

\* What status() makes of what Jenkins reports.
synchronizeManagedParameters(parameter, record) ==
  synchronizeApplicationPortParameter(parameter, record.configureDomain, record.port,
                                      record.configureDomain)

------------------------------------------------------------------------------
(* save().                                                                   *)

\* A pipeline is created, or the stored one is edited.
StartSave(c, input) ==
  /\ PipelineAt(c, "idle")
  /\ jenkinsCall' = [jenkinsCall EXCEPT ![c] =
       [op |-> "save", stage |-> "job", existing |-> pipeline,
        input |-> [input EXCEPT !.hostPort = synchronizeApplicationPortParameter(
                     @, input.configureDomain, input.port, pipeline.configureDomain)]]]
  /\ UNCHANGED <<pipeline, jobs, proxied, apps, faults>>

MovesTarget(c) ==
  jenkinsCall[c].existing.target \notin {Absent, jenkinsCall[c].input.target}

\* Folder, credentials and job.
UpsertJob(c) ==
  LET input == jenkinsCall[c].input
  IN /\ PipelineAt(c, "job")
     /\ jobs' = [jobs EXCEPT ![input.target] = input.hostPort]
     /\ Step(c, IF MovesTarget(c) THEN "old job" ELSE "row")
     /\ UNCHANGED <<pipeline, proxied, apps, faults>>

RemoveOldJob(c) ==
  /\ PipelineAt(c, "old job")
  /\ jobs' = [jobs EXCEPT ![jenkinsCall[c].existing.target] = NoJob]
  /\ Step(c, "row")
  /\ UNCHANGED <<pipeline, proxied, apps, faults>>

SaveRow(c) ==
  LET input == jenkinsCall[c].input
  IN /\ PipelineAt(c, "row")
     /\ pipeline' = input
     /\ Step(c, IF input.configureDomain THEN "domain" ELSE "application")
     /\ UNCHANGED <<jobs, proxied, apps, faults>>

\* DNS, and the site once DNS has propagated.
SavePipelineSite(c) ==
  LET input == jenkinsCall[c].input
  IN /\ PipelineAt(c, "domain")
     /\ proxied' = [proxied EXCEPT ![input.target] = input.port]
     /\ Step(c, "application")
     /\ UNCHANGED <<pipeline, jobs, apps, faults>>

\* Variant: the routes follow, the application does not.
UpsertApplicationMissing(c) ==
  /\ PipelineAt(c, "application")
  /\ Step(c, IF MovesTarget(c) THEN "old application" ELSE "saved")
  /\ UNCHANGED <<pipeline, jobs, proxied, apps, faults>>

UpsertApplication(c) ==
  /\ PipelineAt(c, "application")
  /\ apps' = apps \cup {jenkinsCall[c].input.target}
  /\ Step(c, IF MovesTarget(c) THEN "old application" ELSE "saved")
  /\ UNCHANGED <<pipeline, jobs, proxied, faults>>

RemoveOldApplication(c) ==
  /\ PipelineAt(c, "old application")
  /\ apps' = apps \ {jenkinsCall[c].existing.target}
  /\ Step(c, "saved")
  /\ UNCHANGED <<pipeline, jobs, proxied, faults>>

\* The caller is told that it is done.
Saved(c) ==
  /\ PipelineAt(c, "saved")
  /\ Finish(c)
  /\ UNCHANGED <<pipeline, jobs, proxied, apps, faults>>

------------------------------------------------------------------------------
(* status(), list() and remove().                                            *)

StartStatus(c) ==
  /\ PipelineAt(c, "idle") /\ pipeline # NoPipeline
  /\ jenkinsCall' = [jenkinsCall EXCEPT ![c] =
       [op |-> "status", stage |-> "reading", existing |-> pipeline, input |-> NoPipeline]]
  /\ UNCHANGED <<pipeline, jobs, proxied, apps, faults>>

\* A job that is gone reports no parameters.
ReadJob(c) ==
  LET loaded == jenkinsCall[c].existing
      job == jobs[loaded.target]
      reported == synchronizeManagedParameters(IF job = NoJob THEN Absent ELSE job, loaded)
  IN /\ PipelineAt(c, "reading")
     /\ jenkinsCall' = [jenkinsCall EXCEPT ![c].stage = "reporting",
                                           ![c].input = [loaded EXCEPT !.hostPort = reported]]
     /\ UNCHANGED <<pipeline, jobs, proxied, apps, faults>>

\* The record loaded is stored again, whole, when there are parameters.
SaveStatus(c) ==
  /\ PipelineAt(c, "reporting")
  /\ pipeline' = IF jenkinsCall[c].input.hostPort = Absent THEN pipeline
                 ELSE jenkinsCall[c].input
  /\ Finish(c)
  /\ UNCHANGED <<jobs, proxied, apps, faults>>

\* list(): what repairs plans after an interrupted save.
ListPipelines(c) ==
  /\ PipelineAt(c, "idle") /\ pipeline # NoPipeline
  /\ apps' = apps \cup {pipeline.target}
  /\ UNCHANGED <<pipeline, jobs, proxied, jenkinsCall, faults>>

StartRemove(c) ==
  /\ PipelineAt(c, "idle") /\ pipeline # NoPipeline
  /\ jenkinsCall' = [jenkinsCall EXCEPT ![c] =
       [op |-> "remove", stage |-> "remove job", existing |-> pipeline, input |-> NoPipeline]]
  /\ UNCHANGED <<pipeline, jobs, proxied, apps, faults>>

RemoveJob(c) ==
  /\ PipelineAt(c, "remove job")
  /\ jobs' = [jobs EXCEPT ![jenkinsCall[c].existing.target] = NoJob]
  /\ Step(c, "remove application")
  /\ UNCHANGED <<pipeline, proxied, apps, faults>>

RemoveApplication(c) ==
  /\ PipelineAt(c, "remove application")
  /\ apps' = apps \ {jenkinsCall[c].existing.target}
  /\ Step(c, "remove row")
  /\ UNCHANGED <<pipeline, jobs, proxied, faults>>

RemoveRow(c) ==
  /\ PipelineAt(c, "remove row")
  /\ pipeline' = NoPipeline
  /\ Finish(c)
  /\ UNCHANGED <<jobs, proxied, apps, faults>>

------------------------------------------------------------------------------

\* A request fails, or the program ends: the call goes no further.
Interrupt(c) ==
  /\ ~PipelineAt(c, "idle") /\ ~PipelineAt(c, "saved")
  /\ Fault
  /\ Finish(c)
  /\ UNCHANGED <<pipeline, jobs, proxied, apps>>

\* Somebody changes the parameter of the job, as a build of a Jenkinsfile does.
EditJob(t, parameter) ==
  /\ jobs[t] \notin {NoJob, parameter}
  /\ Fault
  /\ jobs' = [jobs EXCEPT ![t] = parameter]
  /\ UNCHANGED <<pipeline, proxied, apps, jenkinsCall>>

JenkinsInit ==
  /\ pipeline = NoPipeline
  /\ jobs = [t \in Targets |-> NoJob]
  /\ proxied = [t \in Targets |-> NoPort]
  /\ apps = {}
  /\ jenkinsCall = [c \in Callers |-> JenkinsIdle]
  /\ faults = 0

\* What the form can hold.
Inputs ==
  [target : Targets, configureDomain : BOOLEAN, port : AppPorts,
   hostPort : {Absent, ByHand}]

JenkinsStep(c) ==
  \/ UpsertJob(c) \/ RemoveOldJob(c) \/ SaveRow(c) \/ SavePipelineSite(c)
  \/ UpsertApplication(c) \/ RemoveOldApplication(c) \/ Saved(c)
  \/ ReadJob(c) \/ SaveStatus(c)
  \/ RemoveJob(c) \/ RemoveApplication(c) \/ RemoveRow(c)

JenkinsNext ==
  \/ \E c \in Callers :
       JenkinsStep(c) \/ Interrupt(c) \/ StartStatus(c) \/ ListPipelines(c)
  \/ \E c \in Savers : StartRemove(c) \/ \E input \in Inputs : StartSave(c, input)
  \/ \E t \in Targets, parameter \in Parameters : EditJob(t, parameter)

JenkinsSpec == JenkinsInit /\ [][JenkinsNext]_jenkinsVars

------------------------------------------------------------------------------
(* Properties.                                                               *)

\* A save that is answered with success has made the four stores agree, whatever
\* an earlier save, move or removal left half-done: the record carries
\* the port of the site, the job exists and the target's plan has the application.
SavedMeansConsistent ==
  \A c \in Callers : PipelineAt(c, "saved") =>
    /\ pipeline = jenkinsCall[c].input
    /\ pipeline.target \in apps /\ jobs[pipeline.target] # NoJob
    /\ pipeline.configureDomain =>
         proxied[pipeline.target] = pipeline.port /\ pipeline.hostPort = pipeline.port
==============================================================================
