------------------------ MODULE ProjectAggregate ------------------------
(***************************************************************************)
(* The row of one open project, which calls load and store whole           *)
(* (project-service.ts, prisma-project-repository.ts), and what has to     *)
(* agree with it: the saved infrastructure plan, whose region it carries,  *)
(* and the Pulumi stack, which is named after the project and its          *)
(* environment.  Writers are the project's own form                        *)
(* (project-configuration-service.ts), the change of its passkey, the      *)
(* infrastructure page and runs of the engine.                             *)
(*                                                                         *)
(* Of the row three columns are modelled: its identity (name, environment  *)
(* and provider), its region and its passkey.                              *)
(***************************************************************************)
EXTENDS Naturals

CONSTANTS Identities, Regions,
          Forms,           \* the changes asked for: an identity and a region, or Keep
          Editors,         \* calls of the project's form that can be under way
          Engines,         \* calls of the engine that can be under way
          MaxWriteFaults,  \* bound on writes that fail
          MaxPasskey       \* bound on the passkeys ever chosen

Keep == "keep"        \* a field that a form leaves alone

NoRegion == "no plan"

ASSUME FormsAreChanges ==
  Forms \subseteq [identity : Identities \cup {Keep}, region : Regions \cup {Keep}]

VARIABLES project, regionOfPlan,
          managed,    \* the identities whose stack has resources
          edit,       \* the calls of the form
          rekey,      \* the change of the passkey, of which one runs at a time
          engine,     \* the runs of the engine
          chosen,     \* the last passkey whose change was answered
          updateFailures,
          disturbed   \* ghost: something else was written while an update was under way

aggregateVars ==
  <<project, regionOfPlan, managed, edit, rekey, engine, chosen, updateFailures, disturbed>>

NoRow == [identity |-> "none", region |-> "none", passkey |-> 0]
NoForm == [identity |-> Keep, region |-> Keep]
NoEdit == [stage |-> "idle", change |-> NoForm, current |-> NoRow, proposed |-> NoRow,
           plan |-> NoRegion, before |-> NoRegion, loaded |-> NoRow]
NoRekey == [stage |-> "idle", loaded |-> NoRow]
NoRun == [stage |-> "idle", op |-> "none", identity |-> "none"]

FormAt(c, stage) == edit[c].stage = stage
FormGoes(c, stage) == edit' = [edit EXCEPT ![c].stage = stage]
FormAnswers(c) == edit' = [edit EXCEPT ![c] = NoEdit]
WriteFails == updateFailures < MaxWriteFaults /\ updateFailures' = updateFailures + 1

------------------------------------------------------------------------------
(* ProjectConfigurationService.update()                                      *)

\* Project.update(): the fields that are given, over those that were loaded.
Updated(loaded, change) ==
  [loaded EXCEPT
     !.identity = IF change.identity = Keep THEN @ ELSE change.identity,
     !.region = IF change.region = Keep THEN @ ELSE change.region]

\* get(), and then previewUpdate(), each of which loads the row.
StartUpdate(c, change) ==
  /\ FormAt(c, "idle")
  /\ edit' = [edit EXCEPT ![c] =
       [NoEdit EXCEPT !.stage = "preview", !.change = change, !.current = project,
                      !.before = regionOfPlan]]
  /\ UNCHANGED <<project, regionOfPlan, managed, rekey, engine, chosen, updateFailures>>

Differs(c, field) == edit[c].current[field] # edit[c].proposed[field]

PreviewUpdate(c) ==
  /\ FormAt(c, "preview")
  /\ edit' = [edit EXCEPT ![c].proposed = Updated(project, edit[c].change), ![c].stage = "stacks"]
  /\ UNCHANGED <<project, regionOfPlan, managed, rekey, engine, chosen, updateFailures>>

\* The stack of the name it still has must have no resources.
ListStacks(c) ==
  /\ FormAt(c, "stacks")
  /\ IF (Differs(c, "identity") \/ Differs(c, "region"))
          /\ edit[c].current.identity \in managed
     THEN FormAnswers(c)
     ELSE FormGoes(c, IF Differs(c, "region") THEN "get plan" ELSE "load")
  /\ UNCHANGED <<project, regionOfPlan, managed, rekey, engine, chosen, updateFailures>>

GetPlan(c) ==
  /\ FormAt(c, "get plan")
  /\ edit' = [edit EXCEPT ![c].plan = regionOfPlan,
                          ![c].stage = IF regionOfPlan = NoRegion THEN "load" ELSE "save plan"]
  /\ UNCHANGED <<project, regionOfPlan, managed, rekey, engine, chosen, updateFailures>>

SaveRegionOfPlan(c) ==
  /\ FormAt(c, "save plan")
  /\ \/ regionOfPlan' = edit[c].proposed.region /\ FormGoes(c, "load") /\ UNCHANGED updateFailures
     \/ UNCHANGED regionOfPlan /\ FormAnswers(c) /\ WriteFails
  /\ UNCHANGED <<project, managed, rekey, engine, chosen>>

\* ProjectService.update() loads the row for the third time.
Load(c) ==
  /\ FormAt(c, "load")
  /\ edit' = [edit EXCEPT ![c].loaded = project, ![c].stage = "save"]
  /\ UNCHANGED <<project, regionOfPlan, managed, rekey, engine, chosen, updateFailures>>

\* Variant: the plan keeps the new region when the row was not saved.
SaveWithoutCompensation(c) ==
  /\ FormAt(c, "save")
  /\ \/ project' = Updated(edit[c].loaded, edit[c].change) /\ UNCHANGED updateFailures
     \/ UNCHANGED project /\ WriteFails
  /\ FormAnswers(c)
  /\ UNCHANGED <<regionOfPlan, managed, rekey, engine, chosen>>

\* The whole row is stored; if it is not, the plan that was read is saved again.
Save(c) ==
  /\ FormAt(c, "save")
  /\ \/ /\ project' = Updated(edit[c].loaded, edit[c].change)
        /\ FormAnswers(c) /\ UNCHANGED updateFailures
     \/ /\ UNCHANGED project /\ WriteFails
        /\ IF edit[c].plan = NoRegion THEN FormAnswers(c) ELSE FormGoes(c, "compensate")
  /\ UNCHANGED <<regionOfPlan, managed, rekey, engine, chosen>>

\* Whether that works is not asked.
Compensate(c) ==
  /\ FormAt(c, "compensate")
  /\ \/ regionOfPlan' = edit[c].plan /\ UNCHANGED updateFailures
     \/ UNCHANGED regionOfPlan /\ WriteFails
  /\ FormAnswers(c)
  /\ UNCHANGED <<project, managed, rekey, engine, chosen>>

------------------------------------------------------------------------------
(* The passkey, the plan and the stack.                                      *)

\* changePasskey() loads the row, hashes for a while, and saves the whole row.
StartRekey ==
  /\ rekey.stage = "idle" /\ chosen < MaxPasskey
  /\ rekey' = [stage |-> "hashed", loaded |-> project]
  /\ UNCHANGED <<project, regionOfPlan, managed, edit, engine, chosen, updateFailures>>

SavePasskey ==
  /\ rekey.stage = "hashed"
  /\ project' = [rekey.loaded EXCEPT !.passkey = chosen + 1]
  /\ chosen' = chosen + 1
  /\ rekey' = NoRekey
  /\ UNCHANGED <<regionOfPlan, managed, edit, engine, updateFailures>>

\* infra:savePlan and the templates store a plan with the region the page sends.
SavePlanOfPage(region) ==
  /\ regionOfPlan' = region
  /\ UNCHANGED <<project, managed, edit, rekey, engine, chosen, updateFailures>>

\* infra:apply and infra:destroy name the stack after the project as it is now.
StartRun(c, op) ==
  /\ engine[c].stage = "idle"
  /\ op = "apply" => regionOfPlan # NoRegion
  /\ engine' = [engine EXCEPT ![c] = [stage |-> "run", op |-> op, identity |-> project.identity]]
  /\ UNCHANGED <<project, regionOfPlan, managed, edit, rekey, chosen, updateFailures>>

EndRun(c) ==
  /\ engine[c].stage = "run"
  /\ managed' = IF engine[c].op = "apply" THEN managed \cup {engine[c].identity}
                ELSE managed \ {engine[c].identity}
  /\ regionOfPlan' = IF engine[c].op = "apply" THEN regionOfPlan ELSE NoRegion
  /\ engine' = [engine EXCEPT ![c] = NoRun]
  /\ UNCHANGED <<project, edit, rekey, chosen, updateFailures>>

------------------------------------------------------------------------------

AggregateInit ==
  /\ \E identity \in Identities, region \in Regions :
       project = [identity |-> identity, region |-> region, passkey |-> 0]
  /\ regionOfPlan \in Regions \cup {NoRegion}
  /\ managed = {}
  /\ edit = [c \in Editors |-> NoEdit] /\ rekey = NoRekey
  /\ engine = [c \in Engines |-> NoRun]
  /\ chosen = 0 /\ updateFailures = 0 /\ disturbed = FALSE

UpdateStep ==
  \E c \in Editors :
    \/ \E change \in Forms : StartUpdate(c, change)
    \/ PreviewUpdate(c) \/ ListStacks(c) \/ GetPlan(c) \/ SaveRegionOfPlan(c)
    \/ Load(c) \/ Save(c) \/ Compensate(c)

OtherStep ==
  \/ StartRekey \/ SavePasskey
  \/ \E region \in Regions : SavePlanOfPage(region)
  \/ \E c \in Engines : EndRun(c) \/ \E op \in {"apply", "destroy"} : StartRun(c, op)

Updating == {c \in Editors : ~FormAt(c, "idle")}

AggregateNext ==
  \/ UpdateStep /\ disturbed' = (disturbed \/ \E c, d \in Updating : c # d)
  \/ OtherStep /\ disturbed' = (disturbed \/ Updating # {})

AggregateSpec == AggregateInit /\ [][AggregateNext]_aggregateVars

------------------------------------------------------------------------------
(* Properties.                                                               *)

\* A single failed write, anywhere in an update that nothing else disturbs, leaves
\* nothing half done: the plan moves to the new region with the project or is as it
\* was.  Only a failure of the compensation itself can leave more.
FailedUpdateIsUndone ==
  [][\A c \in Editors :
       c \in Updating /\ c \notin Updating' /\ ~disturbed' /\ updateFailures' <= 1 =>
         regionOfPlan' = IF edit[c].plan # NoRegion /\ project'.region = edit[c].proposed.region
                         THEN project'.region ELSE edit[c].before]_aggregateVars
==============================================================================
