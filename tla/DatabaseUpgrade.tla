------------------------- MODULE DatabaseUpgrade -------------------------
(***************************************************************************)
(* What a start does to the database (container.ts): ensureSchema() builds *)
(* a fresh one, migrateSchema() brings the schema of an old one up to      *)
(* date, statement by statement (schema-bootstrap.ts), and                 *)
(* migrateProjectOwnership() gives every row to a project, in one          *)
(* transaction (project-ownership-migration.ts).  The application may end  *)
(* between any two statements, and is started again.                       *)
(*                                                                         *)
(* Of the tables, Project, Credential, VpsTarget and JenkinsPipeline are   *)
(* modelled, and one for the rest.  Of a row, what it refers to and whose  *)
(* it is.  A pipeline stands for any of its four credentials.              *)
(***************************************************************************)
EXTENDS Naturals, Sequences, FiniteSets

CONSTANTS ProjectOrder,       \* projects, in the order they were created
          LegacyCredentials,  \* one-element sequences; a clone is a longer one
          TargetOrder,        \* targets and pipelines, in the order they are listed
          PipelineOrder,
          MaxStarts           \* bound on the starts

ProjectSet == {ProjectOrder[i] : i \in DOMAIN ProjectOrder}
TargetSet == {TargetOrder[i] : i \in DOMAIN TargetOrder}
PipelineSet == {PipelineOrder[i] : i \in DOMAIN PipelineOrder}

ASSUME OrdersAreSequences ==
  /\ ProjectOrder \in Seq(ProjectSet)
  /\ TargetOrder \in Seq(TargetSet)
  /\ PipelineOrder \in Seq(PipelineSet)
ASSUME CredentialsAreNames == \A c \in LegacyCredentials : c = <<c[1]>>

Null == "null"
NoReference == <<>>
DefaultProject == "default project"
Tables == <<"Project", "Credential", "VpsTarget", "JenkinsPipeline", "Rest">>
TableSet == {Tables[i] : i \in DOMAIN Tables}

VARIABLES schema,     \* the tables there are, and their shape
          projects,   \* the rows of Project: the credential that each is linked to
          copied,     \* the rows of Project_new
          credentials,\* the owner and the secret of each
          targetRows, pipelines,
          settings,   \* the plans: what each is about, and whose it is
          stage,      \* how far the start has come
          starts

tableVars == <<projects, copied, credentials, targetRows, pipelines, settings>>
upgradeVars == <<schema, tableVars, stage, starts>>

EmptyTable == [id \in {} |-> Null]
Reach(s) == stage' = s

------------------------------------------------------------------------------
(* The start, the end and the crash of the application.                      *)

\* A start that fails shows its error; the next one tries again.
Start ==
  /\ stage \in {"down", "refused"} /\ starts < MaxStarts
  /\ starts' = starts + 1
  /\ Reach("ensure")
  /\ UNCHANGED <<schema, tableVars>>

\* The window is closed, or the process ends in the middle of the upgrade.
Stop ==
  /\ stage \notin {"down", "refused"}
  /\ Reach("down")
  /\ UNCHANGED <<schema, tableVars, starts>>

------------------------------------------------------------------------------
(* ensureSchema()                                                            *)

EnsureSchema ==
  /\ stage = "ensure"
  /\ Reach(IF "Project" \in schema.tables THEN "jenkins" ELSE "Project")
  /\ UNCHANGED <<schema, tableVars, starts>>

\* The statements of bootstrap.sql, each of which fails if its table exists.
CreateTable(i) ==
  /\ stage = Tables[i]
  /\ IF Tables[i] \in schema.tables THEN Reach("refused") /\ UNCHANGED schema
     ELSE /\ schema' = [schema EXCEPT
               !.tables = @ \cup {Tables[i]},
               !.providerKey = IF Tables[i] = "Project" THEN "Credential" ELSE @,
               !.owned = @ \/ Tables[i] = "Credential",
               !.managedColumns = IF Tables[i] = "VpsTarget" THEN 2 ELSE @]
          /\ Reach(IF i = Len(Tables) THEN "jenkins" ELSE Tables[i + 1])
  /\ UNCHANGED <<tableVars, starts>>

------------------------------------------------------------------------------
(* migrateSchema()                                                           *)

AddJenkinsTable ==
  /\ stage = "jenkins"
  /\ schema' = [schema EXCEPT !.tables = @ \cup {"JenkinsPipeline"}]
  /\ Reach(IF "VpsTarget" \in schema.tables THEN "columns" ELSE "targets")
  /\ UNCHANGED <<tableVars, starts>>

AddTargetTable ==
  /\ stage = "targets"
  /\ schema' = [schema EXCEPT !.tables = @ \cup {"VpsTarget"}, !.managedColumns = 2]
  /\ Reach("foreign key")
  /\ UNCHANGED <<tableVars, starts>>

\* managedProjectId and managedResourceName, both if the first is missing.
AddManagedColumn ==
  /\ stage \in {"columns", "second column"}
  /\ IF stage = "columns" /\ schema.managedColumns > 0
     THEN Reach("foreign key") /\ UNCHANGED schema
     ELSE /\ schema' = [schema EXCEPT !.managedColumns = @ + 1]
          /\ Reach(IF stage = "columns" THEN "second column" ELSE "foreign key")
  /\ UNCHANGED <<tableVars, starts>>

\* The table is rebuilt only while its key still names Provider.
CheckForeignKey ==
  /\ stage = "foreign key"
  /\ Reach(IF schema.providerKey = "Provider" THEN "make copy" ELSE "own")
  /\ UNCHANGED <<schema, tableVars, starts>>

MakeCopy ==
  /\ stage = "make copy"
  /\ IF schema.copy THEN Reach("refused") /\ UNCHANGED schema
     ELSE schema' = [schema EXCEPT !.copy = TRUE] /\ Reach("fill copy")
  /\ UNCHANGED <<tableVars, starts>>

\* A link that names no credential becomes none.
FillCopy ==
  /\ stage = "fill copy"
  /\ copied' = [p \in DOMAIN projects |->
                  IF projects[p] \in DOMAIN credentials THEN projects[p] ELSE NoReference]
  /\ Reach("drop")
  /\ UNCHANGED <<schema, projects, credentials, targetRows, pipelines, settings, starts>>

DropProject ==
  /\ stage = "drop"
  /\ schema' = [schema EXCEPT !.tables = @ \ {"Project"}, !.providerKey = Null]
  /\ projects' = EmptyTable
  /\ Reach("rename")
  /\ UNCHANGED <<copied, credentials, targetRows, pipelines, settings, starts>>

RenameCopy ==
  /\ stage = "rename"
  /\ schema' = [schema EXCEPT !.tables = @ \cup {"Project"}, !.providerKey = "Credential",
                              !.copy = FALSE]
  /\ projects' = copied /\ copied' = EmptyTable
  /\ Reach("own")
  /\ UNCHANGED <<credentials, targetRows, pipelines, settings, starts>>

------------------------------------------------------------------------------
(* migrateProjectOwnership()                                                 *)

\* A database without a project, but with data, gets one.
OwnedProjects ==
  IF projects # EmptyTable
     \/ (/\ credentials = EmptyTable /\ targetRows = EmptyTable /\ pipelines = EmptyTable
         /\ settings = {})
  THEN projects ELSE [p \in {DefaultProject} |-> NoReference]

\* The first of a list that is one of ids.
FirstOf(list, ids) ==
  list[CHOOSE i \in DOMAIN list : list[i] \in ids /\ \A k \in 1..(i - 1) : list[k] \notin ids]

InOrder == Append(ProjectOrder, DefaultProject)
Fallback == FirstOf(InOrder, DOMAIN OwnedProjects)
OwnerOfTarget(t) ==
  IF targetRows[t].managed \in DOMAIN OwnedProjects THEN targetRows[t].managed ELSE Fallback
OwnerOfPipeline(j) ==
  IF pipelines[j].target \in DOMAIN targetRows THEN OwnerOfTarget(pipelines[j].target)
  ELSE Fallback

\* isolateCredentials(): the first that refers to a credential has it, be it a project,
\* a target or a pipeline, in this order, and any other project gets a clone.
Owner(c) ==
  LET ps == {p \in DOMAIN OwnedProjects : OwnedProjects[p] = c}
      ts == {t \in DOMAIN targetRows : targetRows[t].ssh = c}
      js == {j \in DOMAIN pipelines : pipelines[j].credential = c}
  IN  IF ps # {} THEN FirstOf(InOrder, ps)
      ELSE IF ts # {} THEN OwnerOfTarget(FirstOf(TargetOrder, ts))
      ELSE IF js # {} THEN OwnerOfPipeline(FirstOf(PipelineOrder, js))
      ELSE Fallback

Clone(c, p) == <<c[1], p>>

\* Variant: whoever refers to a credential keeps it.
HeldByAll(c, p) == c

\* What a row of project p has for its reference to c from now on.
Held(c, p) ==
  IF c \in DOMAIN credentials /\ Owner(c) # p THEN Clone(c, p) ELSE c

\* Which project refers to which credential.
Claims ==
  {<<OwnedProjects[p], p>> : p \in DOMAIN OwnedProjects}
    \cup {<<targetRows[t].ssh, OwnerOfTarget(t)>> : t \in DOMAIN targetRows}
    \cup {<<pipelines[j].credential, OwnerOfPipeline(j)>> : j \in DOMAIN pipelines}

ClonedCredentials ==
  {Clone(r[1], r[2]) : r \in
     {x \in Claims : x[1] \in DOMAIN credentials /\ Owner(x[1]) # x[2]}}

\* rebuildSettings(): a plan goes to the project, or the owner of the target, it is about.
OwnerOfSetting(s) ==
  IF s.kind = "plan" THEN (IF s.about \in DOMAIN OwnedProjects THEN s.about ELSE Fallback)
  ELSE (IF s.about \in DOMAIN targetRows THEN OwnerOfTarget(s.about) ELSE Fallback)

GiveRows ==
  /\ projects' = [p \in DOMAIN OwnedProjects |-> Held(OwnedProjects[p], p)]
  /\ credentials' =
       [c \in DOMAIN credentials \cup ClonedCredentials |->
          IF c \in DOMAIN credentials THEN [credentials[c] EXCEPT !.owner = Owner(c)]
          ELSE [owner |-> c[2], secret |-> credentials[<<c[1]>>].secret]]
  /\ targetRows' = [t \in DOMAIN targetRows |->
       [targetRows[t] EXCEPT !.owner = OwnerOfTarget(t), !.ssh = Held(@, OwnerOfTarget(t))]]
  /\ pipelines' = [j \in DOMAIN pipelines |->
       [pipelines[j] EXCEPT !.owner = OwnerOfPipeline(j),
                            !.credential = Held(@, OwnerOfPipeline(j))]]
  /\ settings' = {[s EXCEPT !.owner = OwnerOfSetting(s)] : s \in settings}

\* The guards are created again at every start.  They and the new columns need every
\* table.
MigrateOwnership ==
  /\ stage = "own"
  /\ IF TableSet \subseteq schema.tables
     THEN /\ Reach("running")
          /\ schema' = [schema EXCEPT !.owned = TRUE]
          /\ IF schema.owned \/ OwnedProjects = EmptyTable
             THEN UNCHANGED <<projects, credentials, targetRows, pipelines, settings>>
             ELSE GiveRows
     ELSE /\ Reach("refused")
          /\ UNCHANGED <<schema, projects, credentials, targetRows, pipelines, settings>>
  /\ UNCHANGED <<copied, starts>>

------------------------------------------------------------------------------

OrNull(S) == S \cup {Null}

\* Nothing at all.
Fresh ==
  /\ schema = [tables |-> {}, providerKey |-> Null, copy |-> FALSE, owned |-> FALSE,
               managedColumns |-> 0]
  /\ projects = EmptyTable /\ credentials = EmptyTable
  /\ targetRows = EmptyTable /\ pipelines = EmptyTable
  /\ settings = {}

\* What earlier releases left: with links to Provider, which nothing uses, or to
\* credentials, and with or without targets and pipelines.
Legacy ==
  \E key \in {"Provider", "Credential"}, withTargets \in BOOLEAN, columns \in {0, 2} :
    /\ schema = [tables |-> IF withTargets THEN TableSet
                             ELSE TableSet \ {"VpsTarget", "JenkinsPipeline"},
                 providerKey |-> key, copy |-> FALSE, owned |-> FALSE,
                 managedColumns |-> IF withTargets THEN columns ELSE 0]
    /\ projects \in [ProjectSet -> IF key = "Provider" THEN {NoReference, <<"provider">>}
                                   ELSE LegacyCredentials \cup {NoReference}]
    /\ credentials = [c \in LegacyCredentials |-> [owner |-> Null, secret |-> c]]
    /\ targetRows \in
         IF withTargets
         THEN [TargetSet -> [managed : IF columns = 0 THEN {Null} ELSE OrNull(ProjectSet),
                             ssh : LegacyCredentials \cup {NoReference}, owner : {Null}]]
         ELSE {EmptyTable}
    /\ pipelines \in
         IF withTargets
         THEN [PipelineSet -> [target : OrNull(TargetSet), credential : LegacyCredentials,
                               owner : {Null}]]
         ELSE {EmptyTable}
    /\ settings =
         {[kind |-> "plan", about |-> p, owner |-> Null] : p \in ProjectSet}
           \cup {[kind |-> "runtime-plan", about |-> t, owner |-> Null] : t \in DOMAIN targetRows}

UpgradeInit ==
  /\ Fresh \/ Legacy
  /\ copied = EmptyTable
  /\ stage = "down" /\ starts = 0

UpgradeNext ==
  \/ Start \/ Stop \/ EnsureSchema
  \/ \E i \in DOMAIN Tables : CreateTable(i)
  \/ AddJenkinsTable \/ AddTargetTable \/ AddManagedColumn
  \/ CheckForeignKey \/ MakeCopy \/ FillCopy \/ DropProject \/ RenameCopy
  \/ MigrateOwnership

UpgradeSpec == UpgradeInit /\ [][UpgradeNext]_upgradeVars

------------------------------------------------------------------------------

Owns(p, reference) ==
  reference \in DOMAIN credentials => credentials[reference].owner = p

RowsIsolated ==
  /\ \A c \in DOMAIN credentials : credentials[c].owner \in DOMAIN projects
  /\ \A p \in DOMAIN projects : Owns(p, projects[p])
  /\ \A t \in DOMAIN targetRows :
       /\ targetRows[t].owner \in DOMAIN projects
       /\ Owns(targetRows[t].owner, targetRows[t].ssh)
  /\ \A j \in DOMAIN pipelines :
       /\ Owns(pipelines[j].owner, pipelines[j].credential)
       /\ pipelines[j].target \in DOMAIN targetRows =>
            targetRows[pipelines[j].target].owner = pipelines[j].owner
  /\ \A s \in settings :
       s.kind = "runtime-plan" => s.owner = targetRows[s.about].owner

\* When the application runs, whatever starts were interrupted before, every row has an
\* owner, no project refers to a credential of another, and a pipeline and a runtime
\* plan are with the target they are about.
UpgradeIsolates == stage = "running" => RowsIsolated

\* "The check is cheap and the rewrite runs only when the old constraint is still
\* present, so this is safe to call on every startup", "preserving all rows".  A start
\* that ends between DROP and RENAME leaves the rows where no later start looks.
StartKeepsProjects ==
  stage = "running" =>
    \A s \in settings : s.kind = "plan" => s.about \in DOMAIN projects
==============================================================================
