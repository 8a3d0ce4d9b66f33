----------------------- MODULE InfrastructureStack -----------------------
(***************************************************************************)
(* The infrastructure of one project: its saved plan, the stack the Pulumi *)
(* engine keeps, the approvals of previews (infrastructure-service.ts) and *)
(* the catalog of VPS targets, into which the public servers of the stack  *)
(* are synchronized (managed-vps-target-sync-service.ts,                   *)
(* vps-target-service.ts).  The leases of these calls are shared ones, so  *)
(* every call can overlap with every other; every await is a step.         *)
(*                                                                         *)
(* A plan is the set of its public servers.  A run of the engine is one    *)
(* step, because the engine locks the stack; it can fail after a part of   *)
(* its work.  Runtime plans of targets are the subject of RuntimePlan.     *)
(***************************************************************************)
EXTENDS Naturals, FiniteSets

CONSTANTS Servers,     \* the compute resources a plan can have
          Calls,       \* calls that can be under way
          MaxPreviews, \* bound on the tokens ever given
          MaxHosts,    \* bound on the addresses ever given to servers
          MaxRows      \* bound on the targets ever created

NoPlan == {"no plan"}
NoHost == 0

VARIABLES plan,      \* the saved plan
          stack,     \* the address of each server of the stack
          targets,   \* the managed targets of the catalog
          approval,  \* the live preview approval of the stack
          run,       \* the calls under way
          shown,     \* what previews showed: plan by token
          hosts, rows

stackVars == <<plan, stack, targets, approval, run, shown, hosts, rows>>

NoApproval == [token |-> 0, plan |-> NoPlan]
Idle == [op |-> "none", stage |-> "idle", plan |-> NoPlan, token |-> 0,
         outputs |-> [s \in Servers |-> NoHost], left |-> {}, server |-> "none", found |-> 0]

At(c, stage) == run[c].stage = stage
Goto(c, stage) == run' = [run EXCEPT ![c].stage = stage]
Return(c) == run' = [run EXCEPT ![c] = Idle]
Begin(c, op, stage, token) ==
  /\ At(c, "idle")
  /\ run' = [run EXCEPT ![c] = [Idle EXCEPT !.op = op, !.stage = stage, !.token = token]]
  /\ UNCHANGED <<plan, stack, targets, approval, shown, hosts, rows>>

------------------------------------------------------------------------------
(* The saved plan, previews and applies.                                     *)

\* savePlan(), applyTemplate() and applyCustomTemplate().
SavePlan(p) ==
  /\ plan' = p
  /\ UNCHANGED <<stack, targets, approval, run, shown, hosts, rows>>

Preview(c) == Begin(c, "preview", "load", 0)
Apply(c, token) == Begin(c, "apply", "load", token)

\* requirePlan()
LoadPlan(c) ==
  /\ At(c, "load")
  /\ run' = IF plan = NoPlan THEN [run EXCEPT ![c] = Idle]
            ELSE [run EXCEPT ![c].plan = plan,
                             ![c].stage = IF run[c].op = "preview" THEN "engine" ELSE "check"]
  /\ UNCHANGED <<plan, stack, targets, approval, shown, hosts, rows>>

\* The credentials are missing, of another provider, or the engine fails.
Fails(c) ==
  /\ run[c].stage \in {"check", "engine"}
  /\ Return(c)
  /\ UNCHANGED <<plan, stack, targets, approval, shown, hosts, rows>>

\* The changes are shown together with the token.
Previewed(c) ==
  LET token == Cardinality(DOMAIN shown) + 1
  IN /\ At(c, "engine") /\ run[c].op = "preview" /\ token <= MaxPreviews
     /\ approval' = [token |-> token, plan |-> run[c].plan]
     /\ shown' = [t \in 1 .. token |-> IF t = token THEN run[c].plan ELSE shown[t]]
     /\ Return(c)
     /\ UNCHANGED <<plan, stack, targets, hosts, rows>>

\* Variant: a token is good for any plan.
ApprovedByToken(c) == approval.token = run[c].token

Approved(c) == approval.token = run[c].token /\ approval.plan = run[c].plan

CheckApproval(c) ==
  /\ At(c, "check")
  /\ IF Approved(c) THEN Goto(c, "engine") ELSE Return(c)
  /\ UNCHANGED <<plan, stack, targets, approval, shown, hosts, rows>>

\* A server that is kept keeps its address, or gets another if it is replaced; when
\* the run fails only some of the servers were reached, and the approval stays.
Up(c) ==
  LET wanted == run[c].plan
  IN /\ At(c, "engine") /\ run[c].op = "apply" /\ hosts < MaxHosts
     /\ hosts' = hosts + 1
     /\ \E reached \in SUBSET Servers, replaced \in SUBSET wanted :
          /\ stack' = [s \in Servers |->
               CASE s \notin reached -> stack[s]
                 [] s \in reached \ wanted -> NoHost
                 [] s \in replaced \/ stack[s] = NoHost -> hosts'
                 [] OTHER -> stack[s]]
          /\ \/ Return(c)
             \/ /\ reached = Servers
                /\ run' = [run EXCEPT ![c].stage = "spend", ![c].outputs = stack']
     /\ UNCHANGED <<plan, targets, approval, shown, rows>>

\* Whatever the approval of the stack is by now, it is taken away.
Spend(c) ==
  /\ At(c, "spend")
  /\ approval' = NoApproval
  /\ run' = [run EXCEPT ![c].stage = "sync", ![c].left = run[c].plan]
  /\ UNCHANGED <<plan, stack, targets, shown, hosts, rows>>

------------------------------------------------------------------------------
(* Outputs, and the synchronization of targets.                              *)

Outputs(c) == Begin(c, "outputs", "outputs", 0)

ReadOutputs(c) ==
  /\ At(c, "outputs")
  /\ run' = [run EXCEPT ![c].outputs = stack, ![c].stage = "plan"]
  /\ UNCHANGED <<plan, stack, targets, approval, shown, hosts, rows>>

LoadForOutputs(c) ==
  /\ At(c, "plan")
  /\ IF plan = NoPlan THEN Return(c)
     ELSE run' = [run EXCEPT ![c].plan = plan, ![c].left = plan, ![c].stage = "sync"]
  /\ UNCHANGED <<plan, stack, targets, approval, shown, hosts, rows>>

\* removeManagedResourcesOutside(), whose failure is a warning.
RemoveStale(c) ==
  /\ At(c, "sync")
  /\ targets' \in {targets, {t \in targets : t.resource \in run[c].plan}}
  /\ Goto(c, "next")
  /\ UNCHANGED <<plan, stack, approval, shown, hosts, rows>>

\* A server without an output, or whose key is not known, has no target; one whose
\* SSH port does not answer keeps the target it has.
NextServer(c, s) ==
  LET skip == [run EXCEPT ![c].left = @ \ {s}]
  IN /\ At(c, "next") /\ s \in run[c].left
     /\ \/ run' = skip /\ targets' \in {targets, {t \in targets : t.resource # s}}
        \/ /\ run[c].outputs[s] # NoHost
           /\ run' = [skip EXCEPT ![c].server = s, ![c].stage = "find"]
           /\ UNCHANGED targets
     /\ UNCHANGED <<plan, stack, approval, shown, hosts, rows>>

Synchronized(c) ==
  /\ At(c, "next") /\ run[c].left = {}
  /\ Return(c)
  /\ UNCHANGED <<plan, stack, targets, approval, shown, hosts, rows>>

\* upsertManaged(): the target is looked up, then created or updated.
FindManaged(c) ==
  LET ids == {t.id : t \in {u \in targets : u.resource = run[c].server}}
  IN /\ At(c, "find")
     /\ run' = [run EXCEPT ![c].stage = "save",
                           ![c].found = IF ids = {} THEN 0 ELSE CHOOSE id \in ids : TRUE]
     /\ UNCHANGED <<plan, stack, targets, approval, shown, hosts, rows>>

Row(c) == [resource |-> run[c].server, host |-> run[c].outputs[run[c].server], id |-> rows + 1]

\* Variant: without the unique index on project and resource.
CreateAnyway(c) ==
  /\ At(c, "save") /\ run[c].found = 0 /\ rows < MaxRows
  /\ Goto(c, "next")
  /\ rows' = rows + 1 /\ targets' = targets \cup {Row(c)}
  /\ UNCHANGED <<plan, stack, approval, shown, hosts>>

\* A second row for a resource violates the unique index, which is a warning.
CreateManaged(c) ==
  /\ At(c, "save") /\ run[c].found = 0 /\ rows < MaxRows
  /\ Goto(c, "next")
  /\ IF \E t \in targets : t.resource = run[c].server
     THEN UNCHANGED <<targets, rows>>
     ELSE rows' = rows + 1 /\ targets' = targets \cup {Row(c)}
  /\ UNCHANGED <<plan, stack, approval, shown, hosts>>

\* An update of a row that is gone changes nothing.
UpdateManaged(c) ==
  /\ At(c, "save") /\ run[c].found # 0
  /\ targets' = {IF t.id = run[c].found THEN [Row(c) EXCEPT !.id = t.id] ELSE t : t \in targets}
  /\ Goto(c, "next")
  /\ UNCHANGED <<plan, stack, approval, shown, hosts, rows>>

\* VpsTargetService.remove()
RemoveTarget(t) ==
  /\ targets' = targets \ {t}
  /\ UNCHANGED <<plan, stack, approval, run, shown, hosts, rows>>

------------------------------------------------------------------------------
(* Destruction.                                                              *)

Destroy(c) == Begin(c, "destroy", "destroy", 0)
DestroyManagedStack(c) == Begin(c, "destroy stack", "destroy", 0)

\* A failed run leaves a part of the stack, and everything else as it is.
DestroyStack(c) ==
  /\ At(c, "destroy")
  /\ \/ \E gone \in SUBSET Servers :
          stack' = [s \in Servers |-> IF s \in gone THEN NoHost ELSE stack[s]] /\ Return(c)
     \/ stack' = [s \in Servers |-> NoHost] /\ Goto(c, "targets")
  /\ UNCHANGED <<plan, targets, approval, shown, hosts, rows>>

\* removeManagedProject(), whose failure is a warning of destroy() and an error of
\* the handler that destroys a discovered stack, which keeps the plan.
RemoveTargets(c) ==
  /\ At(c, "targets")
  /\ targets' \in {targets, {}}
  /\ IF run[c].op = "destroy" THEN Goto(c, "forget") ELSE Return(c)
  /\ UNCHANGED <<plan, stack, approval, shown, hosts, rows>>

\* The approval goes with the plan, or stays with it.
DeletePlan(c) ==
  /\ At(c, "forget")
  /\ \/ plan' = NoPlan /\ approval' = NoApproval
     \/ UNCHANGED <<plan, approval>>
  /\ Return(c)
  /\ UNCHANGED <<stack, targets, shown, hosts, rows>>

------------------------------------------------------------------------------

StackInit ==
  /\ plan = NoPlan /\ stack = [s \in Servers |-> NoHost] /\ targets = {}
  /\ approval = NoApproval /\ shown = <<>>
  /\ run = [c \in Calls |-> Idle]
  /\ hosts = 0 /\ rows = 0

StackNext ==
  \/ \E p \in SUBSET Servers : SavePlan(p)
  \/ \E t \in targets : RemoveTarget(t)
  \/ \E c \in Calls :
       \/ Preview(c) \/ Outputs(c) \/ Destroy(c) \/ DestroyManagedStack(c)
       \/ \E token \in DOMAIN shown : Apply(c, token)
       \/ LoadPlan(c) \/ Fails(c) \/ Previewed(c) \/ CheckApproval(c) \/ Up(c) \/ Spend(c)
       \/ ReadOutputs(c) \/ LoadForOutputs(c) \/ RemoveStale(c) \/ Synchronized(c)
       \/ \E s \in Servers : NextServer(c, s)
       \/ FindManaged(c) \/ CreateManaged(c) \/ UpdateManaged(c)
       \/ DestroyStack(c) \/ RemoveTargets(c) \/ DeletePlan(c)

StackSpec == StackInit /\ [][StackNext]_stackVars

------------------------------------------------------------------------------
(* Properties.                                                               *)

\* INFRASTRUCTURE-UPDATES.md: "Apply requires a preview token bound to the exact
\* persisted plan."  Whatever saves, previews and destructions overlap with it, an
\* apply runs the plan that was shown with the very token it presented.
AppliedAsPreviewed ==
  \A c \in Calls : run[c].op = "apply" /\ run[c].stage \in {"engine", "spend"}
                   => run[c].plan = shown[run[c].token]

\* ANSIBLE.md: "a changed public IP or a destroyed stack is reflected without
\* duplicating connection records", whatever synchronizations overlap.
OneTargetPerServer ==
  \A t, u \in targets : t.resource = u.resource => t = u
==============================================================================
