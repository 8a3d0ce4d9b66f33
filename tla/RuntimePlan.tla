-------------------------- MODULE RuntimePlan --------------------------
(***************************************************************************)
(* RuntimePlanService and its store: the versioned plan of each target,    *)
(* edited by several windows and by the synchronizers of other features,   *)
(* and the changes previewed and applied to the target's host.             *)
(*                                                                         *)
(* Every await of the code ends a step: between two steps of one call the  *)
(* others run.  A plan of version 0 is one that has no row: the service    *)
(* answers the empty plan for it.                                          *)
(***************************************************************************)
EXTENDS RuntimeOperations, FiniteSets

CONSTANTS Targets,      \* ids of saved VPS targets
          Items,        \* routes, certificates, records that features synchronize
          Callers,      \* the calls that can be in progress at the same time
          Kinds,        \* the kinds of call this instance makes
          InitialPlan,  \* the plan each target starts with
          InitialHost,  \* what each target's host starts with
          MaxVersion,   \* bound on the versions of a plan
          MaxToken,     \* bound on the previews issued
          MaxDrift      \* bound on the changes made on hosts by others

ASSUME BoundsAssumption == MaxVersion \in Nat /\ MaxToken \in Nat /\ MaxDrift \in Nat

VARIABLES targets,          \* the targets that are stored
          plans,            \* the plan row of each target
          hosts,            \* what Docker has on each target
          previews,         \* RuntimePlanService.previews
          applyingTargets,  \* RuntimePlanService.applyingTargets
          shown,            \* the approvals the renderer was given
          lastToken,        \* tokens are fresh ids: a count stands for newUuid()
          call,             \* where each call is
          drift             \* changes made on hosts by others so far

vars == <<targets, plans, hosts, previews, applyingTargets, shown, lastToken, call,
          drift>>

------------------------------------------------------------------------------
(* Data.                                                                     *)

Plans ==
  [version : Nat, mode : Modes, networks : SUBSET Networks,
   services : SUBSET Containers, members : SUBSET (Containers \X Networks),
   adopted : SUBSET Names, topology : SUBSET Items]

emptyRuntimePlan ==
  [version |-> 0, mode |-> "legacy", networks |-> {}, services |-> {},
   members |-> {}, adopted |-> {}, topology |-> {}]

ASSUME InitialAssumption ==
  InitialPlan \in Plans /\ InitialHost \in DockerHosts /\ WellFormedHost(InitialHost)

\* What a preview stands for: fingerprintChange().
fingerprintChange(plan, host, remove) ==
  LET change == planRuntimeOperations(plan, host, remove)
  IN [planVersion |-> plan.version, operations |-> change.operations,
      blocked |-> change.blocked, remove |-> remove]

Changes == [planVersion : Nat, operations : Seq(RuntimeOperationSet),
            blocked : BOOLEAN, remove : SUBSET Networks]
NoChange == [planVersion |-> 0, operations |-> <<>>, blocked |-> FALSE, remove |-> {}]

\* An approval: the token of a preview and the change it was minted for.
Approvals == [token : Nat, target : Targets, change : Changes]
NoApproval(t) == [token |-> 0, target |-> t, change |-> NoChange]

SyncKinds == {"upsert", "discard"}
WriteKinds == {"edit", "setMode", "adopt", "release"} \cup SyncKinds
AllKinds == WriteKinds \cup {"remove", "preview", "apply"}

AnsweredStages == {"idle", "conflict"}
WriteStages == {"viewing", "inspecting", "checking", "storing", "writing", "retrying"}
Stages == AnsweredStages \cup WriteStages
            \cup {"forgetting", "deriving", "resolving", "applying"}

Calls ==
  [stage : Stages, kind : AllKinds \cup {NoName}, target : Targets \cup {NoName},
   base : Plans,                             \* the plan the call works from
   next : Plans,                             \* the plan it wants to store
   seen : Plans,                             \* the row its update is conditional on
   attempt : Nat,
   arg : Names \cup Items \cup {NoName},     \* the name or item it is about
   remove : SUBSET Networks, confirmations : SUBSET Networks,
   token : Nat, change : Changes, pending : Seq(RuntimeOperationSet)]

NoCall ==
  [stage |-> "idle", kind |-> NoName, target |-> NoName,
   base |-> emptyRuntimePlan, next |-> emptyRuntimePlan, seen |-> emptyRuntimePlan,
   attempt |-> 0, arg |-> NoName, remove |-> {}, confirmations |-> {},
   token |-> 0, change |-> NoChange, pending |-> <<>>]

Started(kind, t) == [NoCall EXCEPT !.kind = kind, !.target = t]

Ready(c, kind) == kind \in Kinds /\ call[c].stage \in AnsweredStages

Answer(c) == call' = [call EXCEPT ![c] = NoCall]
Answered(c, stage) == call' = [call EXCEPT ![c] = [NoCall EXCEPT !.stage = stage]]

\* The bounds: every write in progress may still add one version, every
\* preview in progress one token.
Writers(t) == {c \in Callers : call[c].target = t /\ call[c].kind \in WriteKinds}
MayWrite(t) == plans[t].version + Cardinality(Writers(t)) < MaxVersion
MayPreview ==
  lastToken + Cardinality({c \in Callers : call[c].kind = "preview"}) < MaxToken

Toggle(S, x) == (S \ {x}) \cup ({x} \ S)

\* A valid plan has no member that is not one of its services on one of its
\* networks.
Tidy(plan) ==
  [plan EXCEPT !.members = @ \cap (plan.services \X plan.networks)]

OtherMode(mode) == IF mode = "legacy" THEN "managed" ELSE "legacy"

\* What the user can make of a plan in one edit.
Edits(plan) ==
  {[plan EXCEPT !.mode = OtherMode(@)]}
    \cup {Tidy([plan EXCEPT !.networks = Toggle(@, n)]) : n \in Networks}
    \cup {Tidy([plan EXCEPT !.services = Toggle(@, c)]) : c \in Containers}
    \cup {[plan EXCEPT !.members = Toggle(@, m)] :
            m \in plan.services \X plan.networks}
    \cup {[plan EXCEPT !.topology = Toggle(@, i)] : i \in Items}

\* What setMode, adopt, release and a feature's synchronizer make of a plan.
Mutated(kind, plan, arg) ==
  CASE kind = "setMode" -> [plan EXCEPT !.mode = OtherMode(@)]
    [] kind = "adopt"   -> [plan EXCEPT !.adopted = @ \cup {arg}]
    [] kind = "release" -> [plan EXCEPT !.adopted = @ \ {arg}]
    [] kind = "upsert"  -> [plan EXCEPT !.topology = @ \cup {arg}]
    [] kind = "discard" -> [plan EXCEPT !.topology = @ \ {arg}]

Arguments(kind) ==
  CASE kind = "setMode" -> {NoName}
    [] kind \in {"adopt", "release"} -> Names
    [] kind \in SyncKinds -> Items

------------------------------------------------------------------------------
(* Reading a plan and asking for a change of it.                             *)

\* runtime:getPlan, whose answer an editor keeps open.
View(c, t) ==
  /\ Ready(c, "edit")
  /\ MayWrite(t)
  /\ call' = [call EXCEPT ![c] =
       [Started("edit", t) EXCEPT !.stage = "viewing", !.base = plans[t]]]
  /\ UNCHANGED <<targets, plans, hosts, previews, applyingTargets, shown, lastToken, drift>>

\* runtime:savePlan with the plan the user made of it.
Submit(c) ==
  /\ call[c].stage = "viewing"
  /\ \E plan \in Edits(call[c].base) :
       call' = [call EXCEPT ![c].stage = "checking", ![c].next = plan]
  /\ UNCHANGED <<targets, plans, hosts, previews, applyingTargets, shown, lastToken, drift>>

\* The first read of setMode, adopt, release and mutateTopology.  A change
\* that changes nothing is answered at once.  What is adopted must exist, so
\* the host is inspected before it is recorded.
Derive(c, kind, t, arg, attempt) ==
  LET next == Mutated(kind, plans[t], arg)
  IN IF next = plans[t] THEN Answer(c)
     ELSE call' = [call EXCEPT ![c] =
            [Started(kind, t) EXCEPT
               !.stage = IF kind = "adopt" THEN "inspecting" ELSE "checking",
               !.base = plans[t], !.next = next, !.arg = arg, !.attempt = attempt]]

Ask(c, kind, t) ==
  /\ Ready(c, kind)
  /\ kind \in WriteKinds \ {"edit"}
  /\ MayWrite(t)
  /\ \E arg \in Arguments(kind) : Derive(c, kind, t, arg, 0)
  /\ UNCHANGED <<targets, plans, hosts, previews, applyingTargets, shown, lastToken, drift>>

InspectForAdopt(c) ==
  /\ call[c].stage = "inspecting"
  /\ call[c].kind = "adopt"
  /\ IF call[c].target \in targets /\ Present(hosts[call[c].target], call[c].arg)
     THEN call' = [call EXCEPT ![c].stage = "checking"]
     ELSE Answer(c)
  /\ UNCHANGED <<targets, plans, hosts, previews, applyingTargets, shown, lastToken, drift>>

------------------------------------------------------------------------------
(* RuntimePlanService.save and PrismaRuntimePlanStore.save.                  *)

\* Variant: a lost race repeats the update without reading the row again.
ConflictRewrites(c) ==
  IF call[c].kind \in SyncKinds /\ call[c].attempt < 2
  THEN call' = [call EXCEPT ![c].stage = "writing"]
  ELSE Answered(c, "conflict")

\* A conflict is retried by mutateTopology(), three attempts in all, and
\* answered to everybody else.
Conflict(c) ==
  IF call[c].kind \in SyncKinds /\ call[c].attempt < 2
  THEN call' = [call EXCEPT ![c].stage = "retrying"]
  ELSE Answered(c, "conflict")

Retry(c) ==
  /\ call[c].stage = "retrying"
  /\ Derive(c, call[c].kind, call[c].target, call[c].arg, call[c].attempt + 1)
  /\ UNCHANGED <<targets, plans, hosts, previews, applyingTargets, shown, lastToken, drift>>

\* The service's own comparison of versions, on the row it loads.
CheckVersion(c) ==
  /\ call[c].stage = "checking"
  /\ IF call[c].base.version = plans[call[c].target].version
     THEN call' = [call EXCEPT ![c].stage = "storing"]
     ELSE Conflict(c)
  /\ UNCHANGED <<targets, plans, hosts, previews, applyingTargets, shown, lastToken, drift>>

\* Variant: the store expects the version that is being written.
ReadRowExpectingNext(c) ==
  /\ call[c].stage = "storing"
  /\ IF call[c].base.version + 1 = plans[call[c].target].version
     THEN call' = [call EXCEPT ![c].stage = "writing",
                               ![c].seen = plans[call[c].target]]
     ELSE Conflict(c)
  /\ UNCHANGED <<targets, plans, hosts, previews, applyingTargets, shown, lastToken, drift>>

\* The store reads the row again, and compares again.
ReadRow(c) ==
  /\ call[c].stage = "storing"
  /\ IF call[c].base.version = plans[call[c].target].version
     THEN call' = [call EXCEPT ![c].stage = "writing",
                               ![c].seen = plans[call[c].target]]
     ELSE Conflict(c)
  /\ UNCHANGED <<targets, plans, hosts, previews, applyingTargets, shown, lastToken, drift>>

\* Variant: the update is not conditional on the value that was read.
RowNotCompared(c) == TRUE

\* updateMany() where the value is the one read, or create() where there was
\* no row: both fail if the row is another one now.
RowUnchanged(c) == plans[call[c].target] = call[c].seen

Saved(c) == [call[c].next EXCEPT !.version = call[c].base.version + 1]

WriteRow(c) ==
  /\ call[c].stage = "writing"
  /\ IF RowUnchanged(c)
     THEN plans' = [plans EXCEPT ![call[c].target] = Saved(c)] /\ Answer(c)
     ELSE UNCHANGED plans /\ Conflict(c)
  /\ UNCHANGED <<targets, hosts, previews, applyingTargets, shown, lastToken, drift>>

------------------------------------------------------------------------------
(* Removing a target: its row, then its plan.                                *)

RemoveTarget(c, t) ==
  /\ Ready(c, "remove")
  /\ targets' = targets \ {t}
  /\ call' = [call EXCEPT ![c] = [Started("remove", t) EXCEPT !.stage = "forgetting"]]
  /\ UNCHANGED <<plans, hosts, previews, applyingTargets, shown, lastToken, drift>>

DeletePlan(c) ==
  /\ call[c].stage = "forgetting"
  /\ plans' = [plans EXCEPT ![call[c].target] = emptyRuntimePlan]
  /\ Answer(c)
  /\ UNCHANGED <<targets, hosts, previews, applyingTargets, shown, lastToken, drift>>

------------------------------------------------------------------------------
(* Preview: derive the change, and mint a token that authorizes it.          *)

StartPreview(c, t) ==
  /\ Ready(c, "preview")
  /\ MayPreview
  /\ \E remove \in SUBSET Networks :
       call' = [call EXCEPT ![c] =
         [Started("preview", t) EXCEPT
            !.stage = "inspecting", !.base = plans[t], !.remove = remove]]
  /\ UNCHANGED <<targets, plans, hosts, previews, applyingTargets, shown, lastToken, drift>>

\* What plannedChange() derives once the host of the target is inspected.
Derived(c) ==
  fingerprintChange(call[c].base, hosts[call[c].target], call[c].remove)

InspectForPreview(c) ==
  /\ call[c].stage = "inspecting"
  /\ call[c].kind = "preview"
  /\ IF call[c].target \in targets
     THEN LET approval == [token |-> lastToken + 1, target |-> call[c].target,
                           change |-> Derived(c)]
          IN /\ previews' = [previews EXCEPT ![call[c].target] = approval]
             /\ shown' = shown \cup {approval}
             /\ lastToken' = lastToken + 1
     ELSE UNCHANGED <<previews, shown, lastToken>>
  /\ Answer(c)
  /\ UNCHANGED <<targets, plans, hosts, applyingTargets, drift>>

------------------------------------------------------------------------------
(* Apply.                                                                    *)

\* The test of applyingTargets comes before every await of the call.
StartApply(c) ==
  /\ Ready(c, "apply")
  /\ \E approval \in shown, remove \in SUBSET Networks : \E confirmations \in SUBSET remove :
       /\ approval.target \notin applyingTargets
       /\ call' = [call EXCEPT ![c] =
            [Started("apply", approval.target) EXCEPT
               !.stage = "deriving", !.token = approval.token,
               !.remove = remove, !.confirmations = confirmations]]
  /\ UNCHANGED <<targets, plans, hosts, previews, applyingTargets, shown, lastToken, drift>>

LoadForApply(c) ==
  /\ call[c].stage = "deriving"
  /\ call' = [call EXCEPT ![c].stage = "inspecting",
                          ![c].base = plans[call[c].target]]
  /\ UNCHANGED <<targets, plans, hosts, previews, applyingTargets, shown, lastToken, drift>>

\* Variant: the change is not compared with the one previewed.
AuthorizedByToken(c, change) ==
  /\ previews[call[c].target].token = call[c].token
  /\ ~change.blocked
  /\ destructiveNames(change) \subseteq call[c].confirmations

\* The gates, all passed without an await in between.
Authorized(c, change) ==
  /\ previews[call[c].target].token = call[c].token
  /\ previews[call[c].target].change = change
  /\ ~change.blocked
  /\ destructiveNames(change) \subseteq call[c].confirmations

\* Variant: the approval is left for the end of the apply.
SpendLater(t) == UNCHANGED previews

Spend(t) == previews' = [previews EXCEPT ![t] = NoApproval(t)]

InspectForApply(c) ==
  /\ call[c].stage = "inspecting"
  /\ call[c].kind = "apply"
  /\ LET change == Derived(c)
         t == call[c].target
     IN IF t \in targets /\ Authorized(c, change)
        THEN /\ Spend(t)
             /\ IF executableOperations(change) = <<>>
                THEN Answer(c)
                ELSE call' = [call EXCEPT ![c].stage = "resolving",
                                          ![c].change = change]
        ELSE UNCHANGED previews /\ Answer(c)
  /\ UNCHANGED <<targets, plans, hosts, applyingTargets, shown, lastToken, drift>>

ResolveTarget(c) ==
  /\ call[c].stage = "resolving"
  /\ IF call[c].target \in targets
     THEN /\ applyingTargets' = applyingTargets \cup {call[c].target}
          /\ call' = [call EXCEPT ![c].stage = "applying",
                                  ![c].pending = executableOperations(call[c].change)]
     ELSE UNCHANGED applyingTargets /\ Answer(c)
  /\ UNCHANGED <<targets, plans, hosts, previews, shown, lastToken, drift>>

\* One command: the first that Docker refuses ends the apply.
RunOperation(c) ==
  /\ call[c].stage = "applying"
  /\ call[c].pending # <<>>
  /\ LET op == Head(call[c].pending)
         t == call[c].target
     IN IF Accepts(hosts[t], op)
        THEN /\ hosts' = [hosts EXCEPT ![t] = Execute(@, op)]
             /\ call' = [call EXCEPT ![c].pending = Tail(@)]
        ELSE /\ UNCHANGED hosts
             /\ call' = [call EXCEPT ![c].pending = <<>>]
  /\ UNCHANGED <<targets, plans, previews, applyingTargets, shown, lastToken, drift>>

ConnectionLost(c) ==
  /\ call[c].stage = "applying"
  /\ call[c].pending # <<>>
  /\ \E host \in LeftBehind(hosts[call[c].target], Head(call[c].pending)) :
       hosts' = [hosts EXCEPT ![call[c].target] = host]
  /\ call' = [call EXCEPT ![c].pending = <<>>]
  /\ UNCHANGED <<targets, plans, previews, applyingTargets, shown, lastToken, drift>>

EndApply(c) ==
  /\ call[c].stage = "applying"
  /\ call[c].pending = <<>>
  /\ applyingTargets' = applyingTargets \ {call[c].target}
  /\ Answer(c)
  /\ UNCHANGED <<targets, plans, hosts, previews, shown, lastToken, drift>>

------------------------------------------------------------------------------
(* What may happen to a call, to a host and to the process at any time.      *)

\* The database or the SSH connection fails before the step is made.
Fail(c) ==
  /\ call[c].stage \in Stages \ (AnsweredStages \cup {"viewing", "applying"})
  /\ Answer(c)
  /\ UNCHANGED <<targets, plans, hosts, previews, applyingTargets, shown, lastToken, drift>>

\* Compose, Jenkins or a person change one thing on a host.
Drifted(host) ==
  {h \in {[host EXCEPT !.owner[name] = owner] : name \in Names, owner \in Owners}
           \cup {[host EXCEPT !.link[m] = link] :
                   m \in Containers \X Networks, link \in Links}
     : WellFormedHost(h) /\ h # host}

Drift(t) ==
  /\ drift < MaxDrift
  /\ drift' = drift + 1
  /\ \E host \in Drifted(hosts[t]) : hosts' = [hosts EXCEPT ![t] = host]
  /\ UNCHANGED <<targets, plans, previews, applyingTargets, shown, lastToken, call>>

\* The process ends: calls, approvals and the guard are in memory.
Restart ==
  /\ \E c \in Callers : call[c].stage \notin AnsweredStages
  /\ call' = [c \in Callers |-> NoCall]
  /\ previews' = [t \in Targets |-> NoApproval(t)]
  /\ applyingTargets' = {}
  /\ shown' = {}
  /\ UNCHANGED <<targets, plans, hosts, lastToken, drift>>

------------------------------------------------------------------------------

Init ==
  /\ targets = Targets
  /\ plans = [t \in Targets |-> InitialPlan]
  /\ hosts = [t \in Targets |-> InitialHost]
  /\ previews = [t \in Targets |-> NoApproval(t)]
  /\ applyingTargets = {}
  /\ shown = {}
  /\ lastToken = 0
  /\ call = [c \in Callers |-> NoCall]
  /\ drift = 0

\* The steps of a call that is under way.
Write(c) ==
  InspectForAdopt(c) \/ Retry(c) \/ CheckVersion(c) \/ ReadRow(c) \/ WriteRow(c)

Apply(c) ==
  \/ LoadForApply(c) \/ InspectForApply(c) \/ ResolveTarget(c)
  \/ RunOperation(c) \/ EndApply(c)

Proceed(c) == Write(c) \/ Apply(c) \/ InspectForPreview(c) \/ DeletePlan(c)

Start(c) ==
  \/ \E t \in Targets :
       View(c, t) \/ RemoveTarget(c, t) \/ StartPreview(c, t)
         \/ \E kind \in Kinds : Ask(c, kind, t)
  \/ Submit(c)
  \/ StartApply(c)

Next ==
  \/ \E c \in Callers : Start(c) \/ Proceed(c) \/ Fail(c) \/ ConnectionLost(c)
  \/ \E t \in Targets : Drift(t)
  \/ Restart

Spec == Init /\ [][Next]_vars

\* Every database call answers, and every SSH command is under a timeout.
FairSpec == Spec /\ \A c \in Callers : WF_vars(Proceed(c))

------------------------------------------------------------------------------
(* Properties.                                                               *)

\* The ranges of the variables.
TypeOK ==
  /\ targets \subseteq Targets
  /\ plans \in [Targets -> Plans]
  /\ hosts \in [Targets -> DockerHosts]
  /\ previews \in [Targets -> Approvals]
  /\ applyingTargets \subseteq Targets
  /\ shown \subseteq Approvals
  /\ lastToken \in Nat
  /\ call \in [Callers -> Calls]
  /\ drift \in Nat

\* No edit of a stored target's plan is lost: whoever writes the plan made its
\* change from the very plan it replaces, however many awaits and retries ago
\* it read it.
NoLostUpdate ==
  [][\A t \in targets : plans'[t] # plans[t] /\ plans'[t] # emptyRuntimePlan =>
       \E c \in Callers :
         /\ call[c].target = t
         /\ call[c].base = plans[t]
         /\ plans'[t] = Saved(c)]_vars

\* The plans that one edit, or one call of a feature, makes of a plan.
ChangesOf(plan) ==
  Edits(plan) \cup
  UNION {{Mutated(kind, plan, arg) : arg \in Arguments(kind)} : kind \in WriteKinds \ {"edit"}}

\* To who looks at the stored plans only, the three comparisons, the awaits between them
\* and the retries are a register that changes in one step: each change is one that
\* somebody may make of the plan it replaces, never of an earlier one.
Register == INSTANCE PlanRegister WITH Changed <- ChangesOf
ImplementsRegister == Register!Spec

\* Nobody is told that the plan of a stored target was edited elsewhere when it
\* was not.
NoFalseConflict ==
  [][\A c \in Callers :
       /\ call[c].target \in targets
       /\ call[c].stage # "conflict"
       /\ call'[c].stage = "conflict"
       => plans[call[c].target] # call[c].base]_vars

Executing(c) == call[c].stage \in {"resolving", "applying"}

\* What an apply executes was shown to the user under the token it presented,
\* was not blocked, and deletes only networks whose names were typed.
OnlyApprovedRuns ==
  \A c \in Callers : Executing(c) =>
    /\ [token |-> call[c].token, target |-> call[c].target,
        change |-> call[c].change] \in shown
    /\ ~call[c].change.blocked
    /\ destructiveNames(call[c].change) \subseteq call[c].confirmations

\* One approval authorizes one apply: the token of an apply under way is spent,
\* and no other apply under way has it.
OneApplyPerApproval ==
  \A c \in Callers : Executing(c) =>
    /\ previews[call[c].target].token # call[c].token
    /\ \A d \in Callers \ {c} : Executing(d) => call[d].token # call[c].token

\* A token that was replaced or spent is never accepted again.
SpentStaysSpent ==
  [][\A approval \in shown :
       previews[approval.target].token # approval.token =>
         previews'[approval.target].token # approval.token]_vars

\* Every call is answered.
CallsAnswered ==
  \A c \in Callers :
    call[c].stage \notin AnsweredStages \cup {"viewing"} ~>
      call[c].stage \in AnsweredStages

\* docs/RUNTIME-PRODUCTION-READINESS-AUDIT.md: "One in-flight Apply per target
\* and a single-use token".  It does not hold.
OneApplyPerTarget ==
  \A c, d \in Callers :
    call[c].stage = "applying" /\ call[d].stage = "applying"
      /\ call[c].target = call[d].target => c = d
==============================================================================
