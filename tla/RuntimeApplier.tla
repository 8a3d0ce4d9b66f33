------------------------- MODULE RuntimeApplier -------------------------
(***************************************************************************)
(* ssh-runtime-applier.ts: one approved change executed on its host,       *)
(* operation by operation, stopping at the first failure; and the next     *)
(* attempt, after a new preview of what is left.  Nobody else touches the  *)
(* host here: interference belongs to RuntimePlan.                         *)
(***************************************************************************)
EXTENDS RuntimeDrift

VARIABLES plan,     \* the plan the change was derived from
          remove,   \* the networks the user agreed to delete
          docker,   \* what Docker has
          pending,  \* the operations not yet executed
          stage     \* "running", "failed" or "done"

applierVars == <<plan, remove, docker, pending, stage>>

Change == planRuntimeOperations(plan, docker, remove)

\* Every plan and every host an apply is not refused for.
ApplierInit ==
  /\ \E t \in PlannedTopologies, composed \in SUBSET Containers :
       /\ t.members \subseteq t.services \X t.networks
       /\ composed \subseteq t.services
       /\ plan = [mode |-> "managed", networks |-> t.networks,
                  services |-> t.services, members |-> t.members,
                  adopted |-> t.adopted, composed |-> composed]
  /\ remove \in SUBSET Networks
  /\ docker \in DockerHosts
  /\ WellFormedHost(docker)
  /\ ~Change.blocked
  /\ pending = executableOperations(Change)
  /\ stage = "running"

ExecuteNext ==
  /\ stage = "running"
  /\ pending # <<>>
  /\ Accepts(docker, Head(pending))
  /\ docker' = Execute(docker, Head(pending))
  /\ pending' = Tail(pending)
  /\ UNCHANGED <<plan, remove, stage>>

\* The connection drops or the command times out, before, while or after Docker
\* did what it was told; the rest of the operations is skipped.
FailNext ==
  /\ stage = "running"
  /\ pending # <<>>
  /\ docker' \in LeftBehind(docker, Head(pending))
  /\ pending' = <<>>
  /\ stage' = "failed"
  /\ UNCHANGED <<plan, remove>>

Finish ==
  /\ stage = "running"
  /\ pending = <<>>
  /\ stage' = "done"
  /\ UNCHANGED <<plan, remove, docker, pending>>

\* The user previews what is left and applies it.
ApplyAgain ==
  /\ stage = "failed"
  /\ ~Change.blocked
  /\ pending' = executableOperations(Change)
  /\ stage' = "running"
  /\ UNCHANGED <<plan, remove, docker>>

ApplierNext == ExecuteNext \/ FailNext \/ Finish \/ ApplyAgain

ApplierSpec == ApplierInit /\ [][ApplierNext]_applierVars

------------------------------------------------------------------------------
(* Properties.                                                               *)

\* Docker accepts every operation of a change when its turn comes: the order
\* of planRuntimeOperations() creates a network before anything is attached to
\* it and never removes one that something in the change still needs.
EveryOperationAccepted == pending # <<>> => Accepts(docker, Head(pending))

\* What is still to be executed is at every moment what a new preview would
\* list: an attempt that failed half way is continued by the next one, which
\* repeats nothing, and one that ran to its end leaves nothing to execute.
RetryIsRemainder ==
  stage \in {"running", "done"} => ToSet(pending) = ToSet(executableOperations(Change))

\* The two of them: an apply that was interrupted anywhere can be finished by another.
ApplyCanBeFinished == EveryOperationAccepted /\ RetryIsRemainder

\* The report and the change tell the user the same thing at every moment of an
\* apply: every operation still to be executed resolves a reported difference and
\* every difference that has a resolution is still to be executed; an apply that
\* ran to its end leaves only differences that no apply resolves.  The exception
\* is a container whose application writes its own Compose file: it is detached
\* from a planned network although the report does not mention the attachment.
OperationsReported ==
  stage \in {"running", "done"} =>
    UNION {Resolution(plan, docker, remove, e) : e \in detectRuntimeDrift(plan, docker)}
      = {op \in ToSet(pending) : ~(op.kind = "detach" /\ op.container \in plan.composed)}

\* What is neither ours nor adopted keeps its networks and its attachments: a
\* network of somebody else is never removed, and no attachment to it, or of a
\* container of somebody else, ends, unless it lacked an alias the plan wants: an
\* interrupted alias leaves the container outside, whoever it belongs to.
ForeignUntouched ==
  [][/\ \A name \in Names :
          ~isOwnedForTarget(plan, docker, name) /\ Present(docker, name) =>
            docker'.owner[name] = docker.owner[name]
     /\ \A c \in Containers, n \in Networks :
          /\ docker.link[<<c, n>>] = "current"
          /\ ~isOwnedForTarget(plan, docker, c) \/ ~isOwnedForTarget(plan, docker, n)
          => docker'.link[<<c, n>>] # "none"]_applierVars
==============================================================================
