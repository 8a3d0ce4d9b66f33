-------------------------- MODULE Deployments --------------------------
(***************************************************************************)
(* Deployments: the service that keeps their records, and the deployer     *)
(* that runs their steps on a host, one SSH command after the other.       *)
(*                                                                         *)
(* The call deploy:run holds a lease of the registry until it answers, and *)
(* a workspace with such a lease is not closed; the process may end        *)
(* though, and what it had begun is then settled when the project is       *)
(* opened again.  One application process is modelled.                     *)
(***************************************************************************)
EXTENDS Naturals, FiniteSets

CONSTANTS Runs,      \* deployments, one per call
          StepCount, \* steps of a template
          MaxCrashes \* bound on the ends of the process

VARIABLES deployment, \* the calls: where they are, and what they know
          record,     \* the status of each row, "none" before it is created
          onHost,     \* how many steps were begun there, and how many succeeded
          opening,    \* the project: closed, or opened
          crashes

deploymentVars == <<deployment, record, onHost, opening, crashes>>

UnderWay == {"connecting", "between", "asked", "step", "ending"}

Call(at) == [at |-> at, completed |-> 0, aborted |-> FALSE, succeeded |-> FALSE]

\* What a call does next changes nothing else.
Moves(d, to) == deployment' = [deployment EXCEPT ![d].at = to]

\* deploy() returns; its outcome is recorded next.
Returns(d, succeeded) ==
  deployment' = [deployment EXCEPT ![d].at = "ending", ![d].succeeded = succeeded]

------------------------------------------------------------------------------
(* One call.                                                                 *)

\* The row is created before anything is done.
Create(d) ==
  /\ opening = "open" /\ deployment[d].at = "none"
  /\ deployment' = [deployment EXCEPT ![d] = Call("connecting")]
  /\ record' = [record EXCEPT ![d] = "running"]
  /\ UNCHANGED <<onHost, opening, crashes>>

Connects(d) ==
  /\ deployment[d].at = "connecting"
  /\ \/ Moves(d, "between")
     \/ Returns(d, FALSE)
  /\ UNCHANGED <<record, onHost, opening, crashes>>

\* The signal is looked at before each step, and not after the last.
NextStep(d) ==
  /\ deployment[d].at = "between"
  /\ IF deployment[d].completed = StepCount THEN Returns(d, TRUE)
     ELSE IF deployment[d].aborted THEN Returns(d, FALSE) ELSE Moves(d, "asked")
  /\ UNCHANGED <<record, onHost, opening, crashes>>

\* The host starts the command, and only then is the signal listened to.
CommandBegins(d) ==
  /\ deployment[d].at = "asked"
  /\ \/ /\ Moves(d, "step")
        /\ onHost' = [onHost EXCEPT ![d].begun = @ + 1]
     \/ Returns(d, FALSE) /\ UNCHANGED onHost
  /\ UNCHANGED <<record, opening, crashes>>

\* A command ends, whether or not anyone still waits for it.
CommandEnds(d) ==
  /\ onHost[d].begun > onHost[d].ended
  /\ \E good \in BOOLEAN :
       /\ onHost' = [onHost EXCEPT ![d].ended = @ + 1,
                                   ![d].succeeded = IF good THEN @ + 1 ELSE @]
       /\ IF deployment[d].at # "step" THEN UNCHANGED deployment
          ELSE IF good
          THEN deployment' = [deployment EXCEPT ![d].at = "between", ![d].completed = @ + 1]
          ELSE Returns(d, FALSE)
  /\ UNCHANGED <<record, opening, crashes>>

\* The step's timer, or a connection that ends without an exit code: the command
\* may go on.
StepGivenUp(d) ==
  /\ deployment[d].at = "step"
  /\ Returns(d, FALSE)
  /\ UNCHANGED <<record, onHost, opening, crashes>>

\* deploy:cancel.  A step that was asked for and has not begun is not told.
Cancel(d) ==
  /\ opening = "open" /\ deployment[d].at \in UnderWay /\ ~deployment[d].aborted
  /\ deployment' = [deployment EXCEPT
       ![d].aborted = TRUE,
       ![d].at = IF @ \in {"connecting", "step"} THEN "ending" ELSE @]
  /\ UNCHANGED <<record, onHost, opening, crashes>>

\* The outcome is recorded; if that fails the row stays as it is.
Record(d) ==
  /\ deployment[d].at = "ending"
  /\ \/ /\ record' = [record EXCEPT ![d] =
                        IF deployment[d].succeeded THEN "success" ELSE "failed"]
        /\ Moves(d, "recorded")
     \/ Moves(d, "unrecorded") /\ UNCHANGED record
  /\ UNCHANGED <<onHost, opening, crashes>>

------------------------------------------------------------------------------
(* The workspace around it.                                                  *)

\* Variant: only the deployment's own lease is asked about, and that one is abortable.
AbortableOnly == TRUE

\* Calls that are not answered hold leases: deactivate() refuses.
LeaseFree == \A d \in Runs : deployment[d].at \notin UnderWay

Lock ==
  /\ opening = "open" /\ LeaseFree
  /\ opening' = "closed"
  /\ UNCHANGED <<deployment, record, onHost, crashes>>

\* recoverInterrupted() is sent off with the activation, before any call can be
\* handled; if it fails the project stays closed.
Unlock ==
  /\ opening = "closed"
  /\ opening' = "open"
  /\ record' = [d \in Runs |-> IF record[d] = "running" THEN "failed" ELSE record[d]]
  /\ UNCHANGED <<deployment, onHost, crashes>>

\* The commands on the host go on without the process.
Crash ==
  /\ crashes < MaxCrashes
  /\ crashes' = crashes + 1
  /\ opening' = "closed"
  /\ deployment' = [d \in Runs |-> IF deployment[d].at \in UnderWay
                                   THEN [deployment[d] EXCEPT !.at = "unrecorded"]
                                   ELSE deployment[d]]
  /\ UNCHANGED <<record, onHost>>

------------------------------------------------------------------------------

DeploymentsInit ==
  /\ deployment = [d \in Runs |-> Call("none")]
  /\ record = [d \in Runs |-> "none"]
  /\ onHost = [d \in Runs |-> [begun |-> 0, ended |-> 0, succeeded |-> 0]]
  /\ opening = "open"
  /\ crashes = 0

DeploymentsNext ==
  \/ \E d \in Runs :
       \/ Create(d) \/ Connects(d) \/ NextStep(d) \/ CommandBegins(d) \/ CommandEnds(d)
       \/ StepGivenUp(d) \/ Cancel(d) \/ Record(d)
  \/ Lock \/ Unlock \/ Crash

DeploymentsSpec == DeploymentsInit /\ [][DeploymentsNext]_deploymentVars

------------------------------------------------------------------------------
(* Properties.                                                               *)

\* A record says what became of its deployment.  A deployment that still works on
\* the host has a row that says so, so that no recovery settles it; one that is
\* said to have succeeded had every step of it succeed; and in an open project only
\* a deployment whose outcome could not be written is still said to be running.
RecordFollowsRun ==
  \A d \in Runs :
    /\ deployment[d].at \in UnderWay => record[d] = "running"
    /\ record[d] = "success" => onHost[d].succeeded = StepCount
    /\ opening = "open" /\ record[d] = "running" =>
         deployment[d].at \in UnderWay \cup {"unrecorded"}
==============================================================================
