---------------------------- MODULE ProjectContext ----------------------------
(***************************************************************************)
(* The process-global project session: InMemoryProjectContext.  At most    *)
(* one project is open; every activation and every clearing advances the   *)
(* generation, so a lease names one activation for ever.                   *)
(*                                                                         *)
(* The random sessionId of a lease is abstracted: like the generation it   *)
(* is fresh at every activation, so comparing both is comparing one.       *)
(***************************************************************************)
EXTENDS Naturals

CONSTANTS
  Projects,   \* ids of project rows
  NoProject   \* "no project": the projectId of the null lease

ASSUME ContextAssumption == NoProject \notin Projects

VARIABLES
  active,     \* the lease of the open session, NoLease when locked
  generation  \* number of activations and clearings so far

contextVars == <<active, generation>>

Leases  == [project : Projects, generation : Nat \ {0}]
NoLease == [project |-> NoProject, generation |-> 0]

ContextTypeOK ==
  /\ active \in Leases \cup {NoLease}
  /\ generation \in Nat

ContextInit ==
  /\ active = NoLease
  /\ generation = 0

IsOpen == active # NoLease

\* Variant: the generation is not compared.
SameProject(lease) ==
  /\ IsOpen
  /\ active.project = lease.project

IsCurrent(lease) ==
  /\ IsOpen
  /\ active.project = lease.project
  /\ active.generation = lease.generation

\* Variant: the lease takes the counter before it is advanced.
ActivatePostIncrement(p) ==
  /\ generation' = generation + 1
  /\ active' = [project |-> p, generation |-> generation]

Activate(p) ==
  /\ generation' = generation + 1
  /\ active' = [project |-> p, generation |-> generation + 1]

Clear ==
  /\ generation' = generation + 1
  /\ active' = NoLease
===============================================================================
