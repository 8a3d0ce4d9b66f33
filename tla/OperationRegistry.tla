--------------------------- MODULE OperationRegistry ---------------------------
(***************************************************************************)
(* ProjectOperationRegistry: the work that must not outlive the session of *)
(* the project it was started for.  An operation is registered under a     *)
(* unique key; deactivating a project refuses while a non-abortable        *)
(* operation of it is registered, and otherwise aborts what it finds and   *)
(* waits until all of it has completed.                                    *)
(*                                                                         *)
(* The abort signal itself is not kept: an operation may end at any time,  *)
(* aborted or not, and an SSL sweep ignores the signal.                    *)
(***************************************************************************)
EXTENDS FiniteSets

VARIABLES
  operations,  \* registered operations
  awaited      \* keys deactivate() found and whose completion it still awaits

registryVars == <<operations, awaited>>

Operation(key, project, abortable) ==
  [key |-> key, project |-> project, abortable |-> abortable]

RegistryInit ==
  /\ operations = {}
  /\ awaited = {}

Registered(key) == \E o \in operations : o.key = key

OperationsOf(p) == {o \in operations : o.project = p}

BlockersOf(p) == {o \in OperationsOf(p) : ~o.abortable}

\* begin(), for each operation of a set: throws when a key is already active.
Begin(new) ==
  /\ \A o \in new : ~Registered(o.key)
  /\ operations' = operations \cup new
  /\ UNCHANGED awaited

\* complete(): resolves the promise a deactivation may be awaiting.
Complete(keys) ==
  /\ operations' = {o \in operations : o.key \notin keys}
  /\ awaited' = awaited \ keys

\* Variant: deactivate() aborts and does not wait.
AbortOnly(p) ==
  /\ BlockersOf(p) = {}
  /\ UNCHANGED <<operations, awaited>>

\* The part of deactivate() up to its await, when nothing refuses it.
AbortAndAwait(p) ==
  /\ BlockersOf(p) = {}
  /\ awaited' = {o.key : o \in OperationsOf(p)}
  /\ UNCHANGED operations

Drained == awaited = {}
===============================================================================
