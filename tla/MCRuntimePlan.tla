------------------------- MODULE MCRuntimePlan -------------------------
(* Small instances of RuntimePlan.                                        *)
EXTENDS RuntimePlan, TLC

CONSTANTS n1, c1, i1, u1, u2, t1

\* A managed target whose plan puts its one container on its one network,
\* which Docker does not have yet.
ManagedPlan ==
  [version |-> 1, mode |-> "managed", networks |-> Networks,
   services |-> Containers, members |-> Containers \X Networks,
   adopted |-> {}, topology |-> {}]

BareHost ==
  [owner |-> [name \in Names |-> IF name \in Networks THEN "absent" ELSE "ours"],
   link |-> [m \in Containers \X Networks |-> "none"]]

NewPlan == emptyRuntimePlan

WritingKinds == {"edit", "setMode", "adopt", "release", "upsert", "discard", "remove"}
ApplyingKinds == {"edit", "preview", "apply"}
OverlappingKinds == {"preview", "apply"}

Symmetry == Permutations(Callers)
==============================================================================
