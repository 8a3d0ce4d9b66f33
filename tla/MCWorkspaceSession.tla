--------------------------- MODULE MCWorkspaceSession ---------------------------
(***************************************************************************)
(* Small instances of WorkspaceSession.  Two projects make a switch, one   *)
(* request slot a call that overlaps a transition, two sweep slots two     *)
(* invocations of the scheduler that passed the same check.                *)
(***************************************************************************)
EXTENDS WorkspaceSession, TLC

CONSTANTS p1, p2, r1, r2

MCSymmetry == Permutations({p1, p2}) \cup Permutations({r1, r2})
===============================================================================
