--------------------------- MODULE IsolatedWorkspace ---------------------------
(***************************************************************************)
(* What the workspace session promises, with no mechanism: one project at  *)
(* a time is open, and work, caches, terminals and key files exist only    *)
(* for it.  A project is opened when nothing is held, and closed only once *)
(* nothing is held any more - switching is closing, then opening.          *)
(***************************************************************************)
CONSTANTS Projects, NoProject

VARIABLES
  open,  \* the open project
  held   \* the projects for which the process holds anything at all

abstractVars == <<open, held>>

Init == open = NoProject /\ held = {}

Open(p) ==
  /\ open = NoProject /\ held = {}
  /\ open' = p
  /\ UNCHANGED held

Work ==
  /\ open # NoProject
  /\ held' \in {{}, {open}}
  /\ UNCHANGED open

Close ==
  /\ open # NoProject /\ held = {}
  /\ open' = NoProject
  /\ UNCHANGED held

\* The process exits: everything it holds is gone with it.
Exit == open' = NoProject /\ held' = {}

Next == (\E p \in Projects : Open(p)) \/ Work \/ Close \/ Exit

Spec == Init /\ [][Next]_abstractVars
===============================================================================
