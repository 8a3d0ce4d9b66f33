---------------------------- MODULE PlanRegister ----------------------------
(***************************************************************************)
(* What the store of runtime plans promises, with no calls, awaits and     *)
(* retries: a register for each target.  Every change of it is made of     *)
(* what it holds at that very moment, and has the next version.  Once the  *)
(* target is removed nothing is promised of its plan any more: a write     *)
(* that is under way may come after the deletion.                          *)
(***************************************************************************)
EXTENDS Naturals

CONSTANTS Targets, Plans,
          Changed(_)  \* the plans that one change can make of a plan

VARIABLES targets,  \* the targets that are stored
          plans     \* the plan of each

registerVars == <<targets, plans>>

Init == targets = Targets /\ plans \in [Targets -> Plans]

Change(t) ==
  /\ t \in targets
  /\ \E plan \in Changed(plans[t]) :
       plans' = [plans EXCEPT ![t] = [plan EXCEPT !.version = plans[t].version + 1]]
  /\ UNCHANGED targets

Remove(t) ==
  /\ targets' = targets \ {t}
  /\ UNCHANGED plans

\* The row of a removed target goes, and may come back.
Forget(t) ==
  /\ t \in Targets \ targets
  /\ plans'[t] \in Plans /\ plans' = [plans EXCEPT ![t] = plans'[t]]
  /\ UNCHANGED targets

Next == \E t \in Targets : Change(t) \/ Remove(t) \/ Forget(t)

Spec == Init /\ [][Next]_registerVars
=============================================================================
