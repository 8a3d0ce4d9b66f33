------------------------ MODULE InfrastructurePage ------------------------
(***************************************************************************)
(* The Infrastructure page: an editor filled from the saved plan, a        *)
(* preview bound to what the editor held when it was asked for, and an     *)
(* apply that saves the editor, asks about what it would destroy and       *)
(* presents the token of the preview.                                      *)
(*                                                                         *)
(* Whoever leaves the page leaves its calls under way: they go on with the *)
(* plan and the preview of their render, but no longer reach a page.  The  *)
(* engine's side of a preview and an apply is InfrastructureStack.         *)
(***************************************************************************)
EXTENDS PageCalls, Naturals, FiniteSets

CONSTANTS Plans,
          Empty,       \* the plan without resources
          Destructive, \* plans whose apply replaces or deletes something
          MaxOffers,   \* bound on the previews that are answered
          MaxVisits    \* bound on the visits of the page

VARIABLES visit,      \* which visit of the page this is, None between two
          visits,
          editor,     \* resources and config
          fetched,    \* the page's copy of the saved plan
          offered,    \* approvedPreview: its fingerprint and its token
          confirming, \* the operation that waits for a confirmation
          operations, \* the operations under way
          saved,      \* the saved plan
          approval,   \* InfrastructureService.previews
          shown,      \* the plan each token was shown for
          issued, changed,
          staying     \* the user stays until the operations of the page have ended

infrastructurePageVars ==
  <<visit, visits, editor, fetched, offered, confirming, operations, saved, approval, shown,
    issued, changed, staying>>
engineSide == <<saved, approval, shown, issued, changed>>

Here == visit # None
Mine(o) == Here /\ o.visit = visit
busy == \E o \in operations : Mine(o)

\* The preview is on offer while the editor holds what it is of.
currentPreview == IF offered # None /\ offered.plan = editor THEN offered ELSE None

------------------------------------------------------------------------------
(* The page.                                                                 *)

\* Without a saved plan the editor is empty.
Filled(plan) == IF plan = None THEN Empty ELSE plan

\* The effect on the plan overwrites the editor whenever another plan is fetched.
Fetch ==
  /\ Here /\ fetched # saved
  /\ fetched' = saved /\ editor' = Filled(saved)
  /\ UNCHANGED <<visit, visits, offered, confirming, operations, engineSide>>

Edit(p) ==
  /\ Here /\ confirming = None /\ p # editor
  /\ editor' = p
  /\ UNCHANGED <<visit, visits, fetched, offered, confirming, operations, engineSide>>

Operation(kind, stage) ==
  [kind |-> kind, stage |-> stage, visit |-> visit, plan |-> editor,
   preview |-> currentPreview, loaded |-> None]

Begin(kind, stage) ==
  /\ Here /\ ~busy /\ confirming = None
  /\ operations' = operations \cup {Operation(kind, stage)}
  /\ UNCHANGED <<visit, visits, editor, fetched, offered, confirming, engineSide>>

Save == Begin("save", "saving")
PreviewEditor == Begin("preview", "saving")
Apply == currentPreview # None /\ Begin("apply", "saving")

AskDestroy ==
  /\ Here /\ ~busy /\ confirming = None
  /\ confirming' = Operation("destroy", "called")
  /\ UNCHANGED <<visit, visits, editor, fetched, offered, operations, engineSide>>

ConfirmOperation ==
  /\ confirming # None
  /\ confirming' = None
  /\ operations' = operations \cup {[confirming EXCEPT !.stage = "called"]}
  /\ UNCHANGED <<visit, visits, editor, fetched, offered, engineSide>>

DeclineOperation ==
  /\ confirming # None
  /\ confirming' = None
  /\ UNCHANGED <<visit, visits, editor, fetched, offered, operations, engineSide>>

\* What was saved is not put into the page's copy of the saved plan.
PlanSaved(o) ==
  /\ o.stage = "saving"
  /\ saved' = o.plan
  /\ CASE o.kind = "save" -> operations' = operations \ {o} /\ UNCHANGED confirming
       [] o.kind = "preview" ->
            operations' = (operations \ {o}) \cup {[o EXCEPT !.stage = "called"]}
            /\ UNCHANGED confirming
       [] o.kind = "apply" /\ o.preview.plan \in Destructive ->
            /\ confirming = None
            /\ operations' = operations \ {o} /\ confirming' = o
       [] OTHER ->
            operations' = (operations \ {o}) \cup {[o EXCEPT !.stage = "called"]}
            /\ UNCHANGED confirming
  /\ UNCHANGED <<visit, visits, editor, fetched, offered, approval, shown, issued, changed>>

\* Anything but a success ends an operation and changes nothing on the page.
Fails(o) ==
  /\ operations' = operations \ {o}
  /\ UNCHANGED <<visit, visits, editor, fetched, offered, confirming, engineSide>>

\* Another page is opened; a dialog keeps the user from it.
Leave ==
  /\ Here /\ confirming = None
  /\ staying => operations = {}
  /\ visit' = None /\ editor' = Empty /\ offered' = None
  /\ UNCHANGED <<visits, fetched, confirming, operations, engineSide>>

\* The page is filled from its copy at once, and fetches again.
Return ==
  /\ ~Here /\ confirming = None /\ visits < MaxVisits
  /\ visits' = visits + 1 /\ visit' = visits + 1
  /\ editor' = Filled(fetched)
  /\ UNCHANGED <<fetched, offered, confirming, operations, engineSide>>

\* A template, or the region of the project, is written from another page.
SavedElsewhere(p) ==
  /\ ~Here
  /\ saved' = p
  /\ UNCHANGED <<visit, visits, editor, fetched, offered, confirming, operations, approval,
                 shown, issued, changed>>

------------------------------------------------------------------------------
(* The main process.                                                         *)

LoadForPreview(o) ==
  /\ o.kind = "preview" /\ o.stage = "called" /\ saved # None
  /\ operations' = (operations \ {o}) \cup {[o EXCEPT !.stage = "engine", !.loaded = saved]}
  /\ UNCHANGED <<visit, visits, editor, fetched, offered, confirming, engineSide>>

\* setApprovedPreview({ fingerprint: planFingerprint, ... }) of the render that asked.
PreviewOf(o) == [plan |-> o.plan, token |-> issued']

PreviewShown(o) ==
  /\ o.kind = "preview" /\ o.stage = "engine" /\ issued < MaxOffers
  /\ issued' = issued + 1
  /\ approval' = [token |-> issued', plan |-> o.loaded]
  /\ shown' = [t \in 1 .. issued' |-> IF t = issued' THEN o.loaded ELSE shown[t]]
  /\ offered' = IF Mine(o) THEN PreviewOf(o) ELSE offered
  /\ operations' = operations \ {o}
  /\ UNCHANGED <<visit, visits, editor, fetched, confirming, saved, changed>>

\* Variant: the token alone is compared.
ApprovedByToken(o) == approval # None /\ approval.token = o.preview.token

Approved(o) ==
  approval # None /\ approval.token = o.preview.token /\ approval.plan = saved

Applies(o) ==
  /\ o.kind = "apply" /\ o.stage = "called" /\ Approved(o)
  /\ changed' = [plan |-> saved, editor |-> o.plan, shown |-> shown[o.preview.token]]
  /\ operations' = (operations \ {o}) \cup {[o EXCEPT !.stage = "engine"]}
  /\ UNCHANGED <<visit, visits, editor, fetched, offered, confirming, saved, approval, shown,
                 issued>>

ApplyEnded(o) ==
  /\ o.kind = "apply" /\ o.stage = "engine"
  /\ approval' = None
  /\ offered' = IF Mine(o) THEN None ELSE offered
  /\ operations' = operations \ {o}
  /\ UNCHANGED <<visit, visits, editor, fetched, confirming, saved, shown, issued, changed>>

Destroyed(o) ==
  /\ o.kind = "destroy" /\ o.stage = "called"
  /\ saved' = None /\ approval' = None /\ fetched' = None
  /\ IF Mine(o) THEN editor' = Empty /\ offered' = None
     ELSE /\ editor' = IF Here /\ fetched # None THEN Empty ELSE editor
          /\ UNCHANGED offered
  /\ operations' = operations \ {o}
  /\ UNCHANGED <<visit, visits, confirming, shown, issued, changed>>

------------------------------------------------------------------------------

InfrastructurePageInit ==
  /\ saved \in Plans \cup {None} /\ fetched = None /\ editor = Empty
  /\ visit = 1 /\ visits = 1
  /\ offered = None /\ confirming = None /\ operations = {}
  /\ approval = None /\ shown = <<>> /\ issued = 0 /\ changed = None
  /\ staying \in BOOLEAN

Use ==
  \/ Fetch \/ Save \/ PreviewEditor \/ Apply \/ AskDestroy
  \/ ConfirmOperation \/ DeclineOperation \/ Leave \/ Return
  \/ \E p \in Plans : Edit(p) \/ SavedElsewhere(p)
  \/ \E o \in operations :
       \/ PlanSaved(o) \/ Fails(o) \/ LoadForPreview(o) \/ PreviewShown(o)
       \/ Applies(o) \/ ApplyEnded(o) \/ Destroyed(o)

InfrastructurePageNext == Use /\ UNCHANGED staying

InfrastructurePageSpec ==
  InfrastructurePageInit /\ [][InfrastructurePageNext]_infrastructurePageVars

------------------------------------------------------------------------------
(* Properties.                                                               *)

\* An apply runs the plan that the engine had shown under the token it presents
\* (INFRASTRUCTURE-UPDATES.md: "a preview token bound to the exact persisted plan"); and
\* for a user who stays on the page until its operations have ended, that plan is what
\* the editor held when Apply was clicked, through edits and fetches in between.
AppliedIsOnScreen ==
  changed # None => /\ changed.plan = changed.shown
                    /\ staying => changed.plan = changed.editor

\* To such a user the page offers no apply that the main process refuses: what the page
\* takes for the current preview, the engine still holds the approval of, and of the plan
\* that was just saved.
OfferedIsApproved ==
  staying => \A o \in operations :
               o.kind = "apply" /\ o.stage = "called" => Approved(o)

\* The two of them: what is offered can be applied, and what is applied was offered.
OfferedAndApplied == AppliedIsOnScreen /\ OfferedIsApproved
==============================================================================
