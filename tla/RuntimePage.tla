--------------------------- MODULE RuntimePage ---------------------------
(***************************************************************************)
(* The VPS runtime page and the approval of a change: a preview is shown,  *)
(* the names of what it removes are typed, a dialog is confirmed, and the  *)
(* main process derives the change again before it applies it.             *)
(*                                                                         *)
(* A change is known by the versions of the plan and of the host it was    *)
(* derived from.  Every call of the page is answered late; a call names    *)
(* the target of the render that made it, and its continuation runs        *)
(* whatever the page shows by then.                                        *)
(***************************************************************************)
EXTENDS PageCalls, Naturals, FiniteSets

CONSTANTS Targets,
          Removes,     \* Removes[h]: the names a host of version h makes a change remove
          MaxVersion,  \* bound on the versions of a plan and of a host
          MaxTokens,   \* bound on the previews that are answered
          MaxCalls     \* bound on calls under way when the user makes another

VARIABLES target,     \* the selected target
          inspected,
          preview,    \* the preview on offer
          typed,      \* names typed, each with the preview it was typed under
          dialog,     \* what is being confirmed
          known,      \* the mode each plan is shown in
          calls,      \* calls under way
          plan, host, \* in the main process and on the servers
          approved,   \* RuntimePlanService.previews
          tokens,     \* tokens handed out
          applied     \* the change applied last, and what it was confirmed as

pageVars == <<target, inspected, preview, typed, dialog, known>>
mainVars == <<plan, host, approved, tokens, applied>>
runtimePageVars == <<pageVars, mainVars, calls>>

Modes == {"legacy", "managed"}
Names == UNION {Removes[h] : h \in 0..MaxVersion}
IsAt(kinds) == \E c \in calls : c.kind \in kinds

AtHand == dialog = None /\ Cardinality(calls) < MaxCalls

ChangeOf(t) == [plan |-> plan[t].version, host |-> host[t]]
destructive(p) == Removes[p.change.host]
confirmedAll(p) == \A n \in destructive(p) : \E entry \in typed : entry.name = n

------------------------------------------------------------------------------
(* The page.                                                                 *)

dropPreview == preview' = None /\ typed' = {}

SelectTarget(t) ==
  /\ dialog = None
  /\ target' = t /\ inspected' = FALSE
  /\ dropPreview
  /\ UNCHANGED <<dialog, known, calls, mainVars>>

Inspect ==
  /\ dialog = None /\ target # None
  /\ inspected' = TRUE
  /\ UNCHANGED <<target, preview, typed, dialog, known, calls, mainVars>>

\* The plan on show is read again after a write and whenever the window is looked at.
PlanRead ==
  /\ target # None /\ known[target] # plan[target].mode
  /\ known' = [known EXCEPT ![target] = plan[target].mode]
  /\ UNCHANGED <<target, inspected, preview, typed, dialog, calls, mainVars>>

SetMode(mode) ==
  /\ AtHand /\ target # None
  /\ dropPreview
  /\ calls' = calls \cup {[kind |-> "setMode", target |-> target, mode |-> mode]}
  /\ UNCHANGED <<target, inspected, dialog, known, mainVars>>

Release ==
  /\ AtHand /\ inspected
  /\ calls' = calls \cup {[kind |-> "release", target |-> target]}
  /\ UNCHANGED <<pageVars, mainVars>>

Preview ==
  /\ AtHand /\ inspected /\ known[target] # "legacy"
  /\ ~IsAt({"preview", "previewed"})
  /\ calls' = calls \cup {[kind |-> "preview", target |-> target]}
  /\ UNCHANGED <<pageVars, mainVars>>

Type(name) ==
  /\ dialog = None /\ inspected /\ known[target] # "legacy"
  /\ preview # None /\ name \in destructive(preview)
  /\ typed' = {e \in typed : e.name # name} \cup {[name |-> name, under |-> preview.token]}
  /\ UNCHANGED <<target, inspected, preview, dialog, known, calls, mainVars>>

\* A button opens a dialog; what follows uses the render of the button.
AskApply ==
  /\ AtHand /\ inspected /\ known[target] # "legacy"
  /\ preview # None /\ preview.applyable /\ confirmedAll(preview)
  /\ ~IsAt({"apply", "applying"})
  /\ dialog' = [kind |-> "apply", target |-> target, preview |-> preview,
                typed |-> {e \in typed : e.name \in destructive(preview)}]
  /\ UNCHANGED <<target, inspected, preview, typed, known, calls, mainVars>>

AskAdopt ==
  /\ AtHand /\ inspected
  /\ dialog' = [kind |-> "adopt", target |-> target]
  /\ UNCHANGED <<target, inspected, preview, typed, known, calls, mainVars>>

Confirm ==
  /\ dialog # None
  /\ dialog' = None
  /\ calls' = calls \cup {dialog}
  /\ UNCHANGED <<target, inspected, preview, typed, known, mainVars>>

Decline ==
  /\ dialog # None
  /\ dialog' = None
  /\ UNCHANGED <<target, inspected, preview, typed, known, calls, mainVars>>

------------------------------------------------------------------------------
(* The main process, and what the page makes of its answers.                 *)

\* setMode, adopt and release are one write of the plan each.  The page drops its
\* preview when an adoption is answered; a mode dropped it when it was sent.
PlanWritten(c, works) ==
  /\ c.kind \in {"setMode", "adopt", "release"}
  /\ calls' = calls \ {c}
  /\ IF works /\ plan[c.target].version < MaxVersion
     THEN /\ plan' = [plan EXCEPT ![c.target] =
                        [version |-> @.version + 1,
                         mode |-> IF c.kind = "setMode" THEN c.mode ELSE @.mode]]
          /\ IF c.kind = "adopt" THEN dropPreview ELSE UNCHANGED <<preview, typed>>
     ELSE UNCHANGED <<plan, preview, typed>>
  /\ UNCHANGED <<target, inspected, dialog, known, host, approved, tokens, applied>>

\* The preview of a target replaces the one before, which can no longer be applied.
Previewed(c) ==
  /\ c.kind = "preview" /\ tokens < MaxTokens
  /\ tokens' = tokens + 1
  /\ approved' = [approved EXCEPT ![c.target] =
                    [token |-> tokens + 1, change |-> ChangeOf(c.target)]]
  /\ calls' = (calls \ {c}) \cup
       {[kind |-> "previewed",
         preview |-> [token |-> tokens + 1, target |-> c.target,
                      change |-> ChangeOf(c.target),
                      applyable |-> plan[c.target].mode # "legacy"]]}
  /\ UNCHANGED <<pageVars, plan, host, applied>>

\* Variant: names that were typed for another preview stay typed.
ShowPreviewOnly(c) ==
  /\ c.kind = "previewed"
  /\ preview' = c.preview
  /\ calls' = calls \ {c}
  /\ UNCHANGED <<target, inspected, typed, dialog, known, mainVars>>

ShowPreview(c) ==
  /\ c.kind = "previewed"
  /\ preview' = c.preview /\ typed' = {}
  /\ calls' = calls \ {c}
  /\ UNCHANGED <<target, inspected, dialog, known, mainVars>>

PreviewFails(c) ==
  /\ c.kind = "preview"
  /\ calls' = calls \ {c}
  /\ UNCHANGED <<pageVars, mainVars>>

Accepts(c) ==
  /\ approved[c.target] # None /\ approved[c.target].token = c.preview.token
  /\ approved[c.target].change = ChangeOf(c.target)
  /\ plan[c.target].mode # "legacy"
  /\ Removes[host[c.target]] \subseteq destructive(c.preview)

\* The approval is spent before the commands are sent.
ApplyStarts(c) ==
  /\ c.kind = "apply" /\ Accepts(c)
  /\ approved' = [approved EXCEPT ![c.target] = None]
  /\ applied' = [target |-> c.target, change |-> ChangeOf(c.target), as |-> c]
  /\ calls' = (calls \ {c}) \cup {[kind |-> "applying", target |-> c.target]}
  /\ UNCHANGED <<pageVars, plan, host, tokens>>

\* All, some or none of the operations were done.
ApplyEnds(c, changes) ==
  /\ c.kind = "applying"
  /\ changes => host[c.target] < MaxVersion
  /\ host' = IF changes THEN [host EXCEPT ![c.target] = @ + 1] ELSE host
  /\ calls' = calls \ {c}
  /\ dropPreview
  /\ UNCHANGED <<target, inspected, dialog, known, plan, approved, tokens, applied>>

ApplyRefused(c) ==
  /\ c.kind = "apply" /\ ~Accepts(c)
  /\ calls' = calls \ {c}
  /\ dropPreview
  /\ UNCHANGED <<target, inspected, dialog, known, mainVars>>

\* A plan is also written by the other pages, a host changed by anybody.
Elsewhere(t) ==
  /\ plan[t].version + host[t] < MaxVersion
  /\ \/ plan' = [plan EXCEPT ![t].version = @ + 1] /\ UNCHANGED host
     \/ host' = [host EXCEPT ![t] = @ + 1] /\ UNCHANGED plan
  /\ UNCHANGED <<pageVars, calls, approved, tokens, applied>>

------------------------------------------------------------------------------

RuntimePageInit ==
  /\ target = None /\ inspected = FALSE /\ preview = None /\ typed = {} /\ dialog = None
  /\ plan = [t \in Targets |-> [version |-> 0, mode |-> "managed"]]
  /\ known = [t \in Targets |-> plan[t].mode]
  /\ host = [t \in Targets |-> 0]
  /\ approved = [t \in Targets |-> None] /\ tokens = 0
  /\ applied = None /\ calls = {}

RuntimePageNext ==
  \/ \E t \in Targets : SelectTarget(t) \/ Elsewhere(t)
  \/ PlanRead \/ Inspect \/ Release \/ Preview \/ AskApply \/ AskAdopt \/ Confirm \/ Decline
  \/ \E mode \in Modes : SetMode(mode)
  \/ \E name \in Names : Type(name)
  \/ \E c \in calls :
       \/ Previewed(c) \/ ShowPreview(c) \/ PreviewFails(c)
       \/ ApplyStarts(c) \/ ApplyRefused(c)
       \/ \E works \in BOOLEAN : PlanWritten(c, works) \/ ApplyEnds(c, works)

RuntimePageSpec == RuntimePageInit /\ [][RuntimePageNext]_runtimePageVars

------------------------------------------------------------------------------
(* Properties.                                                               *)

\* What is applied to a target is the change its preview showed: it was confirmed
\* while that target was selected, and each name it removes was typed under that very
\* preview, through late previews, changes of the target and of the plan
\* (runtime-plan-service: "Approving a screen must never authorise work the screen did
\* not describe").
AppliedAsConfirmed ==
  applied # None =>
    /\ applied.as.preview.target = applied.target
    /\ applied.as.preview.change = applied.change
    /\ \A n \in Removes[applied.change.host] :
         [name |-> n, under |-> applied.as.preview.token] \in applied.as.typed
==============================================================================
