------------------------- MODULE RendererPages_proofs -------------------------
(***************************************************************************)
(* Theorems about the renderer: its runtime page, what its pages show of    *)
(* the open project, its Infrastructure page, its Ansible page and its      *)
(* Cloudflare page, each for any values of the constants.                   *)
(***************************************************************************)
EXTENDS RuntimePage, WorkspacePages, InfrastructurePage, AnsiblePage,
        CloudflareConsole, FiniteSetTheorems, SequenceTheorems, TLAPS

------------------------------------------------------------------------------
(* The runtime page.                                                        *)

\* A preview, wherever it is, is what the main process still approves under its token,
\* if it approves anything under it.
IsGenuine(p) ==
  /\ p.token \in 1 .. tokens
  /\ \A t \in Targets :
       approved[t] # None /\ approved[t].token = p.token =>
         p.target = t /\ p.change = approved[t].change

\* Each name was typed under the preview that is confirmed.
IsConfirmed(c) ==
  \A n \in destructive(c.preview) : [name |-> n, under |-> c.preview.token] \in c.typed

IsSound(c) ==
  /\ c.kind \in {"preview", "apply"} => c.target \in Targets
  /\ c.kind \in {"previewed", "apply"} => IsGenuine(c.preview)
  /\ c.kind = "apply" => IsConfirmed(c)

ApprovalsOK ==
  /\ tokens \in Nat
  /\ approved = [t \in Targets |-> approved[t]]
  /\ \A t \in Targets : approved[t] # None => approved[t].token \in 1 .. tokens

PageOK ==
  /\ target \in Targets \cup {None}
  /\ inspected => target \in Targets
  /\ preview # None => IsGenuine(preview)
  /\ \A e \in typed : e = [name |-> e.name, under |-> preview.token]
  /\ dialog # None => IsSound(dialog)

\* The inductive invariant.
RuntimeIInv ==
  /\ ApprovalsOK
  /\ PageOK
  /\ \A c \in calls : IsSound(c)
  /\ AppliedAsConfirmed

------------------------------------------------------------------------------

(* Nothing was previewed, typed or applied at first.                         *)
LEMMA RuntimeInitIInv == RuntimePageInit => RuntimeIInv
BY DEF RuntimePageInit, RuntimeIInv, ApprovalsOK, PageOK, AppliedAsConfirmed

(* What the user does on the page changes no approval.                       *)
LEMMA RuntimeUserIInv ==
  ASSUME RuntimeIInv,
         \/ \E t \in Targets : SelectTarget(t) \/ Elsewhere(t)
         \/ PlanRead \/ Inspect \/ Release \/ Preview \/ AskApply \/ AskAdopt
         \/ Confirm \/ Decline
         \/ \E mode \in Modes : SetMode(mode)
         \/ \E name \in Names : Type(name)
  PROVE  RuntimeIInv'
<1> USE DEF pageVars, mainVars
<1>1. UNCHANGED <<approved, tokens, applied>>
  BY DEF SelectTarget, Elsewhere, PlanRead, Inspect, Release, Preview, AskApply, AskAdopt,
     Confirm, Decline, SetMode, Type
<1>2. ApprovalsOK' /\ AppliedAsConfirmed'
  BY <1>1 DEF RuntimeIInv, ApprovalsOK, AppliedAsConfirmed
<1>3. \A p : IsGenuine(p)' <=> IsGenuine(p)
  BY <1>1 DEF IsGenuine
<1>4. \A c : IsSound(c)' <=> IsSound(c)
  BY <1>3 DEF IsSound, IsConfirmed, destructive
<1> USE DEF RuntimeIInv, PageOK
<1>5. ASSUME NEW t \in Targets, SelectTarget(t) PROVE RuntimeIInv'
  BY <1>2, <1>4, <1>5 DEF SelectTarget, dropPreview
<1>6. ASSUME NEW t \in Targets, Elsewhere(t) PROVE RuntimeIInv'
  BY <1>2, <1>3, <1>4, <1>6 DEF Elsewhere
<1>7. CASE PlanRead
  BY <1>2, <1>3, <1>4, <1>7 DEF PlanRead
<1>8. CASE Inspect
  BY <1>2, <1>3, <1>4, <1>8 DEF Inspect
<1>9. CASE Release
  BY <1>2, <1>3, <1>4, <1>9 DEF Release, IsSound
<1>10. CASE Preview
  BY <1>2, <1>3, <1>4, <1>10 DEF Preview, IsSound
<1>11. CASE AskApply
  <2>1. IsConfirmed(dialog')
    BY <1>11 DEF AskApply, IsConfirmed, confirmedAll, destructive
  <2>2. IsSound(dialog')
    BY <1>11, <2>1 DEF AskApply, IsSound
  <2>3. QED
    BY <1>2, <1>3, <1>4, <1>11, <2>2 DEF AskApply
<1>12. CASE AskAdopt
  BY <1>2, <1>3, <1>4, <1>12 DEF AskAdopt, IsSound
<1>13. CASE Confirm
  BY <1>2, <1>3, <1>4, <1>13 DEF Confirm
<1>14. CASE Decline
  BY <1>2, <1>3, <1>4, <1>14 DEF Decline
<1>15. ASSUME NEW mode \in Modes, SetMode(mode) PROVE RuntimeIInv'
  BY <1>2, <1>4, <1>15 DEF SetMode, dropPreview, IsSound
<1>16. ASSUME NEW name \in Names, Type(name) PROVE RuntimeIInv'
  BY <1>2, <1>3, <1>4, <1>16 DEF Type
<1>17. QED
  BY <1>5, <1>6, <1>7, <1>8, <1>9, <1>10, <1>11, <1>12, <1>13, <1>14, <1>15, <1>16

(* A preview that is made takes a token no other has, and an approval that   *)
(* is spent is spent for good.                                               *)
LEMMA AnswerIInv ==
  ASSUME RuntimeIInv, NEW c \in calls,
         \/ Previewed(c) \/ ShowPreview(c) \/ PreviewFails(c)
         \/ ApplyStarts(c) \/ ApplyRefused(c)
         \/ \E works \in BOOLEAN : PlanWritten(c, works) \/ ApplyEnds(c, works)
  PROVE  RuntimeIInv'
<1> USE DEF pageVars, mainVars
<1>a. ASSUME UNCHANGED <<approved, tokens, applied>>
      PROVE  /\ ApprovalsOK' /\ AppliedAsConfirmed'
             /\ \A p : IsGenuine(p)' <=> IsGenuine(p)
             /\ \A d : IsSound(d)' <=> IsSound(d)
  <2>1. \A p : IsGenuine(p)' <=> IsGenuine(p)
    BY <1>a DEF IsGenuine
  <2>2. \A d : IsSound(d)' <=> IsSound(d)
    BY <2>1 DEF IsSound, IsConfirmed, destructive
  <2>3. QED
    BY <1>a, <2>1, <2>2 DEF RuntimeIInv, ApprovalsOK, AppliedAsConfirmed
<1>1. CASE Previewed(c)
  <2> DEFINE new == [token |-> tokens + 1, target |-> c.target, change |-> ChangeOf(c.target),
                     applyable |-> plan[c.target].mode # "legacy"]
             made == [token |-> tokens + 1, change |-> ChangeOf(c.target)]
  <2>1. /\ c.target \in Targets /\ tokens \in Nat /\ tokens' = tokens + 1
        /\ approved' = [approved EXCEPT ![c.target] = made]
        /\ calls' = (calls \ {c}) \cup {[kind |-> "previewed", preview |-> new]}
        /\ UNCHANGED <<target, inspected, preview, typed, dialog, applied>>
    BY <1>1 DEF Previewed, RuntimeIInv, IsSound, ApprovalsOK
  <2>2. \A t \in Targets : approved'[t] = IF t = c.target THEN made ELSE approved[t]
    BY <2>1 DEF RuntimeIInv, ApprovalsOK
  <2>3. made.token = tokens + 1 /\ made.change = ChangeOf(c.target)
    OBVIOUS
  <2>4. new.token = tokens + 1 /\ new.target = c.target /\ new.change = ChangeOf(c.target)
    OBVIOUS
  <2>5. [kind |-> "previewed", preview |-> new].kind = "previewed"
        /\ [kind |-> "previewed", preview |-> new].preview = new
    OBVIOUS
  <2> HIDE DEF new, made
  <2>6. ApprovalsOK'
    BY <2>1, <2>2, <2>3 DEF RuntimeIInv, ApprovalsOK
  <2>7. ASSUME NEW p, IsGenuine(p) PROVE IsGenuine(p)'
    BY <2>1, <2>2, <2>3, <2>7 DEF IsGenuine
  <2>8. \A d : IsSound(d) => IsSound(d)'
    BY <2>7 DEF IsSound, IsConfirmed, destructive
  <2>9. new.token \in 1 .. tokens' /\ \A t \in Targets :
          approved'[t] # None /\ approved'[t].token = new.token => t = c.target
    BY <2>1, <2>2, <2>4 DEF RuntimeIInv, ApprovalsOK
  <2>10. \A t \in Targets : approved'[t] # None /\ approved'[t].token = new.token =>
           new.target = t /\ new.change = approved'[t].change
    BY <2>2, <2>3, <2>4, <2>9
  <2>11. \A d \in calls' : IsSound(d)'
    <3>1. \A d \in calls : IsSound(d)'
      BY <2>8 DEF RuntimeIInv
    <3>2. ASSUME NEW d, d.kind = "previewed", d.preview = new PROVE IsSound(d)'
      BY <2>9, <2>10, <3>2 DEF IsSound, IsGenuine
    <3>3. QED
      BY <2>1, <2>5, <3>1, <3>2
  <2>12. PageOK'
    BY <2>1, <2>7, <2>8 DEF RuntimeIInv, PageOK
  <2>13. AppliedAsConfirmed'
    BY <2>1 DEF RuntimeIInv, AppliedAsConfirmed
  <2>14. QED
    BY <2>6, <2>11, <2>12, <2>13 DEF RuntimeIInv
<1>2. CASE ShowPreview(c)
  BY <1>2, <1>a DEF ShowPreview, RuntimeIInv, PageOK, IsSound
<1>3. CASE PreviewFails(c)
  BY <1>3, <1>a DEF PreviewFails, RuntimeIInv, PageOK
<1>4. CASE ApplyStarts(c)
  <2>1. /\ c.target \in Targets /\ IsGenuine(c.preview) /\ IsConfirmed(c) /\ Accepts(c)
        /\ approved' = [approved EXCEPT ![c.target] = None]
        /\ applied' = [target |-> c.target, change |-> ChangeOf(c.target), as |-> c]
        /\ calls' = (calls \ {c}) \cup {[kind |-> "applying", target |-> c.target]}
        /\ UNCHANGED <<target, inspected, preview, typed, dialog, tokens>>
    BY <1>4 DEF ApplyStarts, RuntimeIInv, IsSound
  <2>2. \A t \in Targets : approved'[t] = IF t = c.target THEN None ELSE approved[t]
    BY <2>1 DEF RuntimeIInv, ApprovalsOK
  <2>3. ApprovalsOK'
    BY <2>1, <2>2 DEF RuntimeIInv, ApprovalsOK
  <2>4. ASSUME NEW p, IsGenuine(p) PROVE IsGenuine(p)'
    BY <2>1, <2>2, <2>4 DEF IsGenuine
  <2>5. \A d : IsSound(d) => IsSound(d)'
    BY <2>4 DEF IsSound, IsConfirmed, destructive
  <2>6. \A d \in calls' : IsSound(d)'
    <3>1. \A d : d.kind = "applying" => IsSound(d)'
      BY DEF IsSound
    <3>2. [kind |-> "applying", target |-> c.target].kind = "applying"
      OBVIOUS
    <3>3. QED
      BY <2>1, <2>5, <3>1, <3>2 DEF RuntimeIInv
  <2>7. PageOK'
    BY <2>1, <2>4, <2>5 DEF RuntimeIInv, PageOK
  <2>8. c.preview.target = c.target /\ c.preview.change = ChangeOf(c.target)
    BY <2>1 DEF Accepts, IsGenuine
  <2>9. AppliedAsConfirmed'
    BY <2>1, <2>8 DEF AppliedAsConfirmed, IsConfirmed, destructive
  <2>10. QED
    BY <2>3, <2>6, <2>7, <2>9 DEF RuntimeIInv
<1>5. CASE ApplyRefused(c)
  BY <1>5, <1>a DEF ApplyRefused, dropPreview, RuntimeIInv, PageOK
<1>6. ASSUME NEW works \in BOOLEAN, PlanWritten(c, works) PROVE RuntimeIInv'
  BY <1>6, <1>a DEF PlanWritten, dropPreview, RuntimeIInv, PageOK
<1>7. ASSUME NEW changes \in BOOLEAN, ApplyEnds(c, changes) PROVE RuntimeIInv'
  BY <1>7, <1>a DEF ApplyEnds, dropPreview, RuntimeIInv, PageOK
<1>8. QED
  BY <1>1, <1>2, <1>3, <1>4, <1>5, <1>6, <1>7

(* The page never applies a change other than the one its preview showed,    *)
(* whichever answers come late, whatever is selected meanwhile and however   *)
(* the plan and the host change: a token is of one preview, a name that was  *)
(* typed is forgotten with the preview it was typed under, and the main      *)
(* process compares what it derives with what it approved.                   *)
THEOREM AppliesWhatWasConfirmed == RuntimePageSpec => []AppliedAsConfirmed
<1>1. RuntimeIInv /\ [RuntimePageNext]_runtimePageVars => RuntimeIInv'
  <2>1. ASSUME RuntimeIInv, UNCHANGED runtimePageVars PROVE RuntimeIInv'
    <3>1. \A p : IsGenuine(p)' <=> IsGenuine(p)
      BY <2>1 DEF runtimePageVars, mainVars, IsGenuine
    <3>2. \A d : IsSound(d)' <=> IsSound(d)
      BY <3>1 DEF IsSound, IsConfirmed, destructive
    <3>3. QED
      BY <2>1, <3>1, <3>2
      DEF runtimePageVars, pageVars, mainVars, RuntimeIInv, ApprovalsOK, PageOK,
        AppliedAsConfirmed
  <2>2. QED
    BY <2>1, RuntimeUserIInv, AnswerIInv DEF RuntimePageNext
<1>2. RuntimeIInv => AppliedAsConfirmed
  BY DEF RuntimeIInv
<1>3. QED
  BY <1>1, <1>2, RuntimeInitIInv, PTL DEF RuntimePageSpec

------------------------------------------------------------------------------
(* The pages and the open project.                                          *)

CallKinds == Transitions \cup {"read", "change"}
Places == Projects \cup {Nothing}
PageRequests == [kind : CallKinds, project : Places, query : Nat]
PageAnswers == [kind : CallKinds, project : Places, query : Nat, works : BOOLEAN]

WorkspaceTypeOK ==
  /\ session \in Places /\ active \in Places /\ cache \in Places
  /\ clears \in Nat /\ faults \in Nat
  /\ view \in [query : Nat \cup {Nothing}, data : Places]
  /\ toMain \in Seq(PageRequests) /\ queue \in Seq(PageRequests) /\ toPage \in Seq(PageAnswers)
  /\ handling \in SUBSET PageRequests /\ IsFiniteSet(handling)
  /\ stage \in {"idle", "closed", "active"}

\* The transitions that are on their way, at work, and answered.
AskedFor == {i \in DOMAIN toMain : toMain[i].kind \in Transitions}
AtWork == {c \in handling : c.kind \in Transitions}
Told == {i \in DOMAIN toPage : toPage[i].kind \in Transitions}

\* A user who waits has one transition under way, at one place.
OneAwaited ==
  /\ \A i, j \in AskedFor : i = j
  /\ \A c, d \in AtWork : c = d
  /\ \A i, j \in Told : i = j
  /\ Len(queue) <= 1
  /\ AskedFor # {} => AtWork = {} /\ Told = {} /\ queue = <<>>
  /\ AtWork # {} => Told = {} /\ queue = <<>>
  /\ Told # {} => queue = <<>>

\* What was asked in a project finds that project open, or none.
AskedOK(c) ==
  /\ c.kind \in {"unlock", "create"} => session = Nothing
  /\ c.kind \in {"lock", "delete", "session"} => session # Nothing /\ c.project = session
  /\ c.kind = "change" => active \in {Nothing, c.project}
  /\ c.kind = "read" => c.query <= clears

\* No change is behind an unlock: none is made while the renderer has no session.
Asking ==
  /\ \A i \in DOMAIN toMain : AskedOK(toMain[i])
  /\ \A i, j \in DOMAIN toMain :
       toMain[i].kind = "unlock" /\ toMain[j].kind = "change" => j < i

QueuedOK(c) ==
  /\ c.kind \in {"unlock", "lock", "delete"}
  /\ c.kind = "unlock" <=> session = Nothing
  /\ stage = "closed" => active = Nothing /\ c.kind # "lock"
  /\ stage = "active" => active = c.project /\ c.kind = "unlock"
  /\ c.kind = "unlock" => \A i \in DOMAIN toMain : toMain[i].kind # "change"

Queueing ==
  /\ \A i \in DOMAIN queue : QueuedOK(queue[i])
  /\ queue = <<>> => stage = "idle"

\* A read of the caches that are kept is one of the project the renderer is in.
ReadOK(c) ==
  c.kind = "read" => /\ c.query <= clears
                     /\ session # Nothing /\ c.query = clears => c.project = session

HandledOK(c) ==
  /\ c.kind \notin {"unlock", "lock", "delete"}
  /\ c.kind = "create" => session = Nothing
  /\ c.kind = "session" => /\ session # Nothing /\ c.project \in {Nothing, session}
                           /\ faults = 0 => c.project = session
  /\ ReadOK(c)
Handling == \A c \in handling : HandledOK(c)

ToldOK(a) ==
  /\ a.kind \in {"create", "unlock"} => session = Nothing
  /\ a.kind \in {"lock", "delete", "session"} => session # Nothing
  /\ a.works =>
       /\ a.kind = "unlock" => a.project = active
       /\ a.kind \in {"lock", "delete"} => active = Nothing
       /\ a.kind = "session" => /\ a.project \in {Nothing, session}
                                /\ faults = 0 => a.project = session
       /\ ReadOK(a)
Telling == \A i \in DOMAIN toPage : ToldOK(toPage[i])

Showing ==
  session # Nothing => /\ active \in {Nothing, session}
                       /\ cache \in {Nothing, session}
                       /\ view.query = clears /\ view.data \in {Nothing, session}

Acting == acted # Nothing => acted.as = acted.in

\* A transition that has changed the open project, and of which the page knows not yet.
IsMove(a) == a.works /\ a.kind \in {"unlock", "lock", "delete"}
Moved == stage # "idle" \/ \E i \in DOMAIN toPage : IsMove(toPage[i])

Agreeing == faults = 0 /\ ~Moved => session = active

PInv ==
  /\ WorkspaceTypeOK /\ OneAwaited
  /\ Asking /\ Queueing /\ Handling /\ Telling
  /\ Showing /\ Acting /\ Agreeing

\* The inductive invariant.
WorkspaceIInv == patient => PInv

------------------------------------------------------------------------------
(* Sequences.                                                                *)

(* What is appended is last, and the others keep their places.               *)
LEMMA AppendEntries ==
  ASSUME NEW S, NEW s \in Seq(S), NEW x \in S, NEW t, t = Append(s, x)
  PROVE  /\ t \in Seq(S) /\ Len(t) = Len(s) + 1 /\ t # <<>>
         /\ Len(s) + 1 \in DOMAIN t /\ t[Len(s) + 1] = x
         /\ \A i \in DOMAIN s : i \in DOMAIN t /\ t[i] = s[i] /\ i < Len(s) + 1
         /\ \A i \in DOMAIN t : i \in Nat /\ (i \in DOMAIN s \/ i = Len(s) + 1)
OBVIOUS

(* The others of a sequence are one place behind.                            *)
LEMMA TailEntries ==
  ASSUME NEW S, NEW s \in Seq(S), s # <<>>, NEW t, t = Tail(s)
  PROVE  /\ t \in Seq(S) /\ Len(t) = Len(s) - 1
         /\ Head(s) \in S /\ 1 \in DOMAIN s /\ s[1] = Head(s)
         /\ \A i \in DOMAIN t : i \in Nat /\ i + 1 \in DOMAIN s /\ t[i] = s[i + 1] /\ i + 1 # 1
OBVIOUS

(* What holds of a call depends on a few variables only.                     *)
LEMMA SameWorld ==
  ASSUME UNCHANGED <<session, clears, active, faults>>
  PROVE  \A c : /\ AskedOK(c)' <=> AskedOK(c)
                /\ HandledOK(c)' <=> HandledOK(c)
                /\ ToldOK(c)' <=> ToldOK(c)
BY DEF AskedOK, HandledOK, ToldOK, ReadOK

------------------------------------------------------------------------------
(* The renderer.                                                             *)

(* A call that may be sent is on its way behind all others.                  *)
LEMMA SendIInv ==
  ASSUME PInv, NEW call \in PageRequests, Send(call), AskedOK(call),
         call.kind \in Transitions => ~Awaited,
         call.kind = "change" => session # Nothing,
         UNCHANGED <<session, cache, clears>>,
         view' = view \/ view' = Mounted
  PROVE  PInv'
<1>1. /\ toMain' = Append(toMain, call)
      /\ UNCHANGED <<toPage, queue, stage, handling, active, acted, faults>>
  BY DEF Send
<1>2. /\ toMain' \in Seq(PageRequests) /\ Len(toMain) + 1 \in DOMAIN toMain'
      /\ toMain'[Len(toMain) + 1] = call
      /\ \A i \in DOMAIN toMain : i \in DOMAIN toMain' /\ toMain'[i] = toMain[i]
                                  /\ i < Len(toMain) + 1
      /\ \A i \in DOMAIN toMain' : i \in Nat /\ (i \in DOMAIN toMain \/ i = Len(toMain) + 1)
  BY <1>1, AppendEntries DEF PInv, WorkspaceTypeOK
<1>3. WorkspaceTypeOK'
  BY <1>1, <1>2 DEF PInv, WorkspaceTypeOK, Mounted
<1>4. OneAwaited'
  <2>1. AtWork' = AtWork /\ Told' = Told /\ queue' = queue
    BY <1>1 DEF AtWork, Told
  <2>2. CASE call.kind \in Transitions
    <3>1. AskedFor = {} /\ AtWork = {} /\ Told = {} /\ queue = <<>>
      BY <2>2 DEF Awaited, AskedFor, AtWork, Told
    <3>2. \A i \in AskedFor' : i = Len(toMain) + 1
      BY <1>2, <3>1 DEF AskedFor
    <3>3. QED
      BY <2>1, <3>1, <3>2 DEF PInv, OneAwaited
  <2>3. CASE call.kind \notin Transitions
    <3>1. AskedFor' = AskedFor
      BY <1>2, <2>3 DEF AskedFor
    <3>2. QED
      BY <2>1, <3>1 DEF PInv, OneAwaited
  <2>4. QED
    BY <2>2, <2>3
<1>5. \A c : /\ AskedOK(c)' <=> AskedOK(c)
             /\ HandledOK(c)' <=> HandledOK(c)
             /\ ToldOK(c)' <=> ToldOK(c)
  BY <1>1, SameWorld
<1>6. Asking'
  <2>1. \A i \in DOMAIN toMain' : AskedOK(toMain[i])'
    BY <1>2, <1>5 DEF PInv, Asking
  <2>2. ASSUME NEW i \in DOMAIN toMain', NEW j \in DOMAIN toMain',
               toMain'[i].kind = "unlock", toMain'[j].kind = "change"
        PROVE  j < i
    <3>1. CASE j = Len(toMain) + 1
      <4>1. session # Nothing
        BY <1>2, <2>2, <3>1
      <4>2. QED
        BY <1>2, <2>2, <4>1 DEF PInv, Asking, AskedOK
    <3>2. CASE j \in DOMAIN toMain
      BY <1>2, <2>2, <3>2 DEF PInv, Asking
    <3>3. QED
      BY <1>2, <3>1, <3>2
  <2>3. QED
    BY <2>1, <2>2 DEF Asking
<1>7. Queueing'
  <2>1. ASSUME NEW c, QueuedOK(c) PROVE QueuedOK(c)'
    <3>1. ASSUME c.kind = "unlock", NEW i \in DOMAIN toMain' PROVE toMain'[i].kind # "change"
      BY <1>2, <2>1, <3>1 DEF QueuedOK
    <3>2. QED
      BY <1>1, <2>1, <3>1 DEF QueuedOK
  <2>2. QED
    BY <1>1, <2>1 DEF PInv, Queueing
<1>8. Handling' /\ Telling'
  BY <1>1, <1>5 DEF PInv, Handling, Telling
<1>9. Showing'
  BY <1>1 DEF PInv, Showing, Mounted
<1>10. Acting' /\ Agreeing'
  BY <1>1 DEF PInv, Acting, Agreeing, Moved
<1>11. QED
  BY <1>3, <1>4, <1>6, <1>7, <1>8, <1>9, <1>10 DEF PInv

(* What the user does is sent in the project the renderer is in.             *)
LEMMA UserIInv ==
  ASSUME PInv, patient,
         \/ \E p \in Projects : OpenProject(p) \/ CreateProject(p)
         \/ LockProject \/ DeleteProject \/ SaveSettings \/ Visit \/ Change
  PROVE  PInv'
<1>1. ASSUME NEW kind \in {"create", "unlock"}, NEW p \in Projects, session = Nothing,
             Transition(kind, p)
      PROVE  PInv'
  <2>1. Call(kind, p) \in PageRequests
    BY DEF Call, PageRequests, CallKinds, Transitions, Places, PInv, WorkspaceTypeOK
  <2>2. AskedOK(Call(kind, p))
    BY <1>1 DEF AskedOK, Call
  <2>3. Call(kind, p).kind # "change"
    BY <1>1 DEF Call
  <2>4. QED
    BY <1>1, <2>1, <2>2, <2>3, SendIInv DEF Transition
<1>2. ASSUME NEW kind \in {"lock", "delete", "session"}, session # Nothing,
             Transition(kind, session)
      PROVE  PInv'
  <2>1. Call(kind, session) \in PageRequests
    BY DEF Call, PageRequests, CallKinds, Transitions, Places, PInv, WorkspaceTypeOK
  <2>2. AskedOK(Call(kind, session))
    BY <1>2 DEF AskedOK, Call
  <2>3. QED
    BY <1>2, <2>1, <2>2, SendIInv DEF Transition
<1>3. ASSUME NEW kind \in {"read", "change"}, session # Nothing, Send(Call(kind, session)),
             UNCHANGED <<session, cache, clears>>, view' = view \/ view' = Mounted
      PROVE  PInv'
  <2>1. Call(kind, session) \in PageRequests
    BY DEF Call, PageRequests, CallKinds, Places, PInv, WorkspaceTypeOK
  <2>2. AskedOK(Call(kind, session))
    BY <1>3 DEF AskedOK, Call, PInv, Showing, WorkspaceTypeOK
  <2>3. Call(kind, session).kind \notin Transitions
    BY <1>3 DEF Call, Transitions
  <2>4. QED
    BY <1>3, <2>1, <2>2, <2>3, SendIInv
<1>4. QED
  BY <1>1, <1>2, <1>3
  DEF OpenProject, CreateProject, LockProject, DeleteProject, SaveSettings, Visit, Change

(* When a transition is answered nothing else is under way but reads and     *)
(* changes.                                                                  *)
LEMMA ToldAlone ==
  ASSUME PInv, toPage # <<>>, toPage' = Tail(toPage)
  PROVE  /\ toPage' \in Seq(PageAnswers)
         /\ Head(toPage) \in PageAnswers /\ ToldOK(Head(toPage))
         /\ \A i \in DOMAIN toPage' : i + 1 \in DOMAIN toPage /\ toPage'[i] = toPage[i + 1]
         /\ \A i, j \in Told' : i = j
         /\ Told' # {} => Told # {}
         /\ Head(toPage).kind \in Transitions =>
              Told' = {} /\ AskedFor = {} /\ AtWork = {} /\ queue = <<>>
         /\ ~IsMove(Head(toPage)) => (Moved <=> stage # "idle" \/
              \E i \in DOMAIN toPage' : IsMove(toPage'[i]))
<1>1. /\ toPage' \in Seq(PageAnswers) /\ Len(toPage') = Len(toPage) - 1
      /\ Head(toPage) \in PageAnswers /\ 1 \in DOMAIN toPage /\ toPage[1] = Head(toPage)
      /\ \A i \in DOMAIN toPage' : i \in Nat /\ i + 1 \in DOMAIN toPage
                                   /\ toPage'[i] = toPage[i + 1] /\ i + 1 # 1
  BY TailEntries DEF PInv, WorkspaceTypeOK
<1>2. ToldOK(Head(toPage))
  BY <1>1 DEF PInv, Telling
<1>3. \A i \in Told' : i \in Nat /\ i + 1 \in Told /\ i + 1 # 1
  BY <1>1 DEF Told
<1>4. \A i, j \in Told' : i = j
  <2>1. ASSUME NEW i \in Told', NEW j \in Told' PROVE i = j
    <3>1. i + 1 = j + 1
      BY <1>3 DEF PInv, OneAwaited
    <3>2. QED
      BY <1>3, <3>1
  <2>2. QED
    BY <2>1
<1>5. Head(toPage).kind \in Transitions => 1 \in Told
  BY <1>1 DEF Told
<1>6. Head(toPage).kind \in Transitions =>
        Told' = {} /\ AskedFor = {} /\ AtWork = {} /\ queue = <<>>
  BY <1>3, <1>5 DEF PInv, OneAwaited
<1>7. ASSUME ~IsMove(Head(toPage))
      PROVE  (\E i \in DOMAIN toPage : IsMove(toPage[i])) <=>
             \E i \in DOMAIN toPage' : IsMove(toPage'[i])
  <2>1. ASSUME NEW i \in DOMAIN toPage, IsMove(toPage[i])
        PROVE  \E j \in DOMAIN toPage' : IsMove(toPage'[j])
    <3>1. i # 1
      BY <1>1, <1>7, <2>1
    <3>2. i - 1 \in DOMAIN toPage' /\ (i - 1) + 1 = i
      BY <1>1, <2>1, <3>1, LenProperties DEF PInv, WorkspaceTypeOK
    <3>3. QED
      BY <1>1, <2>1, <3>2
  <2>2. QED
    BY <1>1, <2>1
<1>8. QED
  BY <1>1, <1>2, <1>3, <1>4, <1>6, <1>7 DEF Moved

(* An answer changes what the renderer shows, and may send one more call.    *)
LEMMA ReceiveIInv ==
  ASSUME PInv, ReceivesAnswer
  PROVE  PInv'
<1> DEFINE a == Head(toPage)
<1>1. /\ toPage # <<>> /\ toPage' = Tail(toPage)
      /\ UNCHANGED <<queue, stage, handling, active, acted, faults>>
  BY DEF ReceivesAnswer
<1>2. /\ toPage' \in Seq(PageAnswers) /\ a \in PageAnswers /\ ToldOK(a)
      /\ \A i \in DOMAIN toPage' : i + 1 \in DOMAIN toPage /\ toPage'[i] = toPage[i + 1]
      /\ \A i, j \in Told' : i = j
      /\ Told' # {} => Told # {}
      /\ a.kind \in Transitions =>
           Told' = {} /\ AskedFor = {} /\ AtWork = {} /\ queue = <<>>
      /\ ~IsMove(a) => (Moved <=> Moved')
  BY <1>1, ToldAlone DEF Moved
<1>3. \/ /\ a.kind = "unlock" /\ a.works
         /\ ClearCaches /\ Enter(a.project) /\ UNCHANGED toMain
      \/ /\ a.kind \in {"lock", "delete"} /\ a.works
         /\ ClearCaches /\ Enter(Nothing) /\ UNCHANGED toMain
      \/ /\ a.kind = "session" /\ a.works
         /\ UNCHANGED <<cache, clears, toMain>> /\ Enter(a.project)
      \/ /\ a.kind = "create" /\ a.works
         /\ toMain' = Append(toMain, Call("unlock", a.project))
         /\ UNCHANGED <<session, view, cache, clears>>
      \/ /\ a.kind = "read" /\ a.works
         /\ cache' = IF a.query = clears THEN a.project ELSE cache
         /\ view' = IF a.query = view.query THEN [view EXCEPT !.data = a.project]
                    ELSE view
         /\ UNCHANGED <<session, clears, toMain>>
      \/ /\ a.works => a.kind = "change"
         /\ UNCHANGED <<session, view, cache, clears, toMain>>
  BY <1>2 DEF ReceivesAnswer, PageAnswers, CallKinds, Transitions
<1>4. Acting'
  BY <1>1 DEF PInv, Acting
<1>5. Queueing' /\ (toMain' = toMain => OneAwaited')
  <2>1. ASSUME toMain' = toMain PROVE OneAwaited'
    <3>1. AskedFor' = AskedFor /\ AtWork' = AtWork
      BY <1>1, <2>1 DEF AskedFor, AtWork
    <3>2. QED
      BY <1>1, <1>2, <3>1 DEF PInv, OneAwaited
  <2>2. CASE queue = <<>>
    BY <1>1, <2>1, <2>2 DEF PInv, Queueing
  <2>3. CASE queue # <<>>
    <3>1. a.kind \notin Transitions
      BY <1>2, <2>3
    <3>2. UNCHANGED <<toMain, session>>
      BY <1>3, <3>1 DEF Transitions
    <3>3. QED
      BY <1>1, <2>1, <3>2 DEF PInv, Queueing, QueuedOK
  <2>4. QED
    BY <2>2, <2>3
<1>6. \A i \in DOMAIN toPage' : ToldOK(toPage'[i])
  BY <1>2 DEF PInv, Telling
<1>7. CASE a.kind \in {"unlock", "lock", "delete"} /\ a.works
  <2>1. /\ Told' = {} /\ AskedFor = {} /\ AtWork = {} /\ queue = <<>> /\ stage = "idle"
        /\ a.kind = "unlock" => session = Nothing
    BY <1>2, <1>7 DEF Transitions, ToldOK, PInv, Queueing
  <2>2. session' = active /\ clears' = clears + 1 /\ cache' = Nothing /\ toMain' = toMain
    BY <1>2, <1>3, <1>7 DEF ClearCaches, Enter, ToldOK
  <2>3. view' = IF active = Nothing THEN Unmounted ELSE [query |-> clears', data |-> cache']
    <3>1. CASE a.kind = "unlock"
      BY <1>2, <1>3, <1>7, <2>1, <3>1 DEF Enter, ToldOK
    <3>2. CASE a.kind \in {"lock", "delete"}
      BY <1>2, <1>3, <1>7, <3>2 DEF Enter, ToldOK
    <3>3. QED
      BY <1>7, <3>1, <3>2
  <2>4. WorkspaceTypeOK'
    BY <1>1, <1>2, <2>2, <2>3 DEF PInv, WorkspaceTypeOK, Unmounted, Places
  <2>5. Showing'
    BY <1>1, <2>2, <2>3 DEF Showing
  <2>6. Asking'
    <3>1. ASSUME NEW i \in DOMAIN toMain PROVE AskedOK(toMain[i])'
      <4>1. toMain[i].kind \notin Transitions /\ AskedOK(toMain[i])
        BY <2>1 DEF AskedFor, PInv, Asking
      <4>2. toMain[i] \in PageRequests
        BY DEF PInv, WorkspaceTypeOK
      <4>3. toMain[i].query \in Nat
        BY <4>2 DEF PageRequests
      <4>4. QED
        BY <1>1, <2>2, <4>1, <4>3 DEF AskedOK, Transitions, PInv, WorkspaceTypeOK
    <3>2. QED
      BY <2>2, <3>1 DEF PInv, Asking
  <2>7. ASSUME NEW c, c.query \in Nat, ReadOK(c) PROVE ReadOK(c)'
    BY <2>2, <2>7 DEF ReadOK, PInv, WorkspaceTypeOK
  <2>8. Handling'
    <3>1. ASSUME NEW c \in handling PROVE HandledOK(c)'
      <4>1. c.kind \notin Transitions /\ HandledOK(c) /\ c.query \in Nat
        BY <2>1 DEF AtWork, PInv, Handling, WorkspaceTypeOK, PageRequests
      <4>2. QED
        BY <2>7, <4>1 DEF HandledOK, Transitions
    <3>2. QED
      BY <1>1, <3>1 DEF Handling
  <2>9. Telling'
    <3>1. ASSUME NEW i \in DOMAIN toPage' PROVE ToldOK(toPage[i])'
      <4>1. toPage'[i].kind \notin Transitions /\ ToldOK(toPage'[i])
        BY <1>6, <2>1 DEF Told
      <4>2. toPage'[i] \in PageAnswers
        BY <1>2
      <4>3. toPage'[i].query \in Nat
        BY <4>2 DEF PageAnswers
      <4>4. QED
        BY <2>7, <4>1, <4>3 DEF ToldOK, Transitions
    <3>2. QED
      BY <3>1 DEF Telling
  <2>10. Agreeing'
    BY <1>1, <2>2 DEF Agreeing
  <2>11. QED
    BY <1>4, <1>5, <2>2, <2>4, <2>5, <2>6, <2>8, <2>9, <2>10 DEF PInv
<1>8. CASE a.kind = "session" /\ a.works
  <2>1. /\ Told' = {} /\ AskedFor = {} /\ AtWork = {} /\ queue = <<>>
        /\ session # Nothing /\ a.project \in {Nothing, session}
        /\ faults = 0 => a.project = session
    BY <1>2, <1>8 DEF Transitions, ToldOK
  <2>2. session' = a.project /\ UNCHANGED <<cache, clears, toMain>>
        /\ view' = IF a.project = Nothing THEN Unmounted ELSE view
    BY <1>3, <1>8, <2>1 DEF Enter
  <2>3. WorkspaceTypeOK'
    BY <1>1, <1>2, <2>1, <2>2 DEF PInv, WorkspaceTypeOK, Unmounted, Places
  <2>4. Showing'
    BY <1>1, <2>1, <2>2 DEF PInv, Showing
  <2>5. Asking'
    <3>1. ASSUME NEW i \in DOMAIN toMain PROVE AskedOK(toMain[i])'
      <4>1. toMain[i].kind \notin Transitions /\ AskedOK(toMain[i])
        BY <2>1 DEF AskedFor, PInv, Asking
      <4>2. QED
        BY <1>1, <2>2, <4>1 DEF AskedOK, Transitions
    <3>2. QED
      BY <2>2, <3>1 DEF PInv, Asking
  <2>6. ASSUME NEW c, ReadOK(c) PROVE ReadOK(c)'
    BY <2>1, <2>2, <2>6 DEF ReadOK
  <2>7. Handling'
    <3>1. ASSUME NEW c \in handling PROVE HandledOK(c)'
      <4>1. c.kind \notin Transitions /\ HandledOK(c)
        BY <2>1 DEF AtWork, PInv, Handling
      <4>2. QED
        BY <2>6, <4>1 DEF HandledOK, Transitions
    <3>2. QED
      BY <1>1, <3>1 DEF Handling
  <2>8. Telling'
    <3>1. ASSUME NEW i \in DOMAIN toPage' PROVE ToldOK(toPage[i])'
      <4>1. toPage'[i].kind \notin Transitions /\ ToldOK(toPage'[i])
        BY <1>6, <2>1 DEF Told
      <4>2. QED
        BY <2>6, <4>1 DEF ToldOK, Transitions
    <3>2. QED
      BY <3>1 DEF Telling
  <2>9. Agreeing'
    BY <1>1, <1>2, <1>8, <2>1, <2>2 DEF PInv, Agreeing, IsMove
  <2>10. QED
    BY <1>4, <1>5, <2>2, <2>3, <2>4, <2>5, <2>7, <2>8, <2>9 DEF PInv
<1>9. CASE UNCHANGED <<session, clears>> /\ ~IsMove(a)
  <2>1. \A c : /\ AskedOK(c)' <=> AskedOK(c)
               /\ HandledOK(c)' <=> HandledOK(c)
               /\ ToldOK(c)' <=> ToldOK(c)
    BY <1>1, <1>9, SameWorld
  <2>2. Telling'
    BY <1>6, <2>1 DEF Telling
  <2>3. Handling'
    BY <1>1, <2>1 DEF PInv, Handling
  <2>4. Agreeing'
    BY <1>1, <1>2, <1>9 DEF PInv, Agreeing
  <2>5. CASE a.kind = "create" /\ a.works
    <3>1. /\ toMain' = Append(toMain, Call("unlock", a.project))
          /\ UNCHANGED <<session, view, cache, clears>>
      BY <1>3, <2>5
    <3>2. Call("unlock", a.project) \in PageRequests /\ Call("unlock", a.project).kind = "unlock"
      BY <1>2 DEF Call, PageRequests, PageAnswers, CallKinds, Transitions, PInv, WorkspaceTypeOK
    <3>3. session = Nothing /\ AskedFor = {} /\ AtWork = {} /\ queue = <<>> /\ Told' = {}
      BY <1>2, <2>5 DEF ToldOK, Transitions
    <3>4. /\ toMain' \in Seq(PageRequests) /\ Len(toMain) + 1 \in DOMAIN toMain'
          /\ toMain'[Len(toMain) + 1] = Call("unlock", a.project)
          /\ \A i \in DOMAIN toMain : i \in DOMAIN toMain' /\ toMain'[i] = toMain[i]
                                      /\ i < Len(toMain) + 1
          /\ \A i \in DOMAIN toMain' :
               i \in Nat /\ (i \in DOMAIN toMain \/ i = Len(toMain) + 1)
      BY <3>1, <3>2, AppendEntries DEF PInv, WorkspaceTypeOK
    <3>5. WorkspaceTypeOK'
      BY <1>1, <1>2, <3>1, <3>4 DEF PInv, WorkspaceTypeOK
    <3>6. OneAwaited'
      <4>1. \A i \in AskedFor' : i = Len(toMain) + 1
        BY <3>3, <3>4 DEF AskedFor
      <4>2. AtWork' = {} /\ queue' = <<>>
        BY <1>1, <3>3 DEF AtWork
      <4>3. QED
        BY <1>1, <3>3, <4>1, <4>2 DEF PInv, OneAwaited
    <3>7. Asking'
      <4>1. AskedOK(Call("unlock", a.project))
        BY <3>2, <3>3 DEF AskedOK
      <4>2. \A i \in DOMAIN toMain' : AskedOK(toMain[i])'
        BY <2>1, <3>4, <4>1 DEF PInv, Asking
      <4>3. \A i, j \in DOMAIN toMain' :
              toMain'[i].kind = "unlock" /\ toMain'[j].kind = "change" => j < i
        BY <3>2, <3>3, <3>4 DEF PInv, Asking, AskedFor, Transitions
      <4>4. QED
        BY <4>2, <4>3 DEF Asking
    <3>8. Showing'
      BY <1>1, <3>1 DEF PInv, Showing
    <3>9. QED
      BY <1>4, <1>5, <2>2, <2>3, <2>4, <3>5, <3>6, <3>7, <3>8 DEF PInv
  <2>6. CASE ~(a.kind = "create" /\ a.works)
    <3>1. \/ /\ a.kind = "read" /\ a.works
             /\ cache' = IF a.query = clears THEN a.project ELSE cache
             /\ view' = IF a.query = view.query THEN [view EXCEPT !.data = a.project]
                        ELSE view
             /\ toMain' = toMain
          \/ UNCHANGED <<view, cache, toMain>>
          \/ a.kind = "session" /\ a.works
      BY <1>3, <1>9, <2>6 DEF IsMove
    <3>2. CASE a.kind = "session" /\ a.works
      BY <1>8, <3>2
    <3>3. CASE ~(a.kind = "session" /\ a.works)
      <4>1. toMain' = toMain
        BY <3>1, <3>3
      <4>2. Asking'
        BY <2>1, <4>1 DEF PInv, Asking
      <4>3. WorkspaceTypeOK'
        BY <1>1, <1>2, <1>9, <3>1, <3>3 DEF PInv, WorkspaceTypeOK, PageAnswers
      <4>4. Showing'
        BY <1>1, <1>2, <1>9, <3>1, <3>3 DEF PInv, WorkspaceTypeOK, Showing, ToldOK, ReadOK
      <4>5. QED
        BY <1>4, <1>5, <2>2, <2>3, <2>4, <4>1, <4>2, <4>3, <4>4 DEF PInv
    <3>4. QED
      BY <3>2, <3>3
  <2>7. QED
    BY <2>5, <2>6
<1>10. QED
  BY <1>3, <1>7, <1>8, <1>9 DEF IsMove

------------------------------------------------------------------------------
(* The main process.                                                         *)

(* An answer is behind those that were sent before.                          *)
LEMMA ToldLast ==
  ASSUME PInv, NEW ans \in PageAnswers, toPage' = Append(toPage, ans)
  PROVE  /\ toPage' \in Seq(PageAnswers)
         /\ \A i \in DOMAIN toPage' :
              toPage'[i] = ans \/ \E j \in DOMAIN toPage : toPage'[i] = toPage[j]
         /\ ans.kind \notin Transitions => Told' = Told
         /\ Told = {} => \A i, j \in Told' : i = j
         /\ (\E i \in DOMAIN toPage' : IsMove(toPage'[i])) <=>
              IsMove(ans) \/ \E i \in DOMAIN toPage : IsMove(toPage[i])
<1>1. /\ toPage' \in Seq(PageAnswers) /\ Len(toPage) + 1 \in DOMAIN toPage'
      /\ toPage'[Len(toPage) + 1] = ans
      /\ \A i \in DOMAIN toPage : i \in DOMAIN toPage' /\ toPage'[i] = toPage[i]
      /\ \A i \in DOMAIN toPage' : i \in DOMAIN toPage \/ i = Len(toPage) + 1
  BY AppendEntries DEF PInv, WorkspaceTypeOK
<1>2. ans.kind \notin Transitions => Told' = Told
  BY <1>1 DEF Told
<1>3. Told = {} => \A i \in Told' : i = Len(toPage) + 1
  BY <1>1 DEF Told
<1>4. (\E i \in DOMAIN toPage' : IsMove(toPage'[i])) <=>
        IsMove(ans) \/ \E i \in DOMAIN toPage : IsMove(toPage[i])
  BY <1>1
<1>5. QED
  BY <1>1, <1>2, <1>3, <1>4

(* What arrives first leaves the others as they were.                        *)
LEMMA ArrivesAlone ==
  ASSUME PInv, toMain # <<>>, toMain' = Tail(toMain),
         UNCHANGED <<session, clears, active, faults>>
  PROVE  /\ toMain' \in Seq(PageRequests)
         /\ Head(toMain) \in PageRequests /\ AskedOK(Head(toMain))
         /\ Asking'
         /\ \A i, j \in AskedFor' : i = j
         /\ AskedFor' # {} => AskedFor # {}
         /\ Head(toMain).kind \in Transitions =>
              AskedFor' = {} /\ AtWork = {} /\ Told = {} /\ queue = <<>>
         /\ Head(toMain).kind = "unlock" =>
              \A i \in DOMAIN toMain' : toMain'[i].kind # "change"
         /\ \A i \in DOMAIN toMain' : \E j \in DOMAIN toMain : toMain'[i] = toMain[j]
<1>1. /\ toMain' \in Seq(PageRequests)
      /\ Head(toMain) \in PageRequests /\ 1 \in DOMAIN toMain /\ toMain[1] = Head(toMain)
      /\ \A i \in DOMAIN toMain' : i \in Nat /\ i + 1 \in DOMAIN toMain
                                   /\ toMain'[i] = toMain[i + 1] /\ i + 1 # 1
  BY TailEntries DEF PInv, WorkspaceTypeOK
<1>2. AskedOK(Head(toMain))
  BY <1>1 DEF PInv, Asking
<1>3. \A i \in AskedFor' : i \in Nat /\ i + 1 \in AskedFor /\ i + 1 # 1
  BY <1>1 DEF AskedFor
<1>4. \A i, j \in AskedFor' : i = j
  <2>1. ASSUME NEW i \in AskedFor', NEW j \in AskedFor' PROVE i = j
    <3>1. i + 1 = j + 1
      BY <1>3 DEF PInv, OneAwaited
    <3>2. QED
      BY <1>3, <3>1
  <2>2. QED
    BY <2>1
<1>5. Head(toMain).kind \in Transitions => 1 \in AskedFor
  BY <1>1 DEF AskedFor
<1>6. Head(toMain).kind \in Transitions =>
        AskedFor' = {} /\ AtWork = {} /\ Told = {} /\ queue = <<>>
  BY <1>3, <1>5 DEF PInv, OneAwaited
<1>7. \A i \in DOMAIN toMain' : AskedOK(toMain[i])'
  <2>1. \A c : AskedOK(c)' <=> AskedOK(c)
    BY SameWorld
  <2>2. QED
    BY <1>1, <2>1 DEF PInv, Asking
<1>8. \A i, j \in DOMAIN toMain' :
        toMain'[i].kind = "unlock" /\ toMain'[j].kind = "change" => j < i
  <2>1. ASSUME NEW i \in DOMAIN toMain', NEW j \in DOMAIN toMain',
               toMain'[i].kind = "unlock", toMain'[j].kind = "change"
        PROVE  j < i
    <3>1. j + 1 < i + 1
      BY <1>1, <2>1 DEF PInv, Asking
    <3>2. QED
      BY <1>1, <3>1
  <2>2. QED
    BY <2>1
<1>9. ASSUME Head(toMain).kind = "unlock", NEW j \in DOMAIN toMain'
      PROVE  toMain'[j].kind # "change"
  <2>1. ASSUME toMain[j + 1].kind = "change" PROVE FALSE
    <3>1. j + 1 < 1
      BY <1>1, <1>9, <2>1 DEF PInv, Asking
    <3>2. QED
      BY <1>1, <3>1
  <2>2. QED
    BY <1>1, <2>1
<1>10. QED
  BY <1>1, <1>2, <1>3, <1>4, <1>6, <1>7, <1>8, <1>9 DEF Asking

(* A call that arrives is refused, queued, or begun in the open project.     *)
LEMMA ArrivesIInv ==
  ASSUME PInv, Arrives
  PROVE  PInv'
<1> DEFINE call == Head(toMain)
           inOpen == [call EXCEPT !.project = active]
<1>1. /\ toMain # <<>> /\ toMain' = Tail(toMain)
      /\ UNCHANGED <<session, view, cache, clears, stage, active, faults>>
  BY DEF Arrives
<1>2. /\ toMain' \in Seq(PageRequests) /\ call \in PageRequests /\ AskedOK(call) /\ Asking'
      /\ \A i, j \in AskedFor' : i = j
      /\ AskedFor' # {} => AskedFor # {}
      /\ call.kind \in Transitions =>
           AskedFor' = {} /\ AtWork = {} /\ Told = {} /\ queue = <<>>
      /\ call.kind = "unlock" => \A i \in DOMAIN toMain' : toMain'[i].kind # "change"
      /\ \A i \in DOMAIN toMain' : \E j \in DOMAIN toMain : toMain'[i] = toMain[j]
  BY <1>1, ArrivesAlone
<1>3. \A c : /\ AskedOK(c)' <=> AskedOK(c)
             /\ HandledOK(c)' <=> HandledOK(c)
             /\ ToldOK(c)' <=> ToldOK(c)
  BY <1>1, SameWorld
<1>4. \/ /\ call.kind \notin WithoutSession
         /\ Answer(call, Nothing, FALSE) /\ UNCHANGED <<queue, handling, acted>>
      \/ /\ call.kind \in {"unlock", "lock", "delete"}
         /\ queue' = Append(queue, call) /\ UNCHANGED <<toPage, handling, acted>>
      \/ /\ call.kind = "change" /\ active # Nothing
         /\ acted' = [as |-> call.project, in |-> active]
         /\ handling' = handling \cup {inOpen}
         /\ UNCHANGED <<toPage, queue>>
      \/ /\ call.kind = "session" \/ (call.kind = "read" /\ active # Nothing)
         /\ handling' = handling \cup {inOpen} /\ UNCHANGED <<toPage, queue, acted>>
      \/ /\ call.kind = "create"
         /\ handling' = handling \cup {call} /\ UNCHANGED <<toPage, queue, acted>>
  <2>1. call.kind \in {"unlock", "lock", "delete", "create", "session", "read", "change"}
    BY <1>2 DEF PageRequests, CallKinds, Transitions
  <2>2. CASE call.kind = "unlock"
    BY <2>2 DEF Arrives, WithoutSession
  <2>3. CASE call.kind = "lock"
    BY <2>3 DEF Arrives, WithoutSession
  <2>4. CASE call.kind = "delete"
    BY <2>4 DEF Arrives, WithoutSession
  <2>5. CASE call.kind = "create"
    BY <2>5 DEF Arrives, WithoutSession
  <2>6. CASE call.kind = "session"
    <3>1. handling' = handling \cup {inOpen} /\ UNCHANGED <<toPage, queue, acted>>
      BY <2>6 DEF Arrives, WithoutSession
    <3>2. QED
      BY <2>6, <3>1
  <2>7. CASE call.kind = "read"
    BY <2>7 DEF Arrives, WithoutSession
  <2>8. CASE call.kind = "change"
    BY <2>8 DEF Arrives, WithoutSession
  <2>9. QED
    BY <2>1, <2>2, <2>3, <2>4, <2>5, <2>6, <2>7, <2>8
<1>5. Showing'
  BY <1>1 DEF PInv, Showing
<1>6. ASSUME NEW c, QueuedOK(c) PROVE QueuedOK(c)'
  <2>1. c.kind = "unlock" => \A i \in DOMAIN toMain' : toMain'[i].kind # "change"
    BY <1>2, <1>6 DEF QueuedOK
  <2>2. QED
    BY <1>1, <1>6, <2>1 DEF QueuedOK
<1>7. queue' = queue => Queueing'
  BY <1>1, <1>6 DEF PInv, Queueing
<1>8. toPage' = toPage => Telling' /\ Agreeing'
  BY <1>1, <1>3 DEF PInv, Telling, Agreeing, Moved
<1>9. handling' = handling => Handling'
  BY <1>3 DEF PInv, Handling
<1>10. CASE /\ call.kind \notin WithoutSession
            /\ Answer(call, Nothing, FALSE) /\ UNCHANGED <<queue, handling, acted>>
  <2> DEFINE ans == [kind |-> call.kind, project |-> Nothing, query |-> call.query,
                     works |-> FALSE]
  <2>1. toPage' = Append(toPage, ans) /\ ans \in PageAnswers
    BY <1>2, <1>10 DEF Answer, PageRequests, PageAnswers, Places
  <2>2. ans.kind = call.kind /\ ~ans.works /\ ToldOK(ans)
    BY <1>2, <1>10 DEF ToldOK, AskedOK, WithoutSession
  <2> HIDE DEF ans
  <2>3. /\ toPage' \in Seq(PageAnswers)
        /\ \A i \in DOMAIN toPage' :
             toPage'[i] = ans \/ \E j \in DOMAIN toPage : toPage'[i] = toPage[j]
        /\ ans.kind \notin Transitions => Told' = Told
        /\ Told = {} => \A i, j \in Told' : i = j
        /\ Moved' <=> Moved
    BY <1>1, <2>1, <2>2, ToldLast DEF Moved, IsMove
  <2>4. Telling'
    <3>1. \A i \in DOMAIN toPage' : ToldOK(toPage[i])'
      BY <1>3, <2>2, <2>3 DEF PInv, Telling
    <3>2. QED
      BY <3>1 DEF Telling
  <2>5. Agreeing'
    BY <1>1, <2>3 DEF PInv, Agreeing
  <2>6. OneAwaited'
    <3>1. AtWork' = AtWork
      BY <1>10 DEF AtWork
    <3>2. QED
      BY <1>2, <1>10, <2>2, <2>3, <3>1 DEF PInv, OneAwaited
  <2>7. WorkspaceTypeOK'
    BY <1>1, <1>2, <1>10, <2>3 DEF PInv, WorkspaceTypeOK
  <2>8. Acting'
    BY <1>10 DEF PInv, Acting
  <2>9. QED
    BY <1>2, <1>5, <1>7, <1>9, <1>10, <2>4, <2>5, <2>6, <2>7, <2>8 DEF PInv
<1>11. CASE /\ call.kind \in {"unlock", "lock", "delete"}
            /\ queue' = Append(queue, call) /\ UNCHANGED <<toPage, handling, acted>>
  <2>1. AskedFor' = {} /\ AtWork = {} /\ Told = {} /\ queue = <<>>
    BY <1>2, <1>11 DEF Transitions
  <2>2. PICK c : c = call
    OBVIOUS
  <2>3. queue' \in Seq(PageRequests) /\ Len(queue') = 1 /\ \A i \in DOMAIN queue' : queue'[i] = c
    <3>1. /\ queue' \in Seq(PageRequests) /\ Len(queue') = Len(queue) + 1
          /\ queue'[Len(queue) + 1] = call
          /\ \A i \in DOMAIN queue' : i \in DOMAIN queue \/ i = Len(queue) + 1
      BY <1>2, <1>11, AppendEntries DEF PInv, WorkspaceTypeOK
    <3>2. Len(queue) = 0 /\ DOMAIN queue = {}
      BY <2>1
    <3>3. QED
      BY <2>2, <3>1, <3>2
  <2>4. Queueing'
    <3>1. stage = "idle" /\ (c.kind = "unlock" <=> session = Nothing)
      BY <1>2, <1>11, <2>1, <2>2 DEF PInv, Queueing, AskedOK
    <3>2. QueuedOK(c)'
      BY <1>1, <1>2, <1>11, <2>2, <3>1 DEF QueuedOK
    <3>3. queue' # <<>>
      BY <2>3
    <3>4. \A i \in DOMAIN queue' : QueuedOK(queue[i])'
      BY <2>3, <3>2
    <3>5. QED
      BY <3>3, <3>4 DEF Queueing
  <2>5. OneAwaited'
    <3>1. AtWork' = {} /\ Told' = {}
      BY <1>11, <2>1 DEF AtWork, Told
    <3>2. QED
      BY <2>1, <2>3, <1>2, <3>1 DEF OneAwaited
  <2>6. WorkspaceTypeOK'
    BY <1>1, <1>2, <1>11, <2>3 DEF PInv, WorkspaceTypeOK
  <2>7. Acting'
    BY <1>11 DEF PInv, Acting
  <2>8. QED
    BY <1>2, <1>5, <1>8, <1>9, <1>11, <2>4, <2>5, <2>6, <2>7 DEF PInv
<1>12. ASSUME NEW c \in PageRequests, c.kind = call.kind, HandledOK(c),
              handling' = handling \cup {c}, UNCHANGED <<toPage, queue>>, Acting'
       PROVE  PInv'
  <2>1. IsFiniteSet(handling')
    BY <1>12, FS_AddElement DEF PInv, WorkspaceTypeOK
  <2>2. WorkspaceTypeOK'
    BY <1>1, <1>2, <1>12, <2>1 DEF PInv, WorkspaceTypeOK
  <2>3. Handling'
    BY <1>3, <1>12 DEF PInv, Handling
  <2>4. OneAwaited'
    <3>1. Told' = Told
      BY <1>12 DEF Told
    <3>2. CASE call.kind \in Transitions
      <4>1. \A d \in AtWork' : d = c
        BY <1>2, <1>12, <3>2 DEF AtWork
      <4>2. QED
        BY <1>2, <1>12, <3>1, <3>2, <4>1 DEF PInv, OneAwaited
    <3>3. CASE call.kind \notin Transitions
      <4>1. AtWork' = AtWork
        BY <1>12, <3>3 DEF AtWork
      <4>2. QED
        BY <1>2, <1>12, <3>1, <4>1 DEF PInv, OneAwaited
    <3>4. QED
      BY <3>2, <3>3
  <2>5. QED
    BY <1>2, <1>5, <1>7, <1>8, <1>12, <2>2, <2>3, <2>4 DEF PInv
<1>13. /\ inOpen \in PageRequests /\ inOpen.kind = call.kind /\ inOpen.project = active
       /\ inOpen.query = call.query
  BY <1>2 DEF PageRequests, PInv, WorkspaceTypeOK
<1>14. CASE /\ call.kind = "change" /\ active # Nothing
            /\ acted' = [as |-> call.project, in |-> active]
            /\ handling' = handling \cup {inOpen}
            /\ UNCHANGED <<toPage, queue>>
  <2>1. Acting'
    BY <1>2, <1>14 DEF Acting, AskedOK
  <2>2. HandledOK(inOpen)
    BY <1>13, <1>14 DEF HandledOK, ReadOK
  <2>3. QED
    BY <1>12, <1>13, <1>14, <2>1, <2>2
<1>15. CASE /\ call.kind = "session" \/ (call.kind = "read" /\ active # Nothing)
            /\ handling' = handling \cup {inOpen} /\ UNCHANGED <<toPage, queue, acted>>
  <2>1. CASE call.kind = "session"
    <3>1. ~Moved
      BY <1>2, <2>1 DEF PInv, Queueing, Moved, IsMove, Told, Transitions
    <3>2. HandledOK(inOpen)
      BY <1>2, <1>13, <2>1, <3>1 DEF PInv, Agreeing, HandledOK, ReadOK, AskedOK, Showing
    <3>3. QED
      BY <1>12, <1>13, <1>15, <3>2 DEF PInv, Acting
  <2>2. CASE call.kind = "read" /\ active # Nothing
    <3>1. HandledOK(inOpen)
      BY <1>2, <1>13, <2>2 DEF PInv, HandledOK, ReadOK, AskedOK, Showing
    <3>2. QED
      BY <1>12, <1>13, <1>15, <3>1 DEF PInv, Acting
  <2>3. QED
    BY <1>15, <2>1, <2>2
<1>16. CASE /\ call.kind = "create"
            /\ handling' = handling \cup {call} /\ UNCHANGED <<toPage, queue, acted>>
  <2>1. HandledOK(call)
    BY <1>2, <1>16 DEF HandledOK, ReadOK, AskedOK
  <2>2. QED
    BY <1>2, <1>12, <1>16, <2>1 DEF PInv, Acting
<1>17. QED
  BY <1>4, <1>10, <1>11, <1>14, <1>15, <1>16

(* What a handler is done with is answered in the project it was begun in.   *)
LEMMA HandledIInv ==
  ASSUME PInv, NEW call \in handling, Handled(call)
  PROVE  PInv'
<1> DEFINE ans == [kind |-> call.kind, project |-> call.project, query |-> call.query,
                   works |-> call.kind # "create" => call.project \in rows \cup {Nothing}]
<1>1. /\ handling' = handling \ {call}
      /\ UNCHANGED <<session, view, cache, clears, toMain, queue, stage, active, acted, faults>>
  BY DEF Handled
<1>2. call \in PageRequests /\ HandledOK(call)
  BY DEF PInv, WorkspaceTypeOK, Handling
<1>3. toPage' = Append(toPage, ans) /\ ans \in PageAnswers
  BY <1>2 DEF Handled, Answer, PageRequests, PageAnswers
<1>4. ans.kind = call.kind /\ ToldOK(ans) /\ ~IsMove(ans)
  BY <1>2 DEF HandledOK, ToldOK, ReadOK, IsMove
<1> HIDE DEF ans
<1>5. \A c : /\ AskedOK(c)' <=> AskedOK(c)
             /\ HandledOK(c)' <=> HandledOK(c)
             /\ ToldOK(c)' <=> ToldOK(c)
  BY <1>1, SameWorld
<1>6. /\ toPage' \in Seq(PageAnswers)
      /\ \A i \in DOMAIN toPage' :
           toPage'[i] = ans \/ \E j \in DOMAIN toPage : toPage'[i] = toPage[j]
      /\ ans.kind \notin Transitions => Told' = Told
      /\ Told = {} => \A i, j \in Told' : i = j
      /\ Moved' <=> Moved
  BY <1>1, <1>3, <1>4, ToldLast DEF Moved
<1>7. WorkspaceTypeOK'
  <2>1. IsFiniteSet(handling')
    BY <1>1, FS_RemoveElement DEF PInv, WorkspaceTypeOK
  <2>2. QED
    BY <1>1, <1>6, <2>1 DEF PInv, WorkspaceTypeOK
<1>8. OneAwaited'
  <2>1. AskedFor' = AskedFor /\ queue' = queue /\ AtWork' = AtWork \ {call}
    BY <1>1 DEF AskedFor, AtWork
  <2>2. CASE call.kind \in Transitions
    <3>1. call \in AtWork
      BY <2>2 DEF AtWork
    <3>2. AtWork' = {} /\ AskedFor = {} /\ Told = {} /\ queue = <<>>
      BY <2>1, <3>1 DEF PInv, OneAwaited
    <3>3. QED
      BY <1>6, <2>1, <3>2 DEF PInv, OneAwaited
  <2>3. CASE call.kind \notin Transitions
    BY <1>4, <1>6, <2>1, <2>3 DEF PInv, OneAwaited
  <2>4. QED
    BY <2>2, <2>3
<1>9. Asking'
  BY <1>1, <1>5 DEF PInv, Asking
<1>10. Queueing'
  BY <1>1 DEF PInv, Queueing, QueuedOK
<1>11. Handling'
  BY <1>1, <1>5 DEF PInv, Handling
<1>12. Telling'
  <2>1. \A i \in DOMAIN toPage' : ToldOK(toPage[i])'
    BY <1>4, <1>5, <1>6 DEF PInv, Telling
  <2>2. QED
    BY <2>1 DEF Telling
<1>13. Showing' /\ Acting' /\ Agreeing'
  BY <1>1, <1>6 DEF PInv, Showing, Acting, Agreeing
<1>14. QED
  BY <1>7, <1>8, <1>9, <1>10, <1>11, <1>12, <1>13 DEF PInv

(* While a transition is at work no other is under way.                      *)
LEMMA QueuedAlone ==
  ASSUME PInv, queue # <<>>
  PROVE  /\ Head(queue) \in PageRequests /\ QueuedOK(Head(queue))
         /\ \A i \in DOMAIN queue : queue[i] = Head(queue)
         /\ Tail(queue) = <<>>
         /\ AskedFor = {} /\ AtWork = {} /\ Told = {}
<1>1. queue \in Seq(PageRequests) /\ Len(queue) <= 1
  BY DEF PInv, WorkspaceTypeOK, OneAwaited
<1>2. /\ Head(queue) \in PageRequests /\ 1 \in DOMAIN queue /\ queue[1] = Head(queue)
      /\ Tail(queue) \in Seq(PageRequests) /\ Len(Tail(queue)) = Len(queue) - 1
  BY <1>1, TailEntries
<1>3. Len(queue) = 1 /\ \A i \in DOMAIN queue : i = 1
  BY <1>1, <1>2, LenProperties
<1>4. Tail(queue) = <<>>
  <2>1. Tail(queue) \in Seq(PageRequests) /\ Len(Tail(queue)) = 0
    BY <1>2, <1>3
  <2>2. QED
    BY <2>1, EmptySeq
<1>5. AskedFor = {} /\ AtWork = {} /\ Told = {}
  BY DEF PInv, OneAwaited
<1>6. QED
  BY <1>2, <1>3, <1>4, <1>5 DEF PInv, Queueing

(* A transition at work that changes the open project changes nothing that   *)
(* the renderer sees.                                                        *)
LEMMA WorksIInv ==
  ASSUME PInv, queue # <<>>, NEW c, c = Head(queue), QueuedOK(c)',
         stage' \in {"closed", "active"}, active' \in Places,
         \A i \in DOMAIN toMain :
           toMain[i].kind = "change" => active' \in {Nothing, toMain[i].project},
         session # Nothing => active' \in {Nothing, session},
         UNCHANGED <<session, view, cache, clears, toMain, toPage, queue, handling, acted,
                     faults>>
  PROVE  PInv'
<1>1. /\ \A i \in DOMAIN queue : queue[i] = c
      /\ AskedFor = {} /\ AtWork = {} /\ Told = {}
  BY QueuedAlone
<1>2. WorkspaceTypeOK' /\ OneAwaited'
  BY DEF PInv, WorkspaceTypeOK, OneAwaited, AskedFor, AtWork, Told
<1>3. Asking'
  <2>1. \A i \in DOMAIN toMain' : AskedOK(toMain[i])'
    BY DEF PInv, Asking, AskedOK
  <2>2. QED
    BY <2>1 DEF PInv, Asking
<1>4. Queueing'
  <2>1. \A i \in DOMAIN queue' : QueuedOK(queue[i])'
    BY <1>1
  <2>2. QED
    BY <2>1 DEF Queueing
<1>5. Handling'
  BY DEF PInv, Handling, HandledOK, ReadOK
<1>6. Telling'
  <2>1. \A i \in DOMAIN toPage : toPage[i].kind \notin Transitions
    BY <1>1 DEF Told
  <2>2. \A i \in DOMAIN toPage' : ToldOK(toPage[i])'
    BY <2>1 DEF PInv, Telling, ToldOK, ReadOK, Transitions
  <2>3. QED
    BY <2>2 DEF Telling
<1>7. Showing' /\ Acting' /\ Agreeing'
  BY DEF PInv, Showing, Acting, Agreeing, Moved
<1>8. QED
  BY <1>2, <1>3, <1>4, <1>5, <1>6, <1>7 DEF PInv

(* When a transition ends the open project is the one it leaves the renderer *)
(* in, the one it found, or none because something failed.                   *)
LEMMA EndsIInv ==
  ASSUME PInv, queue # <<>>, NEW project \in Places, NEW works \in BOOLEAN,
         NEW ans, ans = [kind |-> Head(queue).kind, project |-> project,
                         query |-> Head(queue).query, works |-> works],
         EndTransition(project, works), ToldOK(ans)',
         active' \in {Nothing, active},
         faults' \in Nat, faults' = 0 => faults = 0,
         faults' = 0 => IsMove(ans) \/ (active' = active /\ stage = "idle"),
         UNCHANGED <<session, view, cache, clears, toMain, handling, acted>>
  PROVE  PInv'
<1>1. /\ Head(queue) \in PageRequests /\ QueuedOK(Head(queue)) /\ Tail(queue) = <<>>
      /\ AskedFor = {} /\ AtWork = {} /\ Told = {}
  BY QueuedAlone
<1>2. /\ toPage' = Append(toPage, ans) /\ ans \in PageAnswers
      /\ queue' = <<>> /\ stage' = "idle"
  BY <1>1 DEF EndTransition, Answer, PageRequests, PageAnswers
<1>3. /\ toPage' \in Seq(PageAnswers)
      /\ \A i \in DOMAIN toPage' :
           toPage'[i] = ans \/ \E j \in DOMAIN toPage : toPage'[i] = toPage[j]
      /\ \A i, j \in Told' : i = j
      /\ (\E i \in DOMAIN toPage' : IsMove(toPage'[i])) <=>
           IsMove(ans) \/ \E i \in DOMAIN toPage : IsMove(toPage[i])
  BY <1>1, <1>2, ToldLast
<1>4. WorkspaceTypeOK'
  BY <1>2, <1>3 DEF PInv, WorkspaceTypeOK, Places
<1>5. OneAwaited'
  <2>1. AskedFor' = {} /\ AtWork' = {} /\ Len(queue') = 0
    BY <1>1, <1>2 DEF AskedFor, AtWork
  <2>2. QED
    BY <1>2, <1>3, <2>1 DEF OneAwaited
<1>6. Asking'
  <2>1. \A i \in DOMAIN toMain' : AskedOK(toMain[i])'
    BY DEF PInv, Asking, AskedOK
  <2>2. QED
    BY <2>1 DEF PInv, Asking
<1>7. Queueing'
  BY <1>2 DEF Queueing
<1>8. Handling'
  <2>1. \A c \in handling' : HandledOK(c)'
    BY DEF PInv, Handling, HandledOK, ReadOK
  <2>2. QED
    BY <2>1 DEF Handling
<1>9. Telling'
  <2>1. \A j \in DOMAIN toPage : toPage[j].kind \notin Transitions /\ ToldOK(toPage[j])
    BY <1>1 DEF PInv, Telling, Told
  <2>2. \A a : a.kind \notin Transitions /\ ToldOK(a) => ToldOK(a)'
    BY DEF ToldOK, ReadOK, Transitions
  <2>3. \A i \in DOMAIN toPage' : ToldOK(toPage[i])'
    BY <1>3, <2>1, <2>2
  <2>4. QED
    BY <2>3 DEF Telling
<1>10. Showing' /\ Acting'
  BY DEF PInv, Showing, Acting
<1>11. Agreeing'
  BY <1>2, <1>3 DEF PInv, Agreeing, Moved
<1>12. QED
  BY <1>4, <1>5, <1>6, <1>7, <1>8, <1>9, <1>10, <1>11 DEF PInv

(* The steps of a transition.                                                *)
LEMMA TransitionIInv ==
  ASSUME PInv, Refused \/ Closed \/ Activated \/ Opened \/ Deleted \/ FailsClosed
  PROVE  PInv'
<1>1. queue # <<>>
  BY DEF Refused, Closed, Activated, Opened, Deleted, FailsClosed, PInv, Queueing
<1>2. PICK c : c = Head(queue)
  OBVIOUS
<1>3. c \in PageRequests /\ QueuedOK(c) /\ AskedFor = {} /\ AtWork = {} /\ Told = {}
  BY <1>1, <1>2, QueuedAlone
<1>4. c.kind \in {"unlock", "lock", "delete"} /\ (c.kind = "unlock" <=> session = Nothing)
      /\ c.project \in Places
  BY <1>3 DEF QueuedOK, PageRequests
<1>5. faults \in Nat /\ active \in Places /\ Nothing \in Places
  BY DEF PInv, WorkspaceTypeOK, Places
<1>6. CASE Refused
  <2> DEFINE r == [kind |-> Head(queue).kind, project |-> Nothing,
                   query |-> Head(queue).query, works |-> FALSE]
  <2>1. PICK ans : ans = r
    OBVIOUS
  <2>2. ans.kind = c.kind /\ ans.works = FALSE
    BY <1>2, <2>1
  <2>3. ToldOK(ans)'
    BY <1>4, <1>6, <2>2 DEF ToldOK, Refused
  <2>4. faults' \in Nat /\ (faults' = 0 => faults = 0)
    BY <1>5, <1>6 DEF Refused
  <2>5. QED
    BY <1>1, <1>5, <1>6, <2>1, <2>3, <2>4, EndsIInv DEF Refused
<1>7. CASE Closed /\ c.kind = "lock"
  <2> DEFINE r == [kind |-> Head(queue).kind, project |-> Nothing,
                   query |-> Head(queue).query, works |-> TRUE]
  <2>1. PICK ans : ans = r
    OBVIOUS
  <2>2. ans.kind = "lock" /\ ans.works = TRUE
    BY <1>2, <1>7, <2>1
  <2>3. ToldOK(ans)' /\ IsMove(ans)
    BY <1>4, <1>7, <2>2 DEF ToldOK, ReadOK, IsMove, Closed
  <2>4. EndTransition(Nothing, TRUE) /\ active' = Nothing /\ faults' = faults
        /\ UNCHANGED <<session, view, cache, clears, toMain, handling, acted>>
    BY <1>2, <1>7 DEF Closed
  <2>5. QED
    BY <1>1, <1>5, <2>1, <2>3, <2>4, EndsIInv
<1>8. CASE Closed /\ c.kind # "lock"
  <2>1. active' = Nothing /\ stage' = "closed"
        /\ UNCHANGED <<session, view, cache, clears, toMain, toPage, queue, handling, acted,
                       faults>>
    BY <1>2, <1>8 DEF Closed
  <2>2. QueuedOK(c)'
    BY <1>3, <1>8, <2>1 DEF QueuedOK
  <2>3. QED
    BY <1>1, <1>2, <1>5, <2>1, <2>2, WorksIInv
<1>9. CASE Activated
  <2>1. c.kind = "unlock" /\ active' = c.project /\ stage' = "active"
        /\ UNCHANGED <<session, view, cache, clears, toMain, toPage, queue, handling, acted,
                       faults>>
    BY <1>2, <1>9 DEF Activated
  <2>2. session = Nothing /\ \A i \in DOMAIN toMain : toMain[i].kind # "change"
    BY <1>3, <1>4, <2>1 DEF QueuedOK
  <2>3. QueuedOK(c)'
    BY <1>3, <2>1, <2>2 DEF QueuedOK
  <2>4. QED
    BY <1>1, <1>2, <1>4, <2>1, <2>2, <2>3, WorksIInv
<1>10. CASE Opened
  <2> DEFINE r == [kind |-> Head(queue).kind, project |-> active,
                   query |-> Head(queue).query, works |-> TRUE]
  <2>1. PICK ans : ans = r
    OBVIOUS
  <2>2. ans.kind = "unlock" /\ ans.works = TRUE /\ ans.project = active
    BY <1>2, <1>3, <1>10, <2>1 DEF Opened, QueuedOK
  <2>3. session = Nothing
    BY <1>2, <1>4, <2>1, <2>2
  <2>4. ToldOK(ans)' /\ IsMove(ans)
    BY <1>10, <2>2, <2>3 DEF ToldOK, ReadOK, IsMove, Opened
  <2>5. QED
    BY <1>1, <1>5, <1>10, <2>1, <2>4, EndsIInv DEF Opened
<1>11. CASE Deleted
  <2> DEFINE r == [kind |-> Head(queue).kind, project |-> Nothing,
                   query |-> Head(queue).query, works |-> TRUE]
  <2>1. PICK ans : ans = r
    OBVIOUS
  <2>2. ans.kind = "delete" /\ ans.works = TRUE /\ active = Nothing /\ session # Nothing
    BY <1>2, <1>3, <1>4, <1>11, <2>1 DEF Deleted, QueuedOK
  <2>3. ToldOK(ans)' /\ IsMove(ans)
    BY <1>11, <2>2 DEF ToldOK, ReadOK, IsMove, Deleted
  <2>4. QED
    BY <1>1, <1>5, <1>11, <2>1, <2>3, EndsIInv DEF Deleted
<1>12. CASE FailsClosed
  <2> DEFINE r == [kind |-> Head(queue).kind, project |-> Nothing,
                   query |-> Head(queue).query, works |-> FALSE]
  <2>1. PICK ans : ans = r
    OBVIOUS
  <2>2. ans.kind = c.kind /\ ans.works = FALSE
    BY <1>2, <2>1
  <2>3. ToldOK(ans)'
    BY <1>4, <1>12, <2>2 DEF ToldOK, FailsClosed
  <2>4. faults' \in Nat /\ faults' # 0
    BY <1>5, <1>12 DEF FailsClosed
  <2>5. QED
    BY <1>1, <1>5, <1>12, <2>1, <2>3, <2>4, EndsIInv DEF FailsClosed
<1>13. QED
  BY <1>6, <1>7, <1>8, <1>9, <1>10, <1>11, <1>12

------------------------------------------------------------------------------
(* The theorem.                                                              *)

(* At first nothing is open and nothing is under way.                        *)
LEMMA WorkspaceInitIInv == WorkspacePagesInit => WorkspaceIInv
<1>1. ASSUME WorkspacePagesInit PROVE PInv
  <2>1. /\ session = Nothing /\ view = Unmounted /\ cache = Nothing /\ clears = 0
        /\ toMain = <<>> /\ toPage = <<>> /\ queue = <<>> /\ stage = "idle" /\ handling = {}
        /\ active = Nothing /\ acted = Nothing /\ faults = 0
    BY <1>1 DEF WorkspacePagesInit
  <2>2. DOMAIN toMain = {} /\ DOMAIN toPage = {} /\ DOMAIN queue = {} /\ Len(queue) = 0
    BY <2>1
  <2>3. WorkspaceTypeOK
    BY <2>1, FS_EmptySet DEF WorkspaceTypeOK, Unmounted, Places
  <2>4. OneAwaited
    BY <2>1, <2>2 DEF OneAwaited, AskedFor, AtWork, Told
  <2>5. Asking /\ Queueing /\ Handling /\ Telling
    BY <2>1, <2>2 DEF Asking, Queueing, Handling, Telling
  <2>6. Showing /\ Acting /\ Agreeing
    BY <2>1 DEF Showing, Acting, Agreeing
  <2>7. QED
    BY <2>3, <2>4, <2>5, <2>6 DEF PInv
<1>2. QED
  BY <1>1 DEF WorkspaceIInv

(* Whether the user waits is settled at first; every step keeps the rest.    *)
LEMMA NextIInv == WorkspaceIInv /\ [WorkspacePagesNext]_workspacePagesVars => WorkspaceIInv'
<1> SUFFICES ASSUME WorkspaceIInv, [WorkspacePagesNext]_workspacePagesVars, patient'
             PROVE  PInv'
  BY DEF WorkspaceIInv
<1>1. patient
  BY DEF WorkspacePagesNext, workspacePagesVars, OpenProject, CreateProject, LockProject,
         DeleteProject, SaveSettings, Visit, Change, Transition, Send, ReceivesAnswer, Arrives,
         Handled, Refused, Closed, Activated, Opened, Deleted, FailsClosed
<1>2. PInv
  BY <1>1 DEF WorkspaceIInv
<1>3. CASE UNCHANGED workspacePagesVars
  BY <1>2, <1>3
  DEF workspacePagesVars, PInv, WorkspaceTypeOK, OneAwaited, AskedFor, AtWork, Told, Asking,
    AskedOK,
      Queueing, QueuedOK, Handling, HandledOK, ReadOK, Telling, ToldOK, Showing, Acting,
      Agreeing, Moved
<1>4. CASE WorkspacePagesNext
  BY <1>1, <1>2, <1>4, UserIInv, ReceiveIInv, ArrivesIInv, HandledIInv, TransitionIInv
  DEF WorkspacePagesNext
<1>5. QED
  BY <1>3, <1>4

(* When nothing is under way no transition is at work, and none untold.      *)
LEMMA RestIsStill == PInv /\ AtRest => ~Moved
<1> SUFFICES ASSUME PInv, AtRest PROVE ~Moved
  OBVIOUS
<1>1. /\ Len(toMain) \in Nat /\ Len(toPage) \in Nat /\ Len(queue) \in Nat
      /\ Cardinality(handling) \in Nat
  BY FS_CardinalityType DEF PInv, WorkspaceTypeOK
<1>2. Len(toPage) = 0 /\ Len(queue) = 0
  BY <1>1 DEF AtRest, UnderWay
<1>3. queue = <<>> /\ DOMAIN toPage = {}
  BY <1>2 DEF PInv, WorkspaceTypeOK
<1>4. QED
  BY <1>3 DEF PInv, Queueing, Moved

(* A user who waits for the answers of the transitions sees and changes only *)
(* the project that is open, and agrees with the main process on which that  *)
(* is whenever nothing is under way and no transition has failed half-way:   *)
(* the order of calls and answers and the cleared caches see to it, though   *)
(* no request but a transition names its project.                            *)
THEOREM PatientUserSeesOneProject == WorkspacePagesSpec => []WorkspaceIsOne
<1>1. WorkspaceIInv => WorkspaceIsOne
  <2>1. ASSUME PInv PROVE ShownBelongsToSession /\ (acted # Nothing => acted.as = acted.in)
    BY <2>1 DEF PInv, Showing, Acting, ShownBelongsToSession
  <2>2. ASSUME PInv, AtRest, faults = 0 PROVE session = active
    BY <2>2, RestIsStill DEF PInv, Agreeing
  <2>3. QED
    BY <2>1, <2>2 DEF WorkspaceIInv, WorkspaceIsOne, OneProjectAtATime, SessionsAgree
<1>2. QED
  BY <1>1, WorkspaceInitIInv, NextIInv, PTL DEF WorkspacePagesSpec

------------------------------------------------------------------------------
(* The Infrastructure page.                                                 *)

\* The token of an approval is the one the engine showed its plan under.
ApprovalIsShown ==
  /\ issued \in Nat
  /\ approval # None => /\ approval.token \in 1 .. issued
                        /\ shown[approval.token] = approval.plan

IsOperation(o) ==
  o = [kind |-> o.kind, stage |-> o.stage, visit |-> o.visit, plan |-> o.plan,
       preview |-> o.preview, loaded |-> o.loaded]

\* Until the engine applies, the main process holds the approval an apply presents.
HoldsApproval(o) ==
  o.kind = "apply" =>
    /\ o.preview # None /\ o.preview.plan = o.plan
    /\ o.stage # "engine" => approval = o.preview

IsOfPage(o) ==
  /\ IsOperation(o)
  /\ o.visit = visit
  /\ HoldsApproval(o)
  /\ o.kind \in {"preview", "apply"} /\ o.stage = "called" => saved = o.plan
  /\ o.kind = "preview" /\ o.stage = "engine" => o.loaded = o.plan

\* The operations of a user who stays follow one another: nothing is under way while
\* the page is left or waits for a confirmation.
OneAtATime ==
  /\ ~Here => operations = {} /\ confirming = None /\ offered = None
  /\ \A o, p \in operations : o = p
  /\ confirming # None => operations = {}

\* What the page offers is the approval itself.
PageFollowsEngine ==
  /\ OneAtATime
  /\ \A o \in operations : IsOfPage(o)
  /\ confirming # None =>
       /\ IsOfPage(confirming) /\ confirming.stage # "engine"
       /\ confirming.kind # "destroy" => saved = confirming.plan
  /\ offered # None => approval = offered

\* The inductive invariant.
InfrastructureIInv ==
  /\ ApprovalIsShown
  /\ staying => PageFollowsEngine
  /\ AppliedIsOnScreen

------------------------------------------------------------------------------

(* Nothing is under way at first, and nothing is approved.                   *)
LEMMA InfrastructureInitIInv == InfrastructurePageInit => InfrastructureIInv
BY DEF InfrastructurePageInit, InfrastructureIInv, ApprovalIsShown, PageFollowsEngine,
   OneAtATime, AppliedIsOnScreen, Here

(* The invariant gives the property: of an apply that is called the approval *)
(* is held, and its plan was just saved.                                     *)
LEMMA InfrastructureIInvGives == InfrastructureIInv => OfferedAndApplied
BY DEF InfrastructureIInv, PageFollowsEngine, IsOfPage, HoldsApproval, OfferedAndApplied,
   OfferedIsApproved, Approved

(* What an operation becomes keeps what it carries.                          *)
LEMMA StageOfOperation ==
  ASSUME NEW o, IsOperation(o), NEW s
  PROVE  LET p == [o EXCEPT !.stage = s]
         IN  /\ IsOperation(p) /\ p.stage = s
             /\ p.kind = o.kind /\ p.visit = o.visit /\ p.plan = o.plan
             /\ p.preview = o.preview /\ p.loaded = o.loaded
<1>1. [o EXCEPT !.stage = s] =
        [kind |-> o.kind, stage |-> s, visit |-> o.visit, plan |-> o.plan,
         preview |-> o.preview, loaded |-> o.loaded]
  BY DEF IsOperation
<1>2. QED
  BY <1>1 DEF IsOperation

(* An operation that begins on the page finds no other, and presents what    *)
(* the page offers.                                                          *)
LEMMA BeginIInv ==
  ASSUME InfrastructureIInv, UNCHANGED staying,
         Save \/ PreviewEditor \/ Apply \/ AskDestroy
  PROVE  InfrastructureIInv'
<1> USE DEF engineSide
<1>1. UNCHANGED <<visit, offered, saved, approval, shown, issued, changed>>
  BY DEF Save, PreviewEditor, Apply, AskDestroy, Begin
<1>2. ApprovalIsShown' /\ AppliedIsOnScreen'
  BY <1>1 DEF InfrastructureIInv, ApprovalIsShown, AppliedIsOnScreen
<1>3. ASSUME staying PROVE PageFollowsEngine'
  <2>1. PageFollowsEngine /\ operations = {} /\ confirming = None /\ Here
    BY <1>3 DEF InfrastructureIInv, PageFollowsEngine, OneAtATime, IsOfPage, busy, Mine,
       Save, PreviewEditor, Apply, AskDestroy, Begin
  <2>2. ASSUME NEW kind, NEW step, NEW o, o = Operation(kind, step), step # "engine",
               kind = "apply" => currentPreview # None,
               kind \in {"preview", "apply"} => step = "saving"
        PROVE  IsOfPage(o)' /\ o.kind = kind /\ o.stage # "engine"
    <3>1. currentPreview # None => currentPreview.plan = editor /\ approval = currentPreview
      BY <2>1 DEF currentPreview, PageFollowsEngine
    <3>2. /\ IsOperation(o) /\ o.kind = kind /\ o.stage = step /\ o.visit = visit
          /\ o.plan = editor /\ o.preview = currentPreview
      BY <2>2 DEF Operation, IsOperation
    <3>3. QED
      BY <1>1, <2>2, <3>1, <3>2 DEF IsOfPage, IsOperation, HoldsApproval
  <2>3. CASE Save \/ PreviewEditor \/ Apply
    <3>1. PICK kind \in {"save", "preview", "apply"} :
            /\ kind = "apply" => currentPreview # None
            /\ Begin(kind, "saving")
      BY <2>3 DEF Save, PreviewEditor, Apply
    <3>2. PICK o : o = Operation(kind, "saving")
      OBVIOUS
    <3>3. operations' = {o} /\ confirming' = None
      BY <2>1, <3>1, <3>2 DEF Begin
    <3>4. IsOfPage(o)'
      BY <2>2, <3>1, <3>2
    <3>5. QED
      BY <1>1, <2>1, <3>3, <3>4 DEF PageFollowsEngine, OneAtATime, Here
  <2>4. CASE AskDestroy
    <3>1. PICK o : o = Operation("destroy", "called")
      OBVIOUS
    <3>2. confirming' = o /\ operations' = {}
      BY <2>1, <2>4, <3>1 DEF AskDestroy
    <3>3. IsOfPage(o)' /\ o.kind = "destroy" /\ o.stage # "engine"
      BY <2>2, <3>1
    <3>4. QED
      BY <1>1, <2>1, <3>2, <3>3 DEF PageFollowsEngine, OneAtATime, Here
  <2>5. QED
    BY <2>3, <2>4
<1>4. QED
  BY <1>2, <1>3 DEF InfrastructureIInv

(* The editor is not part of what an operation carries, and whoever stays    *)
(* does not leave one behind.                                                *)
LEMMA VisitIInv ==
  ASSUME InfrastructureIInv, UNCHANGED staying,
         \/ Fetch \/ ConfirmOperation \/ DeclineOperation \/ Leave \/ Return
         \/ \E p \in Plans : Edit(p) \/ SavedElsewhere(p)
  PROVE  InfrastructureIInv'
<1> USE DEF engineSide
<1>1. UNCHANGED <<approval, shown, issued, changed>>
  BY DEF Fetch, ConfirmOperation, DeclineOperation, Leave, Return, Edit, SavedElsewhere
<1>2. ApprovalIsShown' /\ AppliedIsOnScreen'
  BY <1>1 DEF InfrastructureIInv, ApprovalIsShown, AppliedIsOnScreen
<1>3. ASSUME staying PROVE PageFollowsEngine'
  <2>1. PageFollowsEngine
    BY <1>3 DEF InfrastructureIInv
  <2>2. ASSUME UNCHANGED <<visit, saved>>, NEW o, IsOfPage(o) PROVE IsOfPage(o)'
    BY <1>1, <2>2 DEF IsOfPage, IsOperation, HoldsApproval
  <2>3. CASE Fetch \/ \E p \in Plans : Edit(p)
    <3>1. UNCHANGED <<visit, saved, offered, confirming, operations>>
      BY <2>3 DEF Fetch, Edit
    <3>2. QED
      BY <1>1, <2>1, <2>2, <3>1 DEF PageFollowsEngine, OneAtATime, Here
  <2>4. CASE ConfirmOperation
    <3>1. PICK o : o = [confirming EXCEPT !.stage = "called"]
      OBVIOUS
    <3>2. /\ operations' = {o} /\ confirming' = None /\ Here
          /\ UNCHANGED <<visit, saved, offered>>
      BY <2>1, <2>4, <3>1 DEF ConfirmOperation, PageFollowsEngine, OneAtATime
    <3>3. /\ IsOfPage(confirming) /\ confirming.stage # "engine"
          /\ (confirming.kind # "destroy" => saved = confirming.plan)
      BY <2>1, <2>4 DEF ConfirmOperation, PageFollowsEngine
    <3>4. /\ IsOperation(o) /\ o.stage = "called" /\ o.kind = confirming.kind
          /\ o.visit = confirming.visit /\ o.plan = confirming.plan
          /\ o.preview = confirming.preview
      BY <3>1, <3>3, StageOfOperation DEF IsOfPage
    <3>5. HoldsApproval(o)'
      <4>1. approval' = approval
        BY <1>1
      <4>2. QED
        BY <2>1, <2>4, <3>3, <3>4, <4>1
           DEF IsOfPage, HoldsApproval, ConfirmOperation, PageFollowsEngine
    <3>6. IsOfPage(o)'
      BY <3>2, <3>3, <3>4, <3>5 DEF IsOfPage, IsOperation
    <3>7. QED
      BY <1>1, <2>1, <3>2, <3>6 DEF PageFollowsEngine, OneAtATime, Here
  <2>5. CASE DeclineOperation
    BY <1>1, <2>1, <2>2, <2>5 DEF DeclineOperation, PageFollowsEngine, OneAtATime, Here
  <2>6. CASE Leave \/ Return \/ \E p \in Plans : SavedElsewhere(p)
    <3>1. operations' = {} /\ confirming' = None /\ offered' = None
      BY <1>3, <2>1, <2>6 DEF Leave, Return, SavedElsewhere, PageFollowsEngine, OneAtATime
    <3>2. QED
      BY <3>1 DEF PageFollowsEngine, OneAtATime
  <2>7. QED
    BY <2>3, <2>4, <2>5, <2>6
<1>4. QED
  BY <1>2, <1>3 DEF InfrastructureIInv

(* The only operation of a page is of the visit that is shown.               *)
LEMMA OnlyOperation ==
  ASSUME PageFollowsEngine, NEW o \in operations
  PROVE  operations = {o} /\ confirming = None /\ Mine(o) /\ IsOfPage(o)
BY DEF PageFollowsEngine, OneAtATime, IsOfPage, Mine

(* What was saved is the plan of the operation, which goes on, ends, or asks  *)
(* for a confirmation.                                                       *)
LEMMA PlanSavedIInv ==
  ASSUME InfrastructureIInv, UNCHANGED staying, NEW o \in operations, PlanSaved(o)
  PROVE  InfrastructureIInv'
<1>1. /\ o.stage = "saving" /\ saved' = o.plan
      /\ UNCHANGED <<visit, offered, approval, shown, issued, changed>>
  BY DEF PlanSaved
<1>2. ApprovalIsShown' /\ AppliedIsOnScreen'
  BY <1>1 DEF InfrastructureIInv, ApprovalIsShown, AppliedIsOnScreen
<1>3. ASSUME staying PROVE PageFollowsEngine'
  <2>1. PageFollowsEngine
    BY <1>3 DEF InfrastructureIInv
  <2>2. operations = {o} /\ confirming = None /\ Here /\ IsOfPage(o)
    BY <2>1, OnlyOperation DEF Mine
  <2>3. PICK p : p = [o EXCEPT !.stage = "called"]
    OBVIOUS
  <2>4. /\ IsOperation(p) /\ p.stage = "called" /\ p.kind = o.kind /\ p.visit = o.visit
        /\ p.plan = o.plan /\ p.preview = o.preview
    BY <2>2, <2>3, StageOfOperation DEF IsOfPage
  <2>5. IsOfPage(p)'
    BY <1>1, <2>2, <2>4 DEF IsOfPage, IsOperation, HoldsApproval
  <2>6. IsOfPage(o)'
    BY <1>1, <2>2 DEF IsOfPage, IsOperation, HoldsApproval
  <2>7. \/ operations' = {} /\ confirming' = None
        \/ operations' = {p} /\ confirming' = None
        \/ operations' = {} /\ confirming' = o
    BY <2>2, <2>3 DEF PlanSaved
  <2>8. Here' /\ (offered' # None => approval' = offered')
    BY <1>1, <2>1, <2>2 DEF PageFollowsEngine, Here
  <2>9. QED
    BY <1>1, <2>5, <2>6, <2>7, <2>8 DEF PageFollowsEngine, OneAtATime
<1>4. QED
  BY <1>2, <1>3 DEF InfrastructureIInv

(* What is applied is what the approval is of.                               *)
LEMMA AppliesIInv ==
  ASSUME InfrastructureIInv, UNCHANGED staying, NEW o \in operations, Applies(o)
  PROVE  InfrastructureIInv'
<1>1. /\ o.kind = "apply" /\ o.stage = "called" /\ Approved(o)
      /\ changed' = [plan |-> saved, editor |-> o.plan, shown |-> shown[o.preview.token]]
      /\ UNCHANGED <<visit, offered, confirming, saved, approval, shown, issued>>
  BY DEF Applies
<1>2. saved = shown[o.preview.token]
  BY <1>1 DEF InfrastructureIInv, ApprovalIsShown, Approved
<1>3. ApprovalIsShown'
  BY <1>1 DEF InfrastructureIInv, ApprovalIsShown
<1>4. ASSUME staying PROVE PageFollowsEngine' /\ saved = o.plan
  <2>1. PageFollowsEngine
    BY <1>4 DEF InfrastructureIInv
  <2>2. operations = {o} /\ confirming = None /\ Here /\ IsOfPage(o)
    BY <2>1, OnlyOperation DEF Mine
  <2>3. PICK p : p = [o EXCEPT !.stage = "engine"]
    OBVIOUS
  <2>4. /\ IsOperation(p) /\ p.stage = "engine" /\ p.kind = o.kind /\ p.visit = o.visit
        /\ p.plan = o.plan /\ p.preview = o.preview
    BY <2>2, <2>3, StageOfOperation DEF IsOfPage
  <2>5. IsOfPage(p)'
    BY <1>1, <2>2, <2>4 DEF IsOfPage, IsOperation, HoldsApproval
  <2>6. operations' = {p}
    BY <2>2, <2>3 DEF Applies
  <2>7. saved = o.plan
    BY <1>1, <2>2 DEF IsOfPage
  <2>8. QED
    BY <1>1, <2>1, <2>2, <2>5, <2>6, <2>7 DEF PageFollowsEngine, OneAtATime, Here
<1>5. AppliedIsOnScreen'
  BY <1>1, <1>2, <1>4 DEF AppliedIsOnScreen
<1>6. QED
  BY <1>3, <1>4, <1>5 DEF InfrastructureIInv

(* A preview is of the plan that was saved for it, and its approval is of     *)
(* that plan under a token that no other has.                                *)
LEMMA PreviewIInv ==
  ASSUME InfrastructureIInv, UNCHANGED staying, NEW o \in operations,
         LoadForPreview(o) \/ PreviewShown(o)
  PROVE  InfrastructureIInv'
<1> USE DEF engineSide
<1>1. CASE LoadForPreview(o)
  <2>1. UNCHANGED <<visit, offered, confirming, saved, approval, shown, issued, changed>>
    BY <1>1 DEF LoadForPreview
  <2>2. ApprovalIsShown' /\ AppliedIsOnScreen'
    BY <2>1 DEF InfrastructureIInv, ApprovalIsShown, AppliedIsOnScreen
  <2>3. ASSUME staying PROVE PageFollowsEngine'
    <3>1. PageFollowsEngine
      BY <2>3 DEF InfrastructureIInv
    <3>2. operations = {o} /\ confirming = None /\ Here /\ IsOfPage(o)
      BY <3>1, OnlyOperation DEF Mine
    <3>3. PICK p : p = [o EXCEPT !.stage = "engine", !.loaded = saved]
      OBVIOUS
    <3>4. p = [kind |-> o.kind, stage |-> "engine", visit |-> o.visit, plan |-> o.plan,
               preview |-> o.preview, loaded |-> saved]
      BY <3>2, <3>3 DEF IsOfPage, IsOperation
    <3>5. IsOfPage(p)'
      BY <1>1, <2>1, <3>2, <3>4 DEF IsOfPage, IsOperation, HoldsApproval, LoadForPreview
    <3>6. operations' = {p}
      BY <1>1, <3>2, <3>3 DEF LoadForPreview
    <3>7. QED
      BY <2>1, <3>1, <3>2, <3>5, <3>6 DEF PageFollowsEngine, OneAtATime, Here
  <2>4. QED
    BY <2>2, <2>3 DEF InfrastructureIInv
<1>2. CASE PreviewShown(o)
  <2>1. /\ o.kind = "preview" /\ o.stage = "engine" /\ issued' = issued + 1
        /\ approval' = [token |-> issued', plan |-> o.loaded]
        /\ shown' = [t \in 1 .. issued' |-> IF t = issued' THEN o.loaded ELSE shown[t]]
        /\ offered' = (IF Mine(o) THEN [plan |-> o.plan, token |-> issued'] ELSE offered)
        /\ operations' = operations \ {o}
        /\ UNCHANGED <<visit, confirming, saved, changed>>
    BY <1>2 DEF PreviewShown, PreviewOf
  <2>2. issued' \in 1 .. issued' /\ issued' \in Nat
    BY <2>1 DEF InfrastructureIInv, ApprovalIsShown
  <2>3. approval'.token = issued' /\ approval'.plan = o.loaded
    BY <2>1
  <2>4. shown'[issued'] = o.loaded
    BY <2>1, <2>2
  <2>5. ApprovalIsShown' /\ AppliedIsOnScreen'
    BY <2>1, <2>2, <2>3, <2>4 DEF InfrastructureIInv, ApprovalIsShown, AppliedIsOnScreen
  <2>6. ASSUME staying PROVE PageFollowsEngine'
    <3>1. PageFollowsEngine
      BY <2>6 DEF InfrastructureIInv
    <3>2. operations = {o} /\ confirming = None /\ Mine(o) /\ Here /\ IsOfPage(o)
      BY <3>1, OnlyOperation DEF Mine
    <3>3. approval' = offered'
      BY <2>1, <3>2 DEF IsOfPage
    <3>4. QED
      BY <2>1, <3>2, <3>3 DEF PageFollowsEngine, OneAtATime, Here
  <2>7. QED
    BY <2>5, <2>6 DEF InfrastructureIInv
<1>3. QED
  BY <1>1, <1>2

(* An operation that ends leaves an approval that the page still offers, or   *)
(* neither.                                                                  *)
LEMMA EndIInv ==
  ASSUME InfrastructureIInv, UNCHANGED staying, NEW o \in operations,
         Fails(o) \/ ApplyEnded(o) \/ Destroyed(o)
  PROVE  InfrastructureIInv'
<1> USE DEF engineSide
<1>1. /\ UNCHANGED <<visit, confirming, shown, issued, changed>>
      /\ operations' = operations \ {o}
      /\ approval' = approval \/ approval' = None
  BY DEF Fails, ApplyEnded, Destroyed
<1>2. ApprovalIsShown' /\ AppliedIsOnScreen'
  BY <1>1 DEF InfrastructureIInv, ApprovalIsShown, AppliedIsOnScreen
<1>3. ASSUME staying PROVE PageFollowsEngine'
  <2>1. PageFollowsEngine
    BY <1>3 DEF InfrastructureIInv
  <2>2. operations = {o} /\ confirming = None /\ Mine(o) /\ Here
    BY <2>1, OnlyOperation DEF Mine
  <2>3. offered' = None \/ (offered' = offered /\ approval' = approval)
    BY <2>2 DEF Fails, ApplyEnded, Destroyed
  <2>4. QED
    BY <1>1, <2>1, <2>2, <2>3 DEF PageFollowsEngine, OneAtATime, Here
<1>4. QED
  BY <1>2, <1>3 DEF InfrastructureIInv

(* Every step keeps the inductive invariant.                                 *)
LEMMA InfrastructureNextIInv ==
  ASSUME InfrastructureIInv, [InfrastructurePageNext]_infrastructurePageVars
  PROVE  InfrastructureIInv'
<1>1. CASE InfrastructurePageNext
  BY <1>1, BeginIInv, VisitIInv, PlanSavedIInv, AppliesIInv, PreviewIInv, EndIInv
     DEF InfrastructurePageNext, Use
<1>2. CASE UNCHANGED infrastructurePageVars
  <2>1. UNCHANGED <<visit, offered, confirming, operations, saved, approval, shown, issued,
                    changed, staying>>
    BY <1>2 DEF infrastructurePageVars
  <2>2. \A o : IsOfPage(o)' <=> IsOfPage(o)
    BY <2>1 DEF IsOfPage, IsOperation, HoldsApproval
  <2>3. QED
    BY <2>1, <2>2 DEF InfrastructureIInv, ApprovalIsShown, PageFollowsEngine, OneAtATime,
       AppliedIsOnScreen, Here
<1>3. QED
  BY <1>1, <1>2

(* An apply runs the plan the engine showed under the token it presents.  For *)
(* a user who stays until what he began has ended, that is the plan the       *)
(* editor held when Apply was clicked, and the engine refuses no apply that   *)
(* the page offered.                                                         *)
THEOREM AppliesWhatIsOnScreen == InfrastructurePageSpec => []OfferedAndApplied
<1>1. InfrastructurePageSpec => []InfrastructureIInv
  BY InfrastructureInitIInv, InfrastructureNextIInv, PTL DEF InfrastructurePageSpec
<1>2. QED
  BY <1>1, InfrastructureIInvGives, PTL

------------------------------------------------------------------------------
(* The Ansible page of a user who waits and is alone.                       *)

IsForm(f) == f = [host |-> f.host, login |-> f.login, key |-> f.key]
Trusted(f) == IsForm(f) /\ (f.key # None => f.key = f.host)
IsRow(r) == r = [connection |-> r.connection, checked |-> r.checked]

About(x, f) == x # None => x.of = f /\ Connected(f)

\* What the hooks wait for and show is of the connection in the form.
AreOf(hooks, f) ==
  /\ hooks = [h \in Hooks |-> hooks[h]]
  /\ \A h \in {"repair", "run", "service", "save", "preflight", "states"} :
       About(hooks[h].pending, f)
  /\ \A h \in {"preflight", "states"} : About(hooks[h].data, f)
  /\ IsPending(hooks["inspect"]) => hooks["inspect"].pending = f.host

NothingAwaited(hooks) == \A h \in CallsToWaitFor : ~IsPending(hooks[h])

\* With no row the page shows none, and a save makes one of what it shows.
RowsAreTrusted ==
  /\ catalog = [t \in VpsTargets |-> catalog[t]]
  /\ \A t \in VpsTargets :
       catalog[t] # None => IsRow(catalog[t]) /\ Trusted(catalog[t].connection)
  /\ selected \in VpsTargets \cup {None}
  /\ selected = None => Saved = {}

ConfirmationIsOfForm ==
  asked # None =>
    /\ NothingAwaited(hook)
    /\ asked.what \in {"repair", "run", "service", "delete"}
    /\ asked.what # "delete" => About(asked.closure, form)

PageIsOfOneHost ==
  /\ Trusted(form)
  /\ RowsAreTrusted
  /\ AreOf(hook, form)
  /\ IsPending(hook["save"]) => hook["save"].pending.target \in VpsTargets
  /\ ConfirmationIsOfForm

\* The inductive invariant.
AnsibleIInv == alone => PageIsOfOneHost

------------------------------------------------------------------------------

(* A row is selected if there is one, and its states are asked for.          *)
LEMMA AnsibleInitIInv == AnsibleInit => AnsibleIInv
<1>1. SUFFICES ASSUME AnsibleInit PROVE PageIsOfOneHost
  BY DEF AnsibleIInv
<1>2. RowsAreTrusted
  <2>1. ASSUME NEW t \in VpsTargets, catalog[t] # None
        PROVE  IsRow(catalog[t]) /\ Trusted(catalog[t].connection)
    <3>1. PICK h \in Hosts :
            catalog[t] = [connection |-> [host |-> h, login |-> DefaultLogin, key |-> h],
                          checked |-> None]
      BY <1>1, <2>1 DEF AnsibleInit
    <3>2. QED
      BY <3>1 DEF IsRow, Trusted, IsForm
  <2>2. QED
    BY <1>1, <2>1, NoneIsNoTarget DEF AnsibleInit, RowsAreTrusted, Saved
<1>3. Trusted(form)
  BY <1>1, <1>2 DEF AnsibleInit, RowsAreTrusted, Saved, Trusted, IsForm, Blank
<1>4. hook = [h \in Hooks |-> hook[h]] /\ asked = None
      /\ \A h \in Hooks \ {"states"} : hook[h] = Quiet
      /\ \/ hook["states"] = Quiet
         \/ Connected(form) /\ hook["states"] = Mutated([of |-> form])
  BY <1>1 DEF AnsibleInit, Hooks
<1>5. AreOf(hook, form) /\ ~IsPending(hook["save"])
  BY <1>4 DEF AreOf, About, Quiet, Mutated, IsPending, Hooks
<1>6. QED
  BY <1>2, <1>3, <1>4, <1>5 DEF PageIsOfOneHost, ConfirmationIsOfForm

(* The invariant gives the property.                                         *)
LEMMA AnsibleIInvGives == AnsibleIInv => AttendedPageIsOfOneHost
BY DEF AnsibleIInv, PageIsOfOneHost, Trusted, AreOf, About, AttendedPageIsOfOneHost,
   TrustedKeyOfHost, ReportOfTarget, StatesOfTarget

(* The page is shown with another connection when nothing is waited for, and *)
(* the report of the other is forgotten.                                     *)
LEMMA ShownIsOfForm ==
  ASSUME PageIsOfOneHost, NEW f, NEW quiet, Show(f, quiet),
      quiet \subseteq Hooks \ {"states"},
         f # form => /\ "preflight" \in quiet
                     /\ \A h \in CallsToWaitFor \ quiet : ~IsPending(hook[h])
  PROVE  /\ AreOf(hook, form)'
         /\ \A h \in Hooks : hook'[h].pending # None =>
              h = "states" \/ (hook'[h] = hook[h] /\ h \notin quiet)
<1>1. /\ AreOf(hook, form) /\ form' = f
      /\ hook' = [h \in Hooks |-> CASE h \in quiet -> Quiet
                                    [] h = "states" -> StatesOf(f)
                                    [] OTHER -> hook[h]]
  BY DEF PageIsOfOneHost, Show
<1>2. \A h \in Hooks : hook'[h] = IF h \in quiet THEN Quiet
                                  ELSE IF h = "states" THEN StatesOf(f) ELSE hook[h]
  BY <1>1
<1>3. /\ hook' = [h \in Hooks |-> hook'[h]]
      /\ \A h \in Hooks : hook'[h].pending # None =>
           h = "states" \/ (hook'[h] = hook[h] /\ h \notin quiet)
  BY <1>1, <1>2 DEF Quiet
<1>4. About(StatesOf(f).pending, f) /\ About(StatesOf(f).data, f)
  BY <1>1 DEF StatesOf, Mutated, Quiet, About, AreOf
<1>5. hook'["states"] = StatesOf(f)
  BY <1>2 DEF Hooks
<1>6. CASE f = form
  BY <1>1, <1>2, <1>3, <1>4, <1>5, <1>6 DEF AreOf, About, Quiet, IsPending, Hooks
<1>7. CASE f # form
  <2>1. hook'["preflight"] = Quiet
    BY <1>2, <1>7 DEF Hooks
  <2>2. ASSUME NEW h \in CallsToWaitFor PROVE hook'[h].pending = None
    BY <1>2, <1>7, <2>2 DEF Hooks, CallsToWaitFor, Quiet, IsPending
  <2>3. QED
    BY <1>1, <1>3, <1>4, <1>5, <2>1, <2>2 DEF AreOf, About, Quiet, IsPending, CallsToWaitFor
<1>8. QED
  BY <1>3, <1>6, <1>7

(* A hook follows and shows something else.                                  *)
LEMMA OneHookSet ==
  ASSUME NEW hooks, NEW f, AreOf(hooks, f), NEW h \in Hooks, NEW k,
         h \notin {"inspect", "access"} => About(k.pending, f),
         h \in {"preflight", "states"} => About(k.data, f),
         h = "inspect" /\ IsPending(k) => k.pending = f.host
  PROVE  LET next == [hooks EXCEPT ![h] = k]
         IN  AreOf(next, f) /\ next[h] = k /\ \A g \in Hooks \ {h} : next[g] = hooks[g]
<1> DEFINE next == [hooks EXCEPT ![h] = k]
<1>1. /\ next = [g \in Hooks |-> next[g]] /\ next[h] = k
      /\ \A g \in Hooks \ {h} : next[g] = hooks[g]
  BY DEF AreOf
<1> HIDE DEF next
<1>2. ASSUME NEW g \in {"repair", "run", "service", "save", "preflight", "states"}
      PROVE  About(next[g].pending, f)
  BY <1>1, <1>2 DEF AreOf, Hooks
<1>3. ASSUME NEW g \in {"preflight", "states"} PROVE About(next[g].data, f)
  BY <1>1, <1>3 DEF AreOf, Hooks
<1>4. IsPending(next["inspect"]) => next["inspect"].pending = f.host
  BY <1>1 DEF AreOf, Hooks
<1>5. AreOf(next, f)
  BY <1>1, <1>2, <1>3, <1>4 DEF AreOf
<1>6. QED
  BY <1>1, <1>5 DEF next

LEMMA HookSet ==
  ASSUME AreOf(hook, form), NEW h \in Hooks, NEW k, hook' = [hook EXCEPT ![h] = k],
         UNCHANGED form,
         h \notin {"inspect", "access"} => About(k.pending, form),
         h \in {"preflight", "states"} => About(k.data, form),
         h = "inspect" /\ IsPending(k) => k.pending = form.host
  PROVE  AreOf(hook, form)' /\ hook'[h] = k /\ \A g \in Hooks \ {h} : hook'[g] = hook[g]
<1>1. PICK hooks, f : hooks = hook /\ f = form
  OBVIOUS
<1>2. /\ AreOf(hooks, f)
      /\ h \notin {"inspect", "access"} => About(k.pending, f)
      /\ h \in {"preflight", "states"} => About(k.data, f)
      /\ h = "inspect" /\ IsPending(k) => k.pending = f.host
  BY <1>1
<1>3. LET next == [hooks EXCEPT ![h] = k]
      IN  AreOf(next, f) /\ next[h] = k /\ \A g \in Hooks \ {h} : next[g] = hooks[g]
  BY <1>2, OneHookSet
<1>4. QED
  BY <1>1, <1>3 DEF AreOf, About, Connected, IsPending

(* A report is noted in a row.                                               *)
LEMMA CheckedRows ==
  ASSUME RowsAreTrusted, NEW check, catalog' = Recorded(check), UNCHANGED selected
  PROVE  RowsAreTrusted'
<1>1. CASE catalog' = catalog
  BY <1>1 DEF RowsAreTrusted, Saved
<1>2. CASE catalog' # catalog
  <2>1. PICK t, c : /\ catalog[t] # None
                    /\ catalog' = [catalog EXCEPT ![t] = [catalog[t] EXCEPT !.checked = c]]
    BY <1>2 DEF Recorded
  <2>2. t \in VpsTargets /\ catalog' = [u \in VpsTargets |-> catalog'[u]]
        /\ selected' # None /\ selected' \in VpsTargets
    BY <1>2, <2>1 DEF RowsAreTrusted, Saved
  <2>3. PICK row : row = [catalog[t] EXCEPT !.checked = c]
    OBVIOUS
  <2>4. IsRow(row) /\ Trusted(row.connection)
    BY <2>1, <2>2, <2>3 DEF RowsAreTrusted, IsRow
  <2>5. \A u \in VpsTargets : catalog'[u] = IF u = t THEN row ELSE catalog[u]
    BY <2>1, <2>2, <2>3 DEF RowsAreTrusted
  <2>6. ASSUME NEW u \in VpsTargets, catalog'[u] # None
        PROVE  IsRow(catalog'[u]) /\ Trusted(catalog'[u].connection)
    BY <2>4, <2>5, <2>6 DEF RowsAreTrusted
  <2>7. QED
    BY <2>2, <2>6 DEF RowsAreTrusted, IsRow, Trusted, IsForm
<1>3. QED
  BY <1>1, <1>2

(* Where what the hooks follow is right, and the form stays, so is all.      *)
LEMMA FormStays ==
  ASSUME PageIsOfOneHost, UNCHANGED form,
         UNCHANGED <<catalog, selected>> \/ RowsAreTrusted',
         AreOf(hook, form)', hook'["save"].pending \in {None, hook["save"].pending},
         ConfirmationIsOfForm'
  PROVE  PageIsOfOneHost'
<1>1. RowsAreTrusted'
  BY DEF PageIsOfOneHost, RowsAreTrusted, Saved
<1>2. QED
  BY <1>1 DEF PageIsOfOneHost, IsPending

(* The user edits the form or selects a row or a profile: nothing is waited  *)
(* for then.                                                                 *)
LEMMA UserShows ==
  ASSUME PageIsOfOneHost, alone, Attentive, NEW f, Trusted(f), NEW quiet, Show(f, quiet),
         quiet \subseteq Hooks \ {"states"}, "preflight" \in quiet,
         UNCHANGED <<catalog, asked>>, selected' \in VpsTargets \cup {None},
         selected' = None => Saved = {}
  PROVE  PageIsOfOneHost'
<1>1. \A h \in CallsToWaitFor : ~IsPending(hook[h])
  BY DEF Attentive
<1>2. /\ AreOf(hook, form)'
      /\ \A h \in Hooks : hook'[h].pending # None =>
           h = "states" \/ (hook'[h] = hook[h] /\ h \notin quiet)
  BY <1>1, ShownIsOfForm
<1>3. ~IsPending(hook'["save"])
  BY <1>1, <1>2 DEF IsPending, CallsToWaitFor, Hooks
<1>4. RowsAreTrusted'
  BY DEF PageIsOfOneHost, RowsAreTrusted, Saved
<1>5. ConfirmationIsOfForm'
  BY DEF Attentive, ConfirmationIsOfForm
<1>6. form' = f
  BY DEF Show
<1>7. QED
  BY <1>2, <1>3, <1>4, <1>5, <1>6 DEF PageIsOfOneHost, Trusted, IsForm, IsPending

(* Edits and selections.                                                     *)
LEMMA UserStep ==
  ASSUME PageIsOfOneHost, alone,
         \/ \E h \in Hosts : EditHost(h)
         \/ \E l \in Logins : EditLogin(l)
         \/ \E p \in Profiles : SelectProfile(p)
         \/ \E t \in VpsTargets : SelectRow(t)
         \/ SelectNewTarget
  PROVE  PageIsOfOneHost'
<1>1. Trusted(form) /\ RowsAreTrusted
  BY DEF PageIsOfOneHost
<1> DEFINE all == {"preflight", "access", "run"}
<1>2. {"preflight"} \subseteq Hooks \ {"states"} /\ all \subseteq Hooks \ {"states"}
  BY DEF Hooks
<1>3. ASSUME NEW h \in Hosts, EditHost(h) PROVE PageIsOfOneHost'
  <2>1. PICK f : f = [form EXCEPT !.host = h, !.key = None]
    OBVIOUS
  <2>2. Trusted(f)
    BY <1>1, <2>1 DEF Trusted, IsForm
  <2>3. QED
    BY <1>1, <1>2, <1>3, <2>1, <2>2, UserShows DEF EditHost, RowsAreTrusted
<1>4. ASSUME NEW l \in Logins, EditLogin(l) PROVE PageIsOfOneHost'
  <2>1. PICK f : f = [form EXCEPT !.login = l]
    OBVIOUS
  <2>2. Trusted(f)
    BY <1>1, <2>1 DEF Trusted, IsForm
  <2>3. QED
    BY <1>1, <1>2, <1>4, <2>1, <2>2, UserShows DEF EditLogin, RowsAreTrusted
<1>5. ASSUME NEW p \in Profiles, SelectProfile(p) PROVE PageIsOfOneHost'
  BY <1>1, <1>2, <1>5, UserShows DEF SelectProfile, RowsAreTrusted
<1>6. ASSUME NEW t \in VpsTargets, SelectRow(t) PROVE PageIsOfOneHost'
  <2>1. Trusted(catalog[t].connection)
    BY <1>1, <1>6 DEF SelectRow, Saved, RowsAreTrusted
  <2>2. QED
    BY <1>2, <1>6, <2>1, NoneIsNoTarget, UserShows DEF SelectRow
<1>7. CASE SelectNewTarget
  <2>1. CASE selected' = None /\ Saved = {} /\ Show(Blank, all)
    <3>1. Trusted(Blank)
      BY DEF Trusted, IsForm, Blank
    <3>2. QED
      BY <1>2, <1>7, <2>1, <3>1, UserShows DEF SelectNewTarget
  <2>2. ASSUME NEW t \in VpsTargets, catalog[t] # None, selected' = t,
               Show(catalog[t].connection, all)
        PROVE  PageIsOfOneHost'
    BY <1>1, <1>2, <1>7, <2>2, NoneIsNoTarget, UserShows DEF SelectNewTarget, RowsAreTrusted
  <2>3. QED
    BY <1>7, <2>1, <2>2 DEF SelectNewTarget, SelectFirstOf, Saved
<1>8. QED
  BY <1>3, <1>4, <1>5, <1>6, <1>7

(* Calls of the page, of what the form shows.                                *)
LEMMA CallStep ==
  ASSUME PageIsOfOneHost, alone,
         \/ \E p \in Profiles : Preflight(p)
         \/ InspectHost \/ RefreshStates \/ LoadAccess \/ SaveTarget
         \/ \E what \in {"repair", "run", "service", "delete"} : Ask(what)
         \/ DeclineAsked \/ ConfirmAsked
  PROVE  PageIsOfOneHost'
<1>1. AreOf(hook, form) /\ ConfirmationIsOfForm
  BY DEF PageIsOfOneHost
<1>2. ASSUME NEW p \in Profiles, Preflight(p) PROVE PageIsOfOneHost'
  <2>1. PICK check : /\ check = [Closure EXCEPT !.profile = p]
                     /\ hook' = [hook EXCEPT !["preflight"] = Mutated(check)]
    BY <1>2 DEF Preflight
  <2>2. check.of = form /\ Connected(form) /\ asked = None
    BY <1>2, <2>1 DEF Preflight, Closure, FormAtHand
  <2>3. AreOf(hook, form)' /\ hook'["save"] = hook["save"]
    <3>1. /\ About(check, form) /\ About(None, form)
          /\ "preflight" \in Hooks /\ "save" \in Hooks \ {"preflight"}
      BY <2>2 DEF About, Hooks
    <3>2. PICK k : k = Mutated(check)
      OBVIOUS
    <3>3. k.pending = check /\ k.data = None
      BY <3>2 DEF Mutated
    <3>4. QED
      <4>1. UNCHANGED form /\ AreOf(hook, form) /\ hook' = [hook EXCEPT !["preflight"] = k]
        BY <1>1, <1>2, <2>1, <3>2 DEF Preflight
      <4>2. About(k.pending, form) /\ About(k.data, form)
        BY <3>1, <3>3
      <4>3. QED
        BY ONLY <3>1, <4>1, <4>2, HookSet
  <2>4. QED
    BY <1>2, <2>2, <2>3, FormStays DEF Preflight, ConfirmationIsOfForm
<1>3. CASE InspectHost
  <2>1. AreOf(hook, form)' /\ hook'["save"] = hook["save"]
    BY <1>1, <1>3 DEF InspectHost, AreOf, About, Mutated, IsPending, Hooks, Connected
  <2>2. QED
    BY <1>3, <2>1, FormStays DEF InspectHost, FormAtHand, ConfirmationIsOfForm
<1>4. CASE RefreshStates
  <2>1. AreOf(hook, form)' /\ hook'["save"] = hook["save"]
    BY <1>1, <1>4 DEF RefreshStates, AreOf, About, Mutated, IsPending, Hooks, Connected
  <2>2. QED
    BY <1>4, <2>1, FormStays DEF RefreshStates, FormAtHand, ConfirmationIsOfForm
<1>5. CASE LoadAccess
  <2>1. AreOf(hook, form)' /\ hook'["save"] = hook["save"]
    BY <1>1, <1>5 DEF LoadAccess, AreOf, About, Mutated, IsPending, Hooks, Connected
  <2>2. QED
    BY <1>5, <2>1, FormStays DEF LoadAccess, FormAtHand, ConfirmationIsOfForm
<1>6. CASE SaveTarget
  <2>1. PICK t \in VpsTargets :
          hook' = [hook EXCEPT !["save"] = Mutated([target |-> t, of |-> form,
                                                    new |-> selected = None])]
    BY <1>6 DEF SaveTarget, PageIsOfOneHost, RowsAreTrusted
  <2>2. PICK k : /\ hook' = [hook EXCEPT !["save"] = k]
                 /\ k.pending.target = t /\ k.pending.of = form /\ k.data = None
    <3> DEFINE k == Mutated([target |-> t, of |-> form, new |-> selected = None])
    <3>1. k.pending.target = t /\ k.pending.of = form /\ k.data = None
      BY DEF Mutated
    <3>2. hook' = [hook EXCEPT !["save"] = k]
      BY <2>1
    <3> HIDE DEF k
    <3>3. QED
      BY <3>1, <3>2
  <2>3. AreOf(hook, form)' /\ hook'["save"] = k
    BY <1>1, <1>6, <2>2, HookSet DEF SaveTarget, About, Hooks
  <2>4. QED
    BY <1>6, <2>2, <2>3
      
          DEF SaveTarget, FormAtHand, ConfirmationIsOfForm, PageIsOfOneHost, RowsAreTrusted, Saved
<1>7. ASSUME NEW what \in {"repair", "run", "service", "delete"}, Ask(what)
      PROVE  PageIsOfOneHost'
  <2>1. PICK new : asked' = new /\ new.what = what /\ new.closure.of = form
    BY <1>7 DEF Ask, Closure
  <2>2. what # "delete" => Connected(form)
    BY <1>1, <1>7 DEF Ask, Offered, AreOf, About
  <2>3. NothingAwaited(hook)'
    BY <1>7 DEF Ask, Attentive, NothingAwaited
  <2>4. ConfirmationIsOfForm'
    BY <1>7, <2>1, <2>2, <2>3 DEF Ask, ConfirmationIsOfForm, About, Connected
  <2>5. QED
    BY <1>1, <1>7, <2>4, FormStays DEF Ask, AreOf, About, Connected
<1>8. CASE DeclineAsked
  BY <1>1, <1>8, FormStays DEF DeclineAsked, ConfirmationIsOfForm, AreOf, About, Connected
<1>9. CASE ConfirmAsked
  <2>1. PICK what, closure : what = asked.what /\ closure = asked.closure
    OBVIOUS
  <2>2. /\ hook' = [hook EXCEPT ![what] = Mutated(closure)]
        /\ what \in {"repair", "run", "service"} /\ About(closure, form)
    BY <1>1, <1>9, <2>1 DEF ConfirmAsked, ConfirmationIsOfForm
  <2>3. AreOf(hook, form)' /\ hook'["save"] = hook["save"]
    <3>1. /\ what \in Hooks /\ "save" \in Hooks \ {what}
          /\ what \notin {"inspect", "preflight", "states"}
      BY <2>2 DEF Hooks
    <3>2. PICK k : k = Mutated(closure)
      OBVIOUS
    <3>3. k.pending = closure
      BY <3>2 DEF Mutated
    <3>4. UNCHANGED form /\ AreOf(hook, form) /\ hook' = [hook EXCEPT ![what] = k]
      BY <1>1, <1>9, <2>2, <3>2 DEF ConfirmAsked
    <3>5. About(k.pending, form)
      BY <2>2, <3>3
    <3>6. QED
      BY ONLY <3>1, <3>4, <3>5, HookSet
  <2>4. QED
    BY <1>9, <2>3, FormStays DEF ConfirmAsked, ConfirmationIsOfForm
<1>10. QED
  BY <1>2, <1>3, <1>4, <1>5, <1>6, <1>7, <1>8, <1>9

(* Answers, which find the form as it was when the page asked.               *)
LEMMA AnswerStep ==
  ASSUME PageIsOfOneHost, alone,
         \/ \E check \in checks, status \in {"ready", "needs-repair", "failed"} :
              PreflightAnswered(check, status)
         \/ \E works \in BOOLEAN :
              \/ InspectAnswered(works) \/ StatesAnswered(works) \/ RepairAnswered(works)
              \/ RunAnswered(works) \/ ServiceAnswered(works) \/ AccessAnswered(works)
  PROVE  PageIsOfOneHost'
<1>1. AreOf(hook, form) /\ ConfirmationIsOfForm /\ Trusted(form) /\ RowsAreTrusted
  BY DEF PageIsOfOneHost
<1>2. About(None, form) /\ About(Quiet.pending, form) /\ About(Quiet.data, form)
      /\ Quiet.pending = None
  BY DEF About, Quiet
<1>3. ASSUME NEW x
      PROVE  Answered(x).pending = None /\ Answered(x).data = x
             /\ Mutated(x).pending = x /\ Mutated(x).data = None
  BY DEF Answered, Mutated
<1>4. ASSUME UNCHANGED <<asked, form>>,
             \A h \in CallsToWaitFor : hook'[h].pending \in {None, hook[h].pending}
      PROVE  ConfirmationIsOfForm'
  BY <1>1, <1>4 DEF ConfirmationIsOfForm, NothingAwaited, About, Connected, IsPending
<1>5. ASSUME NEW h \in CallsToWaitFor, IsPending(hook[h]) PROVE asked = None
  BY <1>1, <1>5 DEF ConfirmationIsOfForm, NothingAwaited
<1>6. CallsToWaitFor \subseteq Hooks /\ "preflight" \in Hooks \ CallsToWaitFor
      /\ "states" \in Hooks \ CallsToWaitFor /\ "access" \in Hooks \ CallsToWaitFor
      /\ {"inspect", "repair", "run", "service", "save"} \subseteq CallsToWaitFor
  BY DEF Hooks, CallsToWaitFor
<1> HIDE DEF Hooks, CallsToWaitFor, Quiet, Answered, Mutated
<1>7. ASSUME NEW check \in checks, NEW status, PreflightAnswered(check, status)
      PROVE  PageIsOfOneHost'
  <2>1. RowsAreTrusted'
    <3>1. CASE catalog' = catalog
      BY <1>1, <1>7, <3>1 DEF PreflightAnswered, RowsAreTrusted, Saved
    <3>2. CASE catalog' = Recorded(check)
      BY <1>1, <1>7, <3>2, CheckedRows DEF PreflightAnswered
    <3>3. QED
      BY <1>7, <3>1, <3>2 DEF PreflightAnswered
  <2>2. CASE hook' = hook
    <3>1. UNCHANGED <<form, asked>>
      BY <1>7 DEF PreflightAnswered
    <3>2. AreOf(hook, form)'
      BY <1>1, <2>2, <3>1 DEF AreOf, About, Connected, IsPending
    <3>3. QED
      BY <1>4, <2>1, <2>2, <3>1, <3>2, FormStays
  <2>3. CASE hook' # hook
    <3>1. hook["preflight"].pending # None /\ hook["preflight"].pending = check
      BY <1>7, <2>3 DEF PreflightAnswered, IsPending
    <3>2. About(check, form) /\ check # None
      BY <1>1, <3>1 DEF AreOf
    <3>3. PICK data : /\ hook' = [hook EXCEPT !["preflight"] = Answered(data)]
                      /\ data # None => data.of = check.of
      <4> DEFINE data == IF status = "failed" THEN None
                         ELSE [of |-> check.of, profile |-> check.profile,
                               variables |-> check.variables, status |-> status]
      <4>1. hook' = [hook EXCEPT !["preflight"] = Answered(data)]
        BY <1>7, <2>3, <3>1 DEF PreflightAnswered
      <4>2. data # None => data.of = check.of
        OBVIOUS
      <4> HIDE DEF data
      <4>3. QED
        BY <4>1, <4>2
    <3>4. About(data, form)
      BY <3>2, <3>3 DEF About
    <3>5. AreOf(hook, form)' /\ \A g \in Hooks \ {"preflight"} : hook'[g] = hook[g]
      <4>1. PICK k : k = Answered(data)
        OBVIOUS
      <4>2. k.pending = None /\ k.data = data
        BY <1>3, <4>1
      <4>3. QED
        <5>1. About(k.pending, form) /\ About(k.data, form) /\ UNCHANGED form
          BY <1>2, <1>7, <3>4, <4>2 DEF PreflightAnswered
        <5>2. "preflight" \in Hooks /\ hook' = [hook EXCEPT !["preflight"] = k]
          BY <1>6, <3>3, <4>1
        <5>3. QED
          BY <1>1, <5>1, <5>2, HookSet
    <3>6. QED
      BY <1>4, <1>6, <1>7, <2>1, <3>5, FormStays DEF PreflightAnswered
  <2>4. QED
    BY <2>2, <2>3
<1>8. ASSUME NEW works \in BOOLEAN, InspectAnswered(works) PROVE PageIsOfOneHost'
  <2>1. asked = None /\ UNCHANGED <<asked, catalog, selected>>
        /\ hook["inspect"].pending = form.host /\ form.host # None
    BY <1>1, <1>5, <1>6, <1>8 DEF InspectAnswered, AreOf, IsPending
  <2>2. PICK f, quiet :
          /\ Show(f, quiet) /\ f \in {form, [form EXCEPT !.key = form.host]}
          /\ quiet \subseteq {"inspect", "preflight"} /\ "inspect" \in quiet
          /\ f # form => "preflight" \in quiet
    BY <1>8, <2>1 DEF InspectAnswered
  <2>3. Trusted(f) /\ (Connected(form) => f = form)
    BY <1>1, <2>1, <2>2 DEF Trusted, IsForm, Connected
  <2>4. ASSUME f # form, NEW h \in CallsToWaitFor \ quiet PROVE ~IsPending(hook[h])
    BY <1>1, <1>6, <2>2, <2>3, <2>4 DEF AreOf, About, IsPending, CallsToWaitFor
  <2>5. quiet \subseteq Hooks \ {"states"}
    BY <2>2 DEF Hooks
  <2>6. /\ AreOf(hook, form)'
        /\ \A h \in Hooks : hook'[h].pending # None =>
             h = "states" \/ (hook'[h] = hook[h] /\ h \notin quiet)
    BY <2>2, <2>4, <2>5, ShownIsOfForm
  <2>7. IsPending(hook'["save"]) => hook'["save"].pending.target \in VpsTargets
    BY <2>6 DEF IsPending, PageIsOfOneHost, Hooks
  <2>8. RowsAreTrusted' /\ ConfirmationIsOfForm'
    BY <1>1, <2>1 DEF RowsAreTrusted, Saved, ConfirmationIsOfForm
  <2>9. Trusted(form)'
    BY <2>2, <2>3 DEF Show, Trusted, IsForm
  <2>10. QED
    BY <2>6, <2>7, <2>8, <2>9 DEF PageIsOfOneHost, IsPending
<1>9. ASSUME NEW works \in BOOLEAN, StatesAnswered(works) PROVE PageIsOfOneHost'
  <2>1. PICK states \in {None, hook["states"].pending} :
          hook' = [hook EXCEPT !["states"] = Answered(states)]
    BY <1>9 DEF StatesAnswered
  <2>2. About(states, form)
    BY <1>1, <1>2, <2>1 DEF AreOf
  <2>3. AreOf(hook, form)' /\ \A g \in Hooks \ {"states"} : hook'[g] = hook[g]
    BY ZenonT(60), <1>1, <1>2, <1>3, <1>6, <1>9, <2>1, <2>2, HookSet DEF StatesAnswered
  <2>4. QED
    BY <1>4, <1>6, <1>9, <2>3, FormStays DEF StatesAnswered
<1>10. ASSUME NEW works \in BOOLEAN, AccessAnswered(works) PROVE PageIsOfOneHost'
  <2>1. PICK access : hook' = [hook EXCEPT !["access"] = Answered(access)]
    BY <1>10 DEF AccessAnswered
  <2>2. AreOf(hook, form)' /\ \A g \in Hooks \ {"access"} : hook'[g] = hook[g]
    BY <1>1, <1>3, <1>6, <1>10, <2>1, HookSet DEF AccessAnswered
  <2>3. QED
    BY <1>4, <1>6, <1>10, <2>2, FormStays DEF AccessAnswered
<1>11. ASSUME NEW h \in {"repair", "run", "service"}, IsPending(hook[h])
       PROVE  /\ asked = None /\ About(hook[h].pending, form) /\ hook[h].pending # None
              /\ AreOf([hook EXCEPT ![h] = Quiet], form)
  <2>1. About(hook[h].pending, form) /\ hook[h].pending # None
    BY <1>1, <1>11 DEF AreOf, IsPending
  <2>2. asked = None
    BY <1>5, <1>6, <1>11
  <2>3. h \in Hooks /\ h # "inspect" /\ h \notin {"preflight", "states"}
    BY <1>6
  <2>4. AreOf([hook EXCEPT ![h] = Quiet], form)
    BY <1>1, <1>2, <2>3, OneHookSet
  <2>5. QED
    BY <2>1, <2>2, <2>4
<1>12. ASSUME NEW works \in BOOLEAN, RepairAnswered(works) PROVE PageIsOfOneHost'
  <2>1. PICK check, quiet : /\ check = hook["repair"].pending
                            /\ quiet = [hook EXCEPT !["repair"] = Quiet]
    OBVIOUS
  <2>2. /\ asked = None /\ UNCHANGED <<asked, form, selected>>
        /\ About(check, form) /\ check # None /\ AreOf(quiet, form)
        /\ \/ hook' = quiet /\ UNCHANGED catalog
           \/ /\ hook' = [quiet EXCEPT !["preflight"] = Mutated(check)]
              /\ catalog' = Recorded(check)
    BY <1>11, <1>12, <2>1 DEF RepairAnswered
  <2>3. PICK next : hook' = next /\ AreOf(next, form) /\ next["save"] = quiet["save"]
    <3>1. PICK k : k = Mutated(check)
      OBVIOUS
    <3>2. About(k.pending, form) /\ About(k.data, form)
      BY <1>2, <1>3, <2>2, <3>1
    <3>3. "preflight" \in Hooks /\ "save" \in Hooks \ {"preflight"}
      BY <1>6
    <3>4. LET next == [quiet EXCEPT !["preflight"] = k]
          IN  AreOf(next, form) /\ next["save"] = quiet["save"]
      BY <2>2, <3>2, <3>3, OneHookSet
    <3>5. QED
      BY <2>2, <3>1, <3>4
  <2>4. quiet["save"] = hook["save"]
    BY <1>1, <1>6, <2>1 DEF AreOf
  <2>5. AreOf(hook, form)'
    BY <2>2, <2>3 DEF AreOf, About, Connected, IsPending
  <2>6. RowsAreTrusted'
    BY <1>1, <2>2, CheckedRows DEF RowsAreTrusted, Saved
  <2>7. QED
    BY <2>2, <2>3, <2>4, <2>5, <2>6, FormStays DEF ConfirmationIsOfForm
<1>13. ASSUME NEW call, About(call, form), call # None, NEW k,
              k \in {hook["states"], Mutated([of |-> call.of])}
       PROVE  About(k.pending, form) /\ About(k.data, form)
  <2>1. CASE k = hook["states"]
    BY <1>1, <2>1 DEF AreOf
  <2>2. CASE k # hook["states"]
    <3>1. PICK told : told = [of |-> call.of]
      OBVIOUS
    <3>2. told.of = form /\ Connected(form)
      BY <1>13, <3>1 DEF About
    <3>3. k.pending = told /\ k.data = None
      BY <1>3, <1>13, <2>2, <3>1
    <3>4. QED
      BY <3>2, <3>3 DEF About
  <2>3. QED
    BY <2>1, <2>2
<1>14. ASSUME NEW works \in BOOLEAN, RunAnswered(works) PROVE PageIsOfOneHost'
  <2>1. PICK ran,
      quiet : ran = hook["run"].pending /\ quiet = [hook EXCEPT !["run"] = Quiet]
    OBVIOUS
  <2>2. /\ asked = None /\ UNCHANGED <<asked, form, selected, catalog>>
        /\ About(ran, form) /\ ran # None /\ AreOf(quiet, form)
    BY <1>11, <1>14, <2>1 DEF RunAnswered
  <2>3. PICK states, access :
          /\ hook' = [[quiet EXCEPT !["states"] = states] EXCEPT !["access"] = access]
          /\ states \in {hook["states"], Mutated([of |-> ran.of])}
    <3> DEFINE states == IF works THEN Mutated([of |-> ran.of]) ELSE quiet["states"]
               access == IF works /\ ran.profile \in Secretive THEN Mutated(ran)
                         ELSE quiet["access"]
    <3>1. quiet["states"] = hook["states"] /\ quiet["access"] = hook["access"]
      BY <1>1, <1>6, <2>1 DEF AreOf
    <3>2. hook' = [hook EXCEPT !["run"] = Quiet, !["states"] = states, !["access"] = access]
      BY <1>14, <2>1, <3>1 DEF RunAnswered
    <3>3. hook' = [[quiet EXCEPT !["states"] = states] EXCEPT !["access"] = access]
      BY <2>1, <3>2
    <3>4. states \in {hook["states"], Mutated([of |-> ran.of])}
      BY <3>1
    <3> HIDE DEF states, access
    <3>5. QED
      BY <3>3, <3>4
  <2>4. PICK next : next = [quiet EXCEPT !["states"] = states]
    OBVIOUS
  <2>5. AreOf(next, form) /\ next["save"] = quiet["save"]
    <3>1. About(states.pending, form) /\ About(states.data, form)
      BY <1>13, <2>2, <2>3
    <3>2. "states" \in Hooks /\ "save" \in Hooks \ {"states"}
      BY <1>6
    <3>3. LET set == [quiet EXCEPT !["states"] = states]
          IN  AreOf(set, form) /\ set["save"] = quiet["save"]
      BY <2>2, <3>1, <3>2, OneHookSet
    <3>4. QED
      BY <2>4, <3>3
  <2>6. LET set == [next EXCEPT !["access"] = access]
        IN  AreOf(set, form) /\ set["save"] = next["save"]
    <3>1. "access" \in Hooks /\ "save" \in Hooks \ {"access"}
      BY <1>6
    <3>2. QED
      BY <2>5, <3>1, OneHookSet
  <2>7. AreOf(hook, form)' /\ hook'["save"] = quiet["save"]
    BY <2>2, <2>3, <2>4, <2>5, <2>6 DEF AreOf, About, Connected, IsPending
  <2>8. quiet["save"] = hook["save"]
    BY <1>1, <1>6, <2>1 DEF AreOf
  <2>9. QED
    BY <2>2, <2>7, <2>8, FormStays DEF ConfirmationIsOfForm
<1>15. ASSUME NEW works \in BOOLEAN, ServiceAnswered(works) PROVE PageIsOfOneHost'
  <2>1. PICK call, quiet : /\ call = hook["service"].pending
                           /\ quiet = [hook EXCEPT !["service"] = Quiet]
    OBVIOUS
  <2>2. /\ asked = None /\ UNCHANGED <<asked, form, selected, catalog>>
        /\ About(call, form) /\ call # None /\ AreOf(quiet, form)
    BY <1>11, <1>15, <2>1 DEF ServiceAnswered
  <2>3. PICK states : /\ hook' = [quiet EXCEPT !["states"] = states]
                      /\ states \in {hook["states"], Mutated([of |-> call.of])}
    <3> DEFINE states == IF works THEN Mutated([of |-> call.of]) ELSE hook["states"]
    <3>1. hook' = [hook EXCEPT !["service"] = Quiet, !["states"] = states]
      BY <1>1, <1>6, <1>15, <2>1 DEF ServiceAnswered, AreOf
    <3>2. hook' = [quiet EXCEPT !["states"] = states]
      BY <2>1, <3>1
    <3>3. states \in {hook["states"], Mutated([of |-> call.of])}
      OBVIOUS
    <3> HIDE DEF states
    <3>4. QED
      BY <3>2, <3>3
  <2>4. LET next == [quiet EXCEPT !["states"] = states]
        IN  AreOf(next, form) /\ next["save"] = quiet["save"]
    <3>1. About(states.pending, form) /\ About(states.data, form)
      BY <1>13, <2>2, <2>3
    <3>2. "states" \in Hooks /\ "save" \in Hooks \ {"states"}
      BY <1>6
    <3>3. QED
      BY <2>2, <3>1, <3>2, OneHookSet
  <2>5. AreOf(hook, form)' /\ hook'["save"] = quiet["save"]
    BY <2>2, <2>3, <2>4 DEF AreOf, About, Connected, IsPending
  <2>6. quiet["save"] = hook["save"]
    BY <1>1, <1>6, <2>1 DEF AreOf
  <2>7. QED
    BY <2>2, <2>5, <2>6, FormStays DEF ConfirmationIsOfForm
<1>20. QED
  BY <1>7, <1>8, <1>9, <1>10, <1>12, <1>14, <1>15

(* A row is saved, or deleted.                                               *)
LEMMA RowStep ==
  ASSUME PageIsOfOneHost, alone, SaveAnswered \/ DeleteTarget
  PROVE  PageIsOfOneHost'
<1>1. AreOf(hook, form) /\ ConfirmationIsOfForm /\ Trusted(form) /\ RowsAreTrusted
  BY DEF PageIsOfOneHost
<1>2. CASE SaveAnswered
  <2>1. PICK toSave, row, after :
          /\ toSave = hook["save"].pending
          /\ row = Row(toSave.target, toSave.of)
          /\ after = [catalog EXCEPT ![toSave.target] = row]
    OBVIOUS
  <2>2. /\ asked = None /\ UNCHANGED asked
        /\ toSave.of = form /\ toSave.target \in VpsTargets
    BY <1>1, <1>2, <2>1
      
          DEF SaveAnswered, ConfirmationIsOfForm, NothingAwaited, CallsToWaitFor, AreOf, About,
           IsPending,
           PageIsOfOneHost
  <2>3. IsRow(row) /\ row.connection = form
    BY <2>1, <2>2 DEF Row, IsRow
  <2>4. /\ after = [t \in VpsTargets |-> after[t]]
        /\ \A t \in VpsTargets : after[t] = IF t = toSave.target THEN row ELSE catalog[t]
    BY <1>1, <2>1 DEF RowsAreTrusted

       <2>5. \A t \in VpsTargets : after[t] # None => IsRow(after[t]) /\ Trusted(after[t].connection)
    BY <1>1, <2>3, <2>4 DEF RowsAreTrusted
  <2>6. Show(form, {"save"})
    <3>1. CASE \E t \in {t \in VpsTargets : after[t] # None} :
                 selected = None /\ Show(after[t].connection, {"save"})
      <4>1. PICK t \in VpsTargets :
              after[t] # None /\ selected = None /\ Show(after[t].connection, {"save"})
        BY <3>1
      <4>2. catalog[t] = None
        BY <1>1, <4>1 DEF RowsAreTrusted, Saved
      <4>3. QED
        BY <2>3, <2>4, <4>1, <4>2
    <3>2. QED
      BY <1>2, <2>1, <3>1 DEF SaveAnswered
  <2>7. \/ catalog' = after /\ selected' = toSave.target
        \/ UNCHANGED <<catalog, selected>>
    BY <1>2, <2>1 DEF SaveAnswered
  <2>8. RowsAreTrusted'
    <3>1. CASE catalog' = after /\ selected' = toSave.target
      BY <2>2, <2>4, <2>5, <3>1, NoneIsNoTarget
         DEF RowsAreTrusted, Saved, IsRow, Trusted, IsForm
    <3>2. QED
      BY <1>1, <2>7, <3>1 DEF RowsAreTrusted, Saved
  <2>9. /\ AreOf(hook, form)' /\ UNCHANGED form
        /\ \A h \in Hooks : hook'[h].pending # None =>
             h = "states" \/ (hook'[h] = hook[h] /\ h \notin {"save"})
    <3>1. {"save"} \subseteq Hooks \ {"states"}
      BY DEF Hooks
    <3>2. QED
      BY <2>6, <3>1, ShownIsOfForm DEF Show
  <2>10. hook'["save"].pending = None
    BY <2>9 DEF Hooks
  <2>11. QED
    BY <2>2, <2>8, <2>9, <2>10, FormStays DEF ConfirmationIsOfForm
<1>3. CASE DeleteTarget
  <2>1. /\ asked # None /\ asked' = None /\ NothingAwaited(hook)
        /\ catalog' = [catalog EXCEPT ![asked.closure.target] = None]
    BY <1>1, <1>3 DEF DeleteTarget, ConfirmationIsOfForm
  <2>2. /\ catalog' = [t \in VpsTargets |-> catalog'[t]]
        /\ \A t \in VpsTargets :
             catalog'[t] # None => IsRow(catalog'[t]) /\ Trusted(catalog'[t].connection)
    BY <1>1, <2>1 DEF RowsAreTrusted
  <2>3. PICK f, quiet : /\ Show(f, quiet) /\ quiet = {"preflight", "access", "run"}
                        /\ Trusted(f) /\ selected' \in VpsTargets \cup {None}
                        /\ selected' = None => \A t \in VpsTargets : catalog'[t] = None
    <3> DEFINE all == {"preflight", "access", "run"}
    <3>1. Trusted(Blank)
      BY DEF Trusted, IsForm, Blank
    <3>2. \/ /\ selected' = None /\ Show(Blank, all)
             /\ \A t \in VpsTargets : catalog'[t] = None
          \/ \E t \in VpsTargets : /\ catalog'[t] # None /\ selected' = t
                                   /\ Show(catalog'[t].connection, all)
      BY <1>3 DEF DeleteTarget, SelectFirstOf
    <3>3. QED
      BY <2>2, <3>1, <3>2, NoneIsNoTarget
  <2>4. RowsAreTrusted'
    BY <2>2, <2>3 DEF RowsAreTrusted, Saved, IsRow, Trusted, IsForm
  <2>5. /\ AreOf(hook, form)'
        /\ \A h \in Hooks : hook'[h].pending # None =>
             h = "states" \/ (hook'[h] = hook[h] /\ h \notin quiet)
    <3>1. quiet \subseteq Hooks \ {"states"} /\ "preflight" \in quiet
      BY <2>3 DEF Hooks
    <3>2. QED
      BY <2>1, <2>3, <3>1, ShownIsOfForm DEF NothingAwaited
  <2>6. ~IsPending(hook'["save"])
    BY <2>1, <2>3, <2>5 DEF IsPending, NothingAwaited, CallsToWaitFor, Hooks
  <2>7. Trusted(form)'
    BY <2>3 DEF Show, Trusted, IsForm
  <2>8. QED
    BY <2>1, <2>4, <2>5, <2>6, <2>7 DEF PageIsOfOneHost, ConfirmationIsOfForm, IsPending
<1>4. QED
  BY <1>2, <1>3

(* Nobody else edits the catalog of a user who is alone.                     *)
LEMMA AnsibleNextIInv == AnsibleIInv /\ [AnsibleNext]_ansibleVars => AnsibleIInv'
<1>1. SUFFICES ASSUME AnsibleIInv, [AnsibleNext]_ansibleVars, alone' PROVE PageIsOfOneHost'
  BY DEF AnsibleIInv
<1>2. alone /\ PageIsOfOneHost
  BY <1>1 DEF AnsibleNext, ansibleVars, AnsibleIInv
<1>3. CASE UNCHANGED ansibleVars
  <2>1. AreOf(hook, form)'
    BY <1>2, <1>3 DEF ansibleVars, PageIsOfOneHost, AreOf, About, Connected, IsPending
  <2>2. ConfirmationIsOfForm'
    BY <1>2, <1>3
       DEF ansibleVars, PageIsOfOneHost, ConfirmationIsOfForm, NothingAwaited, About, Connected,
         IsPending
  <2>3. QED
    BY <1>2, <1>3, <2>1, <2>2, FormStays DEF ansibleVars
<1>4. CASE UsePage
  <2>1. ~(\E t \in VpsTargets : RowRemoved(t))
        /\ ~(\E t \in VpsTargets, h \in Hosts : RowWritten(t, h))
    BY <1>2 DEF RowRemoved, RowWritten
  <2>2. QED
    BY <1>2, <1>4, <2>1, UserStep, CallStep, AnswerStep, RowStep DEF UsePage
<1>5. QED
  BY <1>1, <1>3, <1>4 DEF AnsibleNext

(* To a user who waits for the answers, and whose catalog nobody else edits, *)
(* the Ansible page is about one connection, for any hosts, rows and number  *)
(* of calls under way.                                                       *)
THEOREM AttendedPageIsTrue == AnsibleSpec => []AttendedPageIsOfOneHost
<1>1. AnsibleSpec => []AnsibleIInv
  BY AnsibleInitIInv, AnsibleNextIInv, PTL DEF AnsibleSpec
<1>2. QED
  BY <1>1, AnsibleIInvGives, PTL

------------------------------------------------------------------------------
(* The Cloudflare page.                                                      *)

\* The Redirect Rules that a zone has, or that a call is about to put back into it.
RulesOf(z) ==
  IdsOf(redirects[z])
    \cup UNION {IdsOf(c.loaded) : c \in {d \in sent : d.stage = "loaded" /\ d.zone = z}}

\* An id that is not, and will not be, of another zone.
IsOf(id, z) == id \notin unused /\ \A y \in Zones \ {z} : id \notin RulesOf(y)

CloudflareOK ==
  /\ zones \subseteq Zones /\ zones \cap unused = {}
  /\ records \cap unused = {}
  /\ redirects = [z \in Zones |-> redirects[z]]
  /\ \A z \in Zones \ zones : redirects[z] = {}
  /\ \A z \in Zones : \A id \in RulesOf(z) : IsOf(id, z)

\* What is to be deleted was shown in the zone it is asked for.
IsOfItsZone(request) ==
  request.kind = "deleteRedirect" => \A id \in request.ids : IsOf(id, request.zone)

\* What a batch has deleted is gone for good.
CallOK(c) ==
  /\ c = [kind |-> c.kind, as |-> c.as, zone |-> c.zone, stage |-> c.stage,
          todo |-> c.todo, loaded |-> c.loaded, mine |-> c.mine]
  /\ c.kind = c.as.kind /\ IsOfItsZone(c.as)
  /\ c.stage = "changing" => c.kind \in {"update", "delete"}
  /\ c.stage = "loaded" => c.kind \in {"saveRedirect", "deleteRedirect"}
  /\ c.stage = "changing" /\ c.kind = "delete" =>
       c.as.ids \cap unused = {} /\ (c.as.ids \ c.todo) \cap records = {}

TabOK ==
  /\ listed \subseteq Zones /\ listed \cap unused = {}
  /\ zoneId # None => zoneId \in Zones /\ zoneId \notin unused
  /\ tab = "redirects" => \A rule \in lines : IsOf(rule.id, zoneId)
  /\ asking # None => IsOfItsZone(asking)

\* A call is for the zone it was asked for, or that zone is gone for good.
GoesTo(z, request) ==
  /\ request.zone \in Zones /\ request.zone \notin unused
  /\ z = request.zone \/ request.zone \notin zones

AsConfirmed ==
  /\ asking # None => GoesTo(zoneId, asking)
  /\ \A c \in sent : GoesTo(c.zone, c.as)
  /\ ReportedIsDone

\* No dialog is open while a zone is being added, which will replace the one on show.
WaitsForZones == asking # None => \A c \in sent : c.kind # "createZone"

\* A user who makes one call at a time has none under way behind a dialog.
OneCallAtATime ==
  /\ sent = {} \/ \E c \in sent : sent = {c}
  /\ asking # None => sent = {}

\* The inductive invariant, ...
ConsoleIInv ==
  /\ CloudflareOK /\ TabOK
  /\ \A c \in sent : CallOK(c)
  /\ BatchIsComplete

\* ... and what a step keeps besides: where no zone is added behind a dialog, and where
\* there is one call at a time.
ConsoleStep ==
  /\ ConsoleIInv'
  /\ WaitsForZones /\ AsConfirmed => AsConfirmed'
  /\ MaxSending = 1 /\ OneCallAtATime => OneCallAtATime'

(* Nothing is under way at first.                                            *)
LEMMA ConsoleStarts == ConsoleStart => ConsoleIInv /\ AsConfirmed /\ OneCallAtATime
<1> SUFFICES ASSUME NEW zone \in SUBSET Zones, NEW some \in SUBSET Records,
                    NEW rules \in [Zones -> SUBSET RuleIds],
                    NEW expressions \in
                      [Zones -> SUBSET {Rule(id, d) : id \in RuleIds,
                                                      d \in Literal \cup {Expression}}],
                    \A z \in Zones \ zone : rules[z] = {} /\ expressions[z] = {},
                    \A y, z \in Zones : y # z => IdsOf(expressions[y]) \cap IdsOf(expressions[z]) = {},
                    ConsoleInit(zone, some, rules, expressions)
             PROVE  ConsoleIInv /\ AsConfirmed /\ OneCallAtATime
  BY DEF ConsoleStart
<1>1. /\ zones = zone /\ records = some /\ redirects = [z \in Zones |-> expressions[z]]
      /\ unused = (Zones \ zone) \cup (Records \ some) \cup
              (RuleIds \ UNION {pageRules[z] \cup IdsOf(redirects[z]) : z \in Zones})
      /\ listed = {} /\ zoneId = None /\ lines = {} /\ asking = None /\ sent = {}
      /\ reported = None
  BY DEF ConsoleInit
<1>2. \A z \in Zones : RulesOf(z) = IdsOf(expressions[z]) /\ IdsOf(expressions[z]) \subseteq RuleIds
  <2> SUFFICES ASSUME NEW z \in Zones
               PROVE  RulesOf(z) = IdsOf(expressions[z]) /\ IdsOf(expressions[z]) \subseteq RuleIds
    OBVIOUS
  <2>1. RulesOf(z) = IdsOf(expressions[z])
    BY <1>1 DEF RulesOf
  <2>2. expressions[z] \subseteq {Rule(id, d) : id \in RuleIds, d \in Literal \cup {Expression}}
    OBVIOUS
  <2>3. IdsOf(expressions[z]) \subseteq RuleIds
    BY <2>2 DEF IdsOf, Rule
  <2>4. QED
    BY <2>1, <2>3
<1>3. ASSUME NEW z \in Zones, NEW id \in RulesOf(z) PROVE IsOf(id, z)
  <2>1. id \in RuleIds /\ id \in IdsOf(redirects[z])
    BY <1>1, <1>2, <1>3
  <2>2. id \notin unused
    BY <1>1, <2>1, IdsAreDistinct
  <2>3. QED
    BY <1>2, <1>3, <2>2 DEF IsOf
<1>4. CloudflareOK
  BY <1>1, <1>3, IdsAreDistinct DEF CloudflareOK
<1>5. QED
  BY <1>1, <1>4 DEF ConsoleIInv, TabOK, AsConfirmed, OneCallAtATime, ReportedIsDone, BatchIsComplete,
                    SavedIsThere, ConfirmedZone, Reported

(* Ids stay with their zone if a step gives no zone ids but unused ones.     *)
LEMMA IdsStay ==
  ASSUME CloudflareOK, NEW new, NEW at, new \subseteq unused, unused' \subseteq unused \ new,
         \A z \in Zones : RulesOf(z)' \subseteq RulesOf(z) \cup (IF z = at THEN new ELSE {})
  PROVE  /\ \A id, z : IsOf(id, z) => IsOf(id, z)'
         /\ \A z \in Zones : \A id \in RulesOf(z)' : IsOf(id, z)'
<1>1. \A z \in Zones : \A id \in RulesOf(z) : IsOf(id, z)
  BY DEF CloudflareOK
<1>2. ASSUME NEW id, NEW z, IsOf(id, z) PROVE IsOf(id, z)'
  BY <1>2 DEF IsOf
<1>3. ASSUME NEW z \in Zones, NEW id \in RulesOf(z)' PROVE IsOf(id, z)'
  <2>1. CASE id \in RulesOf(z)
    BY <1>1, <1>2, <2>1
  <2>2. CASE id \notin RulesOf(z)
    <3>1. id \in new /\ z = at
      BY <1>3, <2>2
    <3>2. id \notin unused' /\ \A y \in Zones \ {z} : id \notin RulesOf(y)'
      BY <1>1, <3>1 DEF IsOf
    <3>3. QED
      BY <3>2 DEF IsOf
  <2>3. QED
    BY <2>1, <2>2
<1>4. QED
  BY <1>2, <1>3

(* ... in particular if it gives no zone any.                                *)
LEMMA IdsRest ==
  ASSUME CloudflareOK, unused' \subseteq unused,
         \A z \in Zones : RulesOf(z)' \subseteq RulesOf(z)
  PROVE  /\ \A id, z : IsOf(id, z) => IsOf(id, z)'
         /\ \A z \in Zones : \A id \in RulesOf(z)' : IsOf(id, z)'
<1>1. \A id, z : IsOf(id, z) => IsOf(id, z)'
  BY DEF IsOf
<1>2. \A z \in Zones : \A id \in RulesOf(z) : IsOf(id, z)
  BY DEF CloudflareOK
<1>3. QED
  BY <1>1, <1>2

(* A call that a step leaves alone.                                          *)
LEMMA CallStays ==
  ASSUME NEW c, CallOK(c), unused' \subseteq unused, records' \subseteq records \cup unused,
         \A id, z : IsOf(id, z) => IsOf(id, z)'
  PROVE  CallOK(c)'
BY DEF CallOK, IsOfItsZone

(* Nothing happens at Cloudflare, and no call has read a ruleset.            *)
LEMMA CloudflareRests ==
  ASSUME CloudflareOK, UNCHANGED cloudflareVars,
         \A c \in sent' : c.stage = "loaded" =>
           \E d \in sent : d.stage = "loaded" /\ d.zone = c.zone /\ d.loaded = c.loaded
  PROVE  CloudflareOK' /\ \A id, z : IsOf(id, z) => IsOf(id, z)'
<1>1. UNCHANGED <<zones, records>> /\ UNCHANGED <<redirects, unused>>
  BY DEF cloudflareVars
<1>2. \A z \in Zones : RulesOf(z)' \subseteq RulesOf(z)
  BY <1>1 DEF RulesOf
<1>3. /\ \A id, z : IsOf(id, z) => IsOf(id, z)'
      /\ \A z \in Zones : \A id \in RulesOf(z)' : IsOf(id, z)'
  BY <1>1, <1>2, IdsRest
<1>4. QED
  BY <1>1, <1>3 DEF CloudflareOK

(* What the user does before anything is sent, and what the page reads.      *)
LEMMA PageSteps ==
  ASSUME ConsoleIInv, UNCHANGED cloudflareVars, reported' = None,
         \/ sent' = sent /\ UNCHANGED tab
         \/ sent' = {[c EXCEPT !.mine = FALSE] : c \in sent} /\ lines' = {},
         listed' \subseteq listed \cup zones,
         zoneId' = None \/ zoneId' \in listed \cup zones \cup {zoneId},
         \/ zoneId' = zoneId /\ lines' = lines
         \/ lines' = {}
         \/ /\ zoneId' = zoneId /\ zoneId \in zones
            /\ tab = "redirects" => lines' = {Rewritten(rule) : rule \in redirects[zoneId]},
         asking' = asking \/ asking' = None,
         zoneId' = zoneId \/ asking = None \/ zoneId \notin zones
  PROVE  ConsoleStep
<1>1. UNCHANGED <<zones, records>> /\ UNCHANGED <<redirects, unused>>
  BY DEF cloudflareVars
<1>2. \A c \in sent : CallOK(c)
  BY DEF ConsoleIInv
<1>3. ASSUME NEW d \in sent, NEW c, c = [d EXCEPT !.mine = FALSE]
      PROVE  /\ CallOK(c)
             /\ d.stage = c.stage /\ d.zone = c.zone /\ d.loaded = c.loaded /\ d.as = c.as
  <2>1. CallOK(d)
    BY <1>2
  <2>2. c = [kind |-> d.kind, as |-> d.as, zone |-> d.zone, stage |-> d.stage,
             todo |-> d.todo, loaded |-> d.loaded, mine |-> FALSE]
    BY <1>3, <2>1 DEF CallOK
  <2>3. QED
    BY <2>1, <2>2 DEF CallOK
<1>4. ASSUME NEW c \in sent'
      PROVE  /\ CallOK(c)
             /\ \E d \in sent : /\ d.stage = c.stage /\ d.zone = c.zone /\ d.loaded = c.loaded
                                /\ d.as = c.as
  <2>1. CASE sent' = sent
    BY <1>2, <2>1
  <2>2. CASE sent' = {[d EXCEPT !.mine = FALSE] : d \in sent}
    <3>1. PICK d \in sent : c = [d EXCEPT !.mine = FALSE]
      BY <2>2
    <3>2. QED
      BY <1>3, <3>1
  <2>3. QED
    BY <2>1, <2>2
<1>5. CloudflareOK' /\ \A id, z : IsOf(id, z) => IsOf(id, z)'
  <2>1. CloudflareOK
    BY DEF ConsoleIInv
  <2>2. \A c \in sent' : c.stage = "loaded" =>
          \E d \in sent : d.stage = "loaded" /\ d.zone = c.zone /\ d.loaded = c.loaded
    BY <1>4
  <2>3. QED
    BY <2>1, <2>2, CloudflareRests
<1>6. \A c \in sent' : CallOK(c)'
  BY <1>1, <1>4, <1>5, CallStays
<1>7. TabOK'
  <2>1. TabOK /\ CloudflareOK
    BY DEF ConsoleIInv
  <2>2. listed' \subseteq Zones /\ listed' \cap unused' = {}
    BY <1>1, <2>1 DEF TabOK, CloudflareOK
  <2>3. zoneId' # None => zoneId' \in Zones /\ zoneId' \notin unused'
    BY <1>1, <2>1 DEF TabOK, CloudflareOK
  <2>4. asking' # None => IsOfItsZone(asking)'
    BY <1>5, <2>1 DEF TabOK, IsOfItsZone
  <2>5. tab' = "redirects" => \A rule \in lines' : IsOf(rule.id, zoneId)'
    <3>1. CASE lines' = {}
      BY <3>1
    <3>2. CASE lines' = lines /\ zoneId' = zoneId /\ tab' = tab
      BY <1>5, <2>1, <3>2 DEF TabOK
    <3>3. CASE /\ zoneId' = zoneId /\ zoneId \in zones /\ tab' = tab
               /\ tab = "redirects" => lines' = {Rewritten(rule) : rule \in redirects[zoneId]}
      <4>1. zoneId \in Zones
        BY <2>1, <3>3 DEF CloudflareOK
      <4>2. \A rule \in redirects[zoneId] : Rewritten(rule).id = rule.id /\ rule.id \in RulesOf(zoneId)
        BY DEF Rewritten, Rule, RulesOf, IdsOf
      <4>3. QED
        BY <1>5, <2>1, <3>3, <4>1, <4>2 DEF CloudflareOK
    <3>4. QED
      BY <3>1, <3>2, <3>3
  <2>6. QED
    BY <2>2, <2>3, <2>4, <2>5 DEF TabOK
<1>8. ASSUME OneCallAtATime PROVE OneCallAtATime'
  <2>1. sent = {} => sent' = {}
    OBVIOUS
  <2>2. ASSUME NEW d, sent = {d} PROVE sent' = {d} \/ sent' = {[d EXCEPT !.mine = FALSE]}
    BY <2>2
  <2>3. QED
    BY <1>8, <2>1, <2>2 DEF OneCallAtATime
<1>9. BatchIsComplete' /\ ReportedIsDone'
  BY DEF ReportedIsDone, BatchIsComplete, SavedIsThere, ConfirmedZone, Reported
<1>10. ASSUME AsConfirmed PROVE AsConfirmed'
  <2>1. asking' # None => GoesTo(zoneId, asking)'
    BY <1>1, <1>10 DEF AsConfirmed, GoesTo
  <2>2. \A c \in sent' : GoesTo(c.zone, c.as)'
    BY <1>1, <1>4, <1>10 DEF AsConfirmed, GoesTo
  <2>3. QED
    BY <1>9, <2>1, <2>2 DEF AsConfirmed
<1>11. QED
  BY <1>5, <1>6, <1>7, <1>8, <1>9, <1>10 DEF ConsoleStep, ConsoleIInv

(* Reading, choosing, filling in and declining.                              *)
LEMMA LooksKeep ==
  ASSUME ConsoleIInv,
         \/ ZonesRead \/ TabRead \/ DeclineDialog \/ StopEditing
         \/ \E z \in Zones : SelectZone(z)
         \/ \E t \in Tabs : OpenTab(t)
         \/ \E all \in BOOLEAN : ToggleAll(all)
         \/ \E r \in Records : Toggle(r) \/ EditRecord(r)
         \/ \E id \in RuleIds : EditPageRule(id)
         \/ \E rule \in lines : EditRedirect(rule)
         \/ \E d \in Literal : TypeDestination(d)
  PROVE  ConsoleStep
<1>1. CASE ZonesRead
  <2>1. PICK z \in Settled(zoneId, zones) : ShowZone(z)
    BY <1>1 DEF ZonesRead
  <2>2. z = None \/ z \in zones \cup {zoneId}
    BY <2>1 DEF Settled
  <2>3. zoneId \in zones => z = zoneId
    BY <2>1 DEF Settled
  <2>4. zoneId' = z /\ lines' = IF z = zoneId THEN lines ELSE {}
    BY <2>1 DEF ShowZone
  <2>5. /\ UNCHANGED cloudflareVars /\ reported' = None /\ sent' = sent /\ UNCHANGED tab
        /\ listed' = zones /\ asking' = asking
    BY <1>1 DEF ZonesRead
  <2>6. QED
    BY <2>2, <2>3, <2>4, <2>5, PageSteps
<1>2. ASSUME NEW z \in Zones, SelectZone(z) PROVE ConsoleStep
  <2>1. /\ UNCHANGED cloudflareVars /\ reported' = None /\ sent' = sent /\ UNCHANGED tab
        /\ listed' = listed /\ asking' = asking /\ asking = None /\ z \in listed
        /\ zoneId' = z /\ lines' = IF z = zoneId THEN lines ELSE {}
    BY <1>2 DEF SelectZone, ShowZone
  <2>2. QED
    BY <2>1, PageSteps
<1>3. ASSUME NEW t \in Tabs, OpenTab(t) PROVE ConsoleStep
  BY <1>3, PageSteps DEF OpenTab
<1>4. CASE TabRead
  <2>1. /\ UNCHANGED cloudflareVars /\ reported' = None /\ sent' = sent /\ UNCHANGED tab
        /\ listed' = listed /\ asking' = asking /\ zoneId' = zoneId /\ zoneId \in zones
    BY <1>4 DEF TabRead
  <2>2. tab = "redirects" => lines' = {Rewritten(rule) : rule \in redirects[zoneId]}
    BY <1>4 DEF TabRead
  <2>3. QED
    BY <2>1, <2>2, PageSteps
<1>5. CASE DeclineDialog
  BY <1>5, PageSteps DEF DeclineDialog
<1>6. ASSUME NEW ids, NEW id, NEW value, Fill(ids, id, value) PROVE ConsoleStep
  BY <1>6, PageSteps DEF Fill
<1>7. CASE \/ StopEditing
           \/ \E all \in BOOLEAN : ToggleAll(all)
           \/ \E r \in Records : Toggle(r) \/ EditRecord(r)
           \/ \E id \in RuleIds : EditPageRule(id)
           \/ \E rule \in lines : EditRedirect(rule)
           \/ \E d \in Literal : TypeDestination(d)
  <2>1. \E ids, id, value : Fill(ids, id, value)
    BY <1>7, Zenon DEF StopEditing, ToggleAll, Toggle, EditRecord, EditPageRule, EditRedirect,
                TypeDestination
  <2>2. QED
    BY <1>6, <2>1
<1>8. QED
  BY <1>1, <1>2, <1>3, <1>4, <1>5, <1>7

(* A call that was not there has read nothing.                               *)
LEMMA SendingKeeps ==
  ASSUME ConsoleIInv, NEW request,
         UNCHANGED cloudflareVars, reported' = None, asking' = None \/ asking' = asking,
         UNCHANGED <<zoneId, listed, tab, lines>>, sent' = sent \cup {CallFor(request)},
         IsOfItsZone(request), AsConfirmed => GoesTo(zoneId, request),
         MaxSending = 1 /\ OneCallAtATime => sent = {} /\ asking' = None
  PROVE  ConsoleStep
<1>1. UNCHANGED <<zones, records>> /\ UNCHANGED <<redirects, unused>>
  BY DEF cloudflareVars
<1> DEFINE call == CallFor(request)
<1>2. /\ call.kind = request.kind /\ call.as = request /\ call.zone = zoneId
      /\ call.stage = "sent"
      /\ call = [kind |-> call.kind, as |-> call.as, zone |-> call.zone, stage |-> call.stage,
                 todo |-> call.todo, loaded |-> call.loaded, mine |-> call.mine]
  BY DEF CallFor
<1>3. sent' = sent \cup {call}
  OBVIOUS
<1> HIDE DEF call
<1>4. CloudflareOK' /\ \A id, z : IsOf(id, z) => IsOf(id, z)'
  <2>1. CloudflareOK
    BY DEF ConsoleIInv
  <2>2. \A c \in sent' : c.stage = "loaded" =>
          \E d \in sent : d.stage = "loaded" /\ d.zone = c.zone /\ d.loaded = c.loaded
    BY <1>2, <1>3
  <2>3. QED
    BY <2>1, <2>2, CloudflareRests
<1>5. CallOK(call)
  BY <1>2 DEF CallOK
<1>6. \A c \in sent' : CallOK(c)'
  <2>1. \A c \in sent' : CallOK(c)
    BY <1>3, <1>5 DEF ConsoleIInv
  <2>2. QED
    BY <1>1, <1>4, <2>1, CallStays
<1>7. TabOK'
  <2>1. TabOK
    BY DEF ConsoleIInv
  <2>2. asking' # None => IsOfItsZone(asking)'
    BY <1>4, <2>1 DEF TabOK, IsOfItsZone
  <2>3. tab' = "redirects" => \A rule \in lines' : IsOf(rule.id, zoneId)'
    BY <1>4, <2>1 DEF TabOK
  <2>4. QED
    BY <1>1, <2>1, <2>2, <2>3 DEF TabOK
<1>8. ASSUME MaxSending = 1, OneCallAtATime PROVE OneCallAtATime'
  BY <1>3, <1>8 DEF OneCallAtATime
<1>9. BatchIsComplete' /\ ReportedIsDone'
  BY DEF ReportedIsDone, BatchIsComplete, SavedIsThere, ConfirmedZone, Reported
<1>10. ASSUME AsConfirmed PROVE AsConfirmed'
  <2>1. asking' # None => GoesTo(zoneId, asking)'
    BY <1>1, <1>10 DEF AsConfirmed, GoesTo
  <2>2. \A c \in sent' : GoesTo(c.zone, c.as)'
    BY <1>1, <1>2, <1>3, <1>10 DEF AsConfirmed, GoesTo
  <2>3. QED
    BY <1>9, <2>1, <2>2 DEF AsConfirmed
<1>11. QED
  BY <1>4, <1>6, <1>7, <1>8, <1>9, <1>10 DEF ConsoleStep, ConsoleIInv

(* With one call at a time, the page is at hand when none is under way.      *)
LEMMA AtHandAlone ==
  ASSUME OneCallAtATime, MaxSending = 1, TabAtHand
  PROVE  sent = {}
<1>1. sent = {} \/ \E c : sent = {c}
  BY DEF OneCallAtATime
<1>2. ASSUME NEW c, sent = {c} PROVE FALSE
  <2>1. Cardinality({c}) = 1
    BY FS_Singleton
  <2>2. Cardinality({c}) < 1
    BY <1>2 DEF TabAtHand
  <2>3. QED
    BY <2>1, <2>2
<1>3. QED
  BY <1>1, <1>2

(* What the user sends, asks about and confirms.                             *)
LEMMA UserKeeps ==
  ASSUME ConsoleIInv,
         \/ AddZone \/ ProxyOrTtl \/ Repoint \/ DeleteSelected \/ SaveRecord
         \/ ChangeSetting \/ Purge \/ SavePageRule \/ SaveRedirect \/ ConfirmDialog
         \/ \E z \in Zones : RemoveZone(z)
         \/ \E r \in Records : DeleteRecord(r)
         \/ \E id \in RuleIds : DeletePageRule(id)
         \/ \E rule \in lines : DeleteRedirect(rule)
  PROVE  ConsoleStep
<1>1. ASSUME NEW kind, NEW ids, kind # "deleteRedirect", SendCall(kind, ids) PROVE ConsoleStep
  <2>1. PICK request : request = Request(kind, ids)
    OBVIOUS
  <2>2. request.kind = kind /\ request.zone = zoneId
    BY <2>1 DEF Request
  <2>3. /\ UNCHANGED cloudflareVars /\ reported' = None /\ asking' = asking
        /\ UNCHANGED <<zoneId, listed, tab, lines>> /\ sent' = sent \cup {CallFor(request)}
        /\ asking = None /\ zoneId # None
    BY <1>1, <2>1 DEF SendCall, consolePageVars, TabAtHand
  <2>4. IsOfItsZone(request)
    BY <1>1, <2>2 DEF IsOfItsZone
  <2>5. MaxSending = 1 /\ OneCallAtATime => sent = {}
    BY <1>1, AtHandAlone DEF SendCall
  <2>6. GoesTo(zoneId, request)
    BY <2>2, <2>3 DEF GoesTo, ConsoleIInv, TabOK
  <2>7. QED
    BY <2>3, <2>4, <2>5, <2>6, SendingKeeps
<1>2. ASSUME NEW kind, NEW ids, AskFirst(kind, ids),
             kind = "deleteRedirect" => tab = "redirects" /\ \E rule \in lines : ids = {rule.id}
      PROVE  ConsoleStep
  <2>1. PICK request : request = Request(kind, ids)
    OBVIOUS
  <2>2. request.kind = kind /\ request.zone = zoneId /\ request.ids = ids
    BY <2>1 DEF Request
  <2>3. /\ UNCHANGED cloudflareVars /\ reported' = None /\ asking' = request
        /\ UNCHANGED <<zoneId, listed, tab, lines>> /\ sent' = sent /\ zoneId # None
    BY <1>2, <2>1 DEF AskFirst, TabAtHand
  <2>4. UNCHANGED <<zones, records>> /\ UNCHANGED <<redirects, unused>>
    BY <2>3 DEF cloudflareVars
  <2>5. CloudflareOK' /\ \A id, z : IsOf(id, z) => IsOf(id, z)'
    BY <2>3, CloudflareRests DEF ConsoleIInv
  <2>6. IsOfItsZone(request)
    BY <1>2, <2>2 DEF IsOfItsZone, ConsoleIInv, TabOK
  <2>7. TabOK'
    <3>1. TabOK
      BY DEF ConsoleIInv
    <3>2. IsOfItsZone(asking)'
      BY <2>3, <2>5, <2>6 DEF IsOfItsZone
    <3>3. tab' = "redirects" => \A rule \in lines' : IsOf(rule.id, zoneId)'
      BY <2>3, <2>5, <3>1 DEF TabOK
    <3>4. QED
      BY <2>3, <2>4, <3>1, <3>2, <3>3 DEF TabOK
  <2>8. \A c \in sent' : CallOK(c)'
    BY <2>3, <2>4, <2>5, CallStays DEF ConsoleIInv
  <2>9. ASSUME MaxSending = 1, OneCallAtATime PROVE OneCallAtATime'
    <3>1. sent = {}
      BY <1>2, <2>9, AtHandAlone DEF AskFirst
    <3>2. QED
      BY <2>3, <3>1 DEF OneCallAtATime
  <2>10. BatchIsComplete' /\ ReportedIsDone'
    BY <2>3 DEF ReportedIsDone, BatchIsComplete, SavedIsThere, ConfirmedZone, Reported
  <2>11. ASSUME AsConfirmed PROVE AsConfirmed'
    <3>1. GoesTo(zoneId, request)
      BY <2>2, <2>3 DEF GoesTo, ConsoleIInv, TabOK
    <3>2. GoesTo(zoneId, asking)' /\ \A c \in sent' : GoesTo(c.zone, c.as)'
      BY <2>3, <2>4, <2>11, <3>1 DEF AsConfirmed, GoesTo
    <3>3. QED
      BY <2>10, <3>2 DEF AsConfirmed
  <2>12. QED
    BY <2>5, <2>7, <2>8, <2>9, <2>10, <2>11 DEF ConsoleStep, ConsoleIInv
<1>3. CASE ConfirmDialog
  <2>1. PICK request : request = asking
    OBVIOUS
  <2>2. /\ UNCHANGED cloudflareVars /\ reported' = None /\ asking' = None
        /\ UNCHANGED <<zoneId, listed, tab, lines>> /\ sent' = sent \cup {CallFor(request)}
        /\ request # None
    BY <1>3, <2>1 DEF ConfirmDialog
  <2>3. IsOfItsZone(request)
    BY <2>1, <2>2 DEF ConsoleIInv, TabOK
  <2>4. /\ AsConfirmed => GoesTo(zoneId, request)
        /\ OneCallAtATime => sent = {}
    BY <2>1, <2>2 DEF AsConfirmed, OneCallAtATime
  <2>5. QED
    BY <2>2, <2>3, <2>4, SendingKeeps
<1>4. CASE AddZone \/ ProxyOrTtl \/ SaveRecord \/ SavePageRule \/ SaveRedirect
  <2>1. \E kind, ids : kind # "deleteRedirect" /\ SendCall(kind, ids)
    BY <1>4 DEF AddZone, ProxyOrTtl, SaveRecord, SavePageRule, SaveRedirect
  <2>2. QED
    BY <1>1, <2>1
<1>5. CASE \/ Repoint \/ DeleteSelected \/ ChangeSetting \/ Purge
           \/ \E z \in Zones : RemoveZone(z)
           \/ \E r \in Records : DeleteRecord(r)
           \/ \E id \in RuleIds : DeletePageRule(id)
  <2>1. \E kind, ids : kind # "deleteRedirect" /\ AskFirst(kind, ids)
    BY <1>5 DEF Repoint, DeleteSelected, ChangeSetting, Purge, RemoveZone, DeleteRecord,
                DeletePageRule
  <2>2. QED
    BY <1>2, <2>1
<1>6. ASSUME NEW rule \in lines, DeleteRedirect(rule) PROVE ConsoleStep
  BY <1>2, <1>6 DEF DeleteRedirect
<1>7. QED
  BY <1>3, <1>4, <1>5, <1>6

(* Rulesets only lose rules, and no call has read another one.               *)
LEMMA CloudflareStays ==
  ASSUME CloudflareOK, zones' \subseteq Zones, zones' \cap unused' = {},
         records' \cap unused' = {}, unused' \subseteq unused,
         redirects' = [z \in Zones |-> redirects'[z]],
         \A z \in Zones : redirects'[z] \subseteq redirects[z],
         \A z \in Zones \ zones' : redirects'[z] = {},
         \A c \in sent' : c.stage = "loaded" =>
           \/ c.zone \in Zones /\ c.loaded = redirects[c.zone]
           \/ \E d \in sent : d.stage = "loaded" /\ d.zone = c.zone /\ d.loaded = c.loaded
  PROVE  CloudflareOK' /\ \A id, z : IsOf(id, z) => IsOf(id, z)'
<1>1. \A z \in Zones : RulesOf(z)' \subseteq RulesOf(z)
  <2> SUFFICES ASSUME NEW z \in Zones, NEW id \in RulesOf(z)' PROVE id \in RulesOf(z)
    OBVIOUS
  <2>1. CASE id \in IdsOf(redirects'[z])
    BY <2>1 DEF RulesOf, IdsOf
  <2>2. CASE \E c \in sent' : c.stage = "loaded" /\ c.zone = z /\ id \in IdsOf(c.loaded)
    BY <2>2 DEF RulesOf
  <2>3. QED
    BY <2>1, <2>2 DEF RulesOf, IdsOf
<1>2. /\ \A id, z : IsOf(id, z) => IsOf(id, z)'
      /\ \A z \in Zones : \A id \in RulesOf(z)' : IsOf(id, z)'
  BY <1>1, IdsRest
<1>3. QED
  BY <1>2 DEF CloudflareOK

(* What a step of a call, or of others, needs to keep.                       *)
LEMMA WorkKeeps ==
  ASSUME ConsoleIInv, CloudflareOK', \A id, z : IsOf(id, z) => IsOf(id, z)',
         unused' \subseteq unused, records' \subseteq records \cup unused,
         zones' \subseteq zones \cup unused,
         UNCHANGED <<listed, tab, asking>>,
         UNCHANGED <<zoneId, lines>> \/ (TabOK' /\ \E c \in sent : c.kind = "createZone"),
         \A d \in sent' : d \in sent \/ (CallOK(d)' /\ \E c \in sent : d.zone = c.zone /\ d.as = c.as),
         \/ sent' = sent
         \/ \E c \in sent : sent' = sent \ {c} \/ \E d : sent' = (sent \ {c}) \cup {d},
         BatchIsComplete', AsConfirmed => ReportedIsDone'
  PROVE  ConsoleStep
<1>1. TabOK'
  <2>1. CASE UNCHANGED <<zoneId, lines>>
    <3>1. TabOK
      BY DEF ConsoleIInv
    <3>2. asking' # None => IsOfItsZone(asking)'
      BY <3>1 DEF TabOK, IsOfItsZone
    <3>3. tab' = "redirects" => \A rule \in lines' : IsOf(rule.id, zoneId)'
      BY <2>1, <3>1 DEF TabOK
    <3>4. QED
      BY <2>1, <3>1, <3>2, <3>3 DEF TabOK
  <2>2. QED
    BY <2>1
<1>2. \A c \in sent' : CallOK(c)'
  BY CallStays DEF ConsoleIInv
<1>3. ASSUME OneCallAtATime PROVE OneCallAtATime'
  <2>1. ASSUME NEW c, sent = {c} PROVE sent' = {c} \/ sent' = {} \/ \E d : sent' = {d}
    <3>1. sent \ {c} = {}
      BY <2>1
    <3>2. \/ sent' = sent
          \/ sent' = sent \ {c} \/ \E d : sent' = (sent \ {c}) \cup {d}
      BY <2>1
    <3>3. \A d : {} \cup {d} = {d}
      OBVIOUS
    <3>4. QED
      BY <2>1, <3>1, <3>2, <3>3
  <2>2. sent = {} => sent' = {}
    OBVIOUS
  <2>3. QED
    BY <1>3, <2>1, <2>2 DEF OneCallAtATime
<1>4. ASSUME WaitsForZones, AsConfirmed PROVE AsConfirmed'
  <2>1. \A z, request : GoesTo(z, request) => GoesTo(z, request)'
    BY DEF GoesTo
  <2>2. asking # None => UNCHANGED zoneId
    BY <1>4 DEF WaitsForZones
  <2>3. asking' # None => GoesTo(zoneId, asking)'
    BY <1>4, <2>2 DEF AsConfirmed, GoesTo
  <2>4. \A c \in sent' : GoesTo(c.zone, c.as)'
    BY <1>4, <2>1 DEF AsConfirmed
  <2>5. QED
    BY <1>4, <2>3, <2>4 DEF AsConfirmed
<1>5. QED
  BY <1>1, <1>2, <1>3, <1>4 DEF ConsoleStep, ConsoleIInv

(* A success that the properties say nothing about.                          *)
LEMMA NothingIsReported ==
  ASSUME \/ reported' = None
         \/ reported'.kind \notin {"delete", "saveRedirect", "deleteRedirect", "setting", "purge"}
  PROVE  BatchIsComplete' /\ ReportedIsDone'
BY DEF ReportedIsDone, BatchIsComplete, SavedIsThere, ConfirmedZone, Reported

(* A call that fails, or ends without having changed a ruleset.              *)
LEMMA EndsKeep ==
  ASSUME ConsoleIInv, NEW c \in sent, sent' = sent \ {c},
         UNCHANGED <<listed, tab, asking>>,
         UNCHANGED <<zoneId, lines>> \/ (TabOK' /\ c.kind = "createZone"),
         zones' \subseteq Zones, zones' \subseteq zones \cup unused, zones' \cap unused' = {},
         records' \subseteq records \cup unused, records' \cap unused' = {},
         unused' \subseteq unused,
         redirects' = [z \in Zones |-> redirects'[z]],
         \A z \in Zones : redirects'[z] \subseteq redirects[z],
         \A z \in Zones \ zones' : redirects'[z] = {},
         BatchIsComplete', AsConfirmed => ReportedIsDone'
  PROVE  ConsoleStep
<1>1. CloudflareOK' /\ \A id, z : IsOf(id, z) => IsOf(id, z)'
  BY CloudflareStays DEF ConsoleIInv
<1>2. QED
  BY <1>1, WorkKeeps

(* A call that goes on.                                                      *)
LEMMA GoesOnKeeps ==
  ASSUME ConsoleIInv, NEW c \in sent, NEW next, sent' = (sent \ {c}) \cup {next},
         next.zone = c.zone, next.as = c.as, CallOK(next)',
         next.stage = "loaded" => c.zone \in Zones /\ next.loaded = redirects[c.zone],
         UNCHANGED consolePageVars, UNCHANGED <<zones, redirects, unused>>,
         records' \subseteq records, reported' = None
  PROVE  ConsoleStep
<1>1. CloudflareOK
  BY DEF ConsoleIInv
<1>2. /\ zones' \subseteq Zones /\ zones' \cap unused' = {} /\ records' \cap unused' = {}
      /\ unused' \subseteq unused
      /\ redirects' = [z \in Zones |-> redirects'[z]]
      /\ \A z \in Zones : redirects'[z] \subseteq redirects[z]
      /\ \A z \in Zones \ zones' : redirects'[z] = {}
  BY <1>1 DEF CloudflareOK
<1>3. CloudflareOK' /\ \A id, z : IsOf(id, z) => IsOf(id, z)'
  BY <1>1, <1>2, CloudflareStays
<1>4. BatchIsComplete' /\ ReportedIsDone'
  BY NothingIsReported
<1>5. UNCHANGED <<listed, tab, asking>> /\ UNCHANGED <<zoneId, lines>>
  BY DEF consolePageVars
<1>6. QED
  BY <1>2, <1>3, <1>4, <1>5, WorkKeeps

LEMMA BatchesKeep ==
  ASSUME ConsoleIInv, NEW c \in sent,
         BatchListed(c) \/ BatchEnds(c) \/ \E r \in c.todo : BatchChanges(c, r)
  PROVE  ConsoleStep
<1>1. CallOK(c) /\ CloudflareOK
  BY DEF ConsoleIInv
<1>2. CASE BatchListed(c)
  <2>1. PICK next : next = [c EXCEPT !.stage = "changing", !.todo = c.as.ids]
    OBVIOUS
  <2>2. next = [kind |-> c.kind, as |-> c.as, zone |-> c.zone, stage |-> "changing",
                todo |-> c.as.ids, loaded |-> c.loaded, mine |-> c.mine]
    BY <1>1, <2>1 DEF CallOK
  <2>3. /\ c.kind \in {"update", "delete"} /\ c.as.ids \subseteq records
        /\ UNCHANGED consolePageVars /\ UNCHANGED cloudflareVars
        /\ sent' = (sent \ {c}) \cup {next} /\ reported' = None
    BY <1>2, <2>1 DEF BatchListed, InZone, Proceed
  <2>4. UNCHANGED <<zones, redirects, unused>> /\ records' = records
    BY <2>3 DEF cloudflareVars
  <2>5. CallOK(next)
    BY <1>1, <2>2, <2>3 DEF CallOK, CloudflareOK
  <2>6. \A id, z : IsOf(id, z) => IsOf(id, z)'
    <3>1. \A d \in sent' : d.stage = "loaded" => d \in sent
      BY <2>2, <2>3
    <3>2. QED
      BY <1>1, <2>3, <3>1, CloudflareRests
  <2>7. CallOK(next)'
    BY <2>4, <2>5, <2>6, CallStays
  <2>8. QED
    BY <2>2, <2>3, <2>4, <2>7, GoesOnKeeps
<1>3. ASSUME NEW r \in c.todo, BatchChanges(c, r) PROVE ConsoleStep
  <2>1. PICK next : next = [c EXCEPT !.todo = @ \ {r}]
    OBVIOUS
  <2>2. next = [kind |-> c.kind, as |-> c.as, zone |-> c.zone, stage |-> c.stage,
                todo |-> c.todo \ {r}, loaded |-> c.loaded, mine |-> c.mine]
    BY <1>1, <2>1 DEF CallOK
  <2>3. /\ c.stage = "changing"
        /\ records' = IF c.kind = "delete" THEN records \ {r} ELSE records
        /\ UNCHANGED consolePageVars /\ UNCHANGED <<zones, redirects, unused>>
        /\ sent' = (sent \ {c}) \cup {next} /\ reported' = None
    BY <1>3, <2>1 DEF BatchChanges, Proceed
  <2>4. \A id, z : IsOf(id, z) => IsOf(id, z)'
    <3>1. \A d \in sent' : d.stage = "loaded" => d \in sent
      BY <2>2, <2>3
    <3>2. /\ zones' \subseteq Zones /\ zones' \cap unused' = {} /\ records' \cap unused' = {}
          /\ unused' \subseteq unused
          /\ redirects' = [z \in Zones |-> redirects'[z]]
          /\ \A z \in Zones : redirects'[z] \subseteq redirects[z]
          /\ \A z \in Zones \ zones' : redirects'[z] = {}
      BY <1>1, <2>3 DEF CloudflareOK
    <3>3. QED
      BY <1>1, <3>1, <3>2, CloudflareStays
  <2>5. IsOfItsZone(next.as)'
    BY <1>1, <2>2, <2>4 DEF CallOK, IsOfItsZone
  <2>6. c.kind = "delete" =>
          next.as.ids \cap unused' = {} /\ (next.as.ids \ next.todo) \cap records' = {}
    BY <1>1, <2>2, <2>3 DEF CallOK
  <2>7. CallOK(next)'
    BY <1>1, <2>2, <2>3, <2>5, <2>6 DEF CallOK
  <2>8. records' \subseteq records
    BY <2>3
  <2>9. QED
    BY <2>2, <2>3, <2>7, <2>8, GoesOnKeeps
<1>4. CASE BatchEnds(c)
  <2>1. /\ c.stage = "changing" /\ c.todo = {} /\ sent' = sent \ {c} /\ reported' = c
        /\ UNCHANGED <<listed, tab, asking>> /\ UNCHANGED <<zoneId, lines>>
        /\ UNCHANGED cloudflareVars
    BY <1>4 DEF BatchEnds, Succeed
  <2>2. UNCHANGED <<zones, records>> /\ UNCHANGED <<redirects, unused>>
    BY <2>1 DEF cloudflareVars
  <2>3. c.kind \in {"update", "delete"} /\ (c.kind = "delete" => c.as.ids \cap records = {})
    BY <1>1, <2>1 DEF CallOK
  <2>4. BatchIsComplete' /\ ReportedIsDone'
    BY <2>1, <2>2, <2>3 DEF ReportedIsDone, BatchIsComplete, SavedIsThere, ConfirmedZone, Reported
  <2>5. QED
    BY <1>1, <2>1, <2>2, <2>4, EndsKeep DEF CloudflareOK
<1>5. QED
  BY <1>2, <1>3, <1>4

(* The other calls that change no ruleset.                                   *)
LEMMA SinglesKeep ==
  ASSUME ConsoleIInv, NEW c \in sent,
         \/ RequestFails(c) \/ RecordDeleted(c) \/ RecordSaved(c) \/ Configured(c)
         \/ PageRuleSaved(c) \/ PageRuleDeleted(c)
  PROVE  ConsoleStep
<1>1. /\ CloudflareOK /\ sent' = sent \ {c}
      /\ UNCHANGED <<listed, tab, asking>> /\ UNCHANGED <<zoneId, lines>>
      /\ UNCHANGED <<zones, redirects>>
  BY DEF ConsoleIInv, RequestFails, RecordDeleted, RecordSaved, Configured, PageRuleSaved,
         PageRuleDeleted, Succeed, consolePageVars, cloudflareVars
<1>2. unused' \subseteq unused /\ records' \subseteq records \cup unused /\ records' \cap unused' = {}
  <2>1. CASE RecordSaved(c)
    BY <1>1, <2>1 DEF RecordSaved, CloudflareOK
  <2>2. CASE PageRuleSaved(c)
    BY <1>1, <2>2 DEF PageRuleSaved, CloudflareOK
  <2>3. CASE RequestFails(c) \/ RecordDeleted(c) \/ Configured(c) \/ PageRuleDeleted(c)
    BY <1>1, <2>3 DEF RequestFails, RecordDeleted, Configured, PageRuleDeleted, cloudflareVars,
                      CloudflareOK
  <2>4. QED
    BY <2>1, <2>2, <2>3
<1>3. BatchIsComplete' /\ (AsConfirmed => ReportedIsDone')
  <2>1. CASE \/ RequestFails(c) \/ RecordDeleted(c) \/ RecordSaved(c)
             \/ PageRuleSaved(c) \/ PageRuleDeleted(c)
    <3>1. \/ reported' = None
          \/ reported' = c /\ c.kind \in {"deleteRecord", "saveRecord", "savePageRule", "deletePageRule"}
      BY <2>1 DEF RequestFails, RecordDeleted, RecordSaved, PageRuleSaved, PageRuleDeleted, Succeed
    <3>2. QED
      BY <3>1, NothingIsReported
  <2>2. CASE Configured(c)
    <3>1. reported' = c /\ c.kind \in {"setting", "purge"}
      BY <2>2 DEF Configured, Succeed
    <3>2. BatchIsComplete' /\ SavedIsThere'
      BY <3>1 DEF BatchIsComplete, SavedIsThere, Reported
    <3>3. AsConfirmed => c.zone = c.as.zone \/ c.as.zone \notin zones
      BY DEF AsConfirmed, GoesTo
    <3>4. AsConfirmed => ConfirmedZone'
      BY <1>1, <3>1, <3>3 DEF ConfirmedZone, Reported
    <3>5. QED
      BY <3>2, <3>4 DEF ReportedIsDone
  <2>3. QED
    BY <2>1, <2>2
<1>4. QED
  BY <1>1, <1>2, <1>3, EndsKeep DEF CloudflareOK

(* A zone that is made, or removed with all that is in it.                   *)
LEMMA ZonesKeep ==
  ASSUME ConsoleIInv, NEW c \in sent, ZoneCreated(c) \/ ZoneDeleted(c)
  PROVE  ConsoleStep
<1>1. CloudflareOK /\ TabOK
  BY DEF ConsoleIInv
<1>2. CASE ZoneCreated(c)
  <2>1. PICK z \in unused \cap Zones :
          /\ zones' = zones \cup {z} /\ unused' = unused \ {z}
          /\ \E after \in Settled(z, listed) : ShowZone(after)
    BY <1>2 DEF ZoneCreated
  <2>2. /\ sent' = sent \ {c} /\ UNCHANGED <<listed, tab, asking>>
        /\ UNCHANGED <<records, redirects>> /\ reported' = c /\ c.kind = "createZone"
    BY <1>2 DEF ZoneCreated, Succeed
  <2>3. PICK after \in Settled(z, listed) : ShowZone(after)
    BY <2>1
  <2>4. after = None \/ after = z \/ after \in listed
    BY <2>3 DEF Settled
  <2>5. zoneId' = after /\ lines' = IF after = zoneId THEN lines ELSE {}
    BY <2>3 DEF ShowZone
  <2>6. \A id, y : IsOf(id, y) => IsOf(id, y)'
    <3>1. /\ zones' \subseteq Zones /\ zones' \cap unused' = {} /\ records' \cap unused' = {}
          /\ unused' \subseteq unused
          /\ redirects' = [y \in Zones |-> redirects'[y]]
          /\ \A y \in Zones : redirects'[y] \subseteq redirects[y]
          /\ \A y \in Zones \ zones' : redirects'[y] = {}
      BY <1>1, <2>1, <2>2 DEF CloudflareOK
    <3>2. QED
      BY <1>1, <2>2, <3>1, CloudflareStays
  <2>7. TabOK'
    <3>1. listed' \subseteq Zones /\ listed' \cap unused' = {}
      BY <1>1, <2>1, <2>2 DEF TabOK
    <3>2. zoneId' # None => zoneId' \in Zones /\ zoneId' \notin unused'
      BY <1>1, <2>1, <2>4, <2>5 DEF TabOK
    <3>3. asking' # None => IsOfItsZone(asking)'
      BY <1>1, <2>2, <2>6 DEF TabOK, IsOfItsZone
    <3>4. tab' = "redirects" => \A rule \in lines' : IsOf(rule.id, zoneId)'
      BY <1>1, <2>2, <2>5, <2>6 DEF TabOK
    <3>5. QED
      BY <3>1, <3>2, <3>3, <3>4 DEF TabOK
  <2>8. BatchIsComplete' /\ ReportedIsDone'
    BY <2>2, NothingIsReported
  <2>9. QED
    BY <1>1, <2>1, <2>2, <2>7, <2>8, EndsKeep DEF CloudflareOK
<1>3. CASE ZoneDeleted(c)
  <2>1. /\ sent' = sent \ {c} /\ UNCHANGED <<listed, tab, asking>> /\ UNCHANGED <<zoneId, lines>>
        /\ reported' = c /\ c.kind = "deleteZone"
    BY <1>3 DEF ZoneDeleted, Succeed
  <2>2. /\ zones' = zones \ c.as.ids /\ records' \subseteq records /\ unused' = unused
        /\ redirects' = [z \in Zones |-> IF z \in c.as.ids THEN {} ELSE redirects[z]]
    BY <1>3 DEF ZoneDeleted, Without
  <2>3. BatchIsComplete' /\ ReportedIsDone'
    BY <2>1, NothingIsReported
  <2>4. QED
    BY <1>1, <2>1, <2>2, <2>3, EndsKeep DEF CloudflareOK
<1>4. QED
  BY <1>2, <1>3

(* The account is changed elsewhere.                                         *)
LEMMA OthersKeep ==
  ASSUME ConsoleIInv, ChangedElsewhere
  PROVE  ConsoleStep
<1>1. CloudflareOK
  BY DEF ConsoleIInv
<1>2. /\ sent' = sent /\ UNCHANGED <<listed, tab, asking>> /\ UNCHANGED <<zoneId, lines>>
      /\ reported' = None
  BY DEF ChangedElsewhere, consolePageVars
<1> DEFINE Shrinks ==
             /\ zones' \subseteq zones /\ records' \subseteq records /\ unused' = unused
             /\ redirects' = [z \in Zones |-> redirects'[z]]
             /\ \A z \in Zones : redirects'[z] \subseteq redirects[z]
             /\ \A z \in Zones \ zones' : redirects'[z] = {}
<1>3. Shrinks
  <2>1. ASSUME NEW y \in zones, Without({y}) PROVE Shrinks
    BY <1>1, <2>1 DEF Without, CloudflareOK
  <2>2. ASSUME NEW y \in zones, NEW rule \in redirects[y],
               redirects' = [redirects EXCEPT ![y] = @ \ {rule}],
               UNCHANGED <<zones, records, pageRules, unused>>
        PROVE Shrinks
    BY <1>1, <2>2 DEF CloudflareOK
  <2>3. ASSUME UNCHANGED <<zones, redirects, unused>>, records' \subseteq records
        PROVE Shrinks
    BY <1>1, <2>3 DEF CloudflareOK
  <2>4. QED
    BY <2>1, <2>2, <2>3 DEF ChangedElsewhere
<1>4. CloudflareOK' /\ \A id, z : IsOf(id, z) => IsOf(id, z)'
  <2>1. /\ zones' \subseteq Zones /\ zones' \cap unused' = {} /\ records' \cap unused' = {}
        /\ unused' \subseteq unused
    BY <1>1, <1>3 DEF CloudflareOK
  <2>2. QED
    BY <1>1, <1>2, <1>3, <2>1, CloudflareStays
<1>5. BatchIsComplete' /\ ReportedIsDone'
  BY <1>2, NothingIsReported
<1>6. QED
  BY <1>2, <1>3, <1>4, <1>5, WorkKeeps

(* What a save or a deletion puts back has the ids that were read, but for   *)
(* those it deletes, and one that is new.                                    *)
LEMMA ReplacementIds ==
  ASSUME NEW c, NEW id, c.kind \in {"saveRedirect", "deleteRedirect"}
  PROVE  /\ c.kind = "deleteRedirect" =>
              IdsOf(Replacement(c, id)) = IdsOf(c.loaded) \ c.as.ids
         /\ c.kind = "saveRedirect" /\ c.as.ids # {} =>
              IdsOf(Replacement(c, id)) = IdsOf(c.loaded)
         /\ c.kind = "saveRedirect" /\ c.as.ids = {} =>
              IdsOf(Replacement(c, id)) = IdsOf(c.loaded) \cup {id}
<1>1. \A rule : Rewritten(rule).id = rule.id
  BY DEF Rewritten, Rule
<1>2. \A d : Rule(id, d).id = id
  BY DEF Rule
<1>3. CASE c.kind = "deleteRedirect"
  <2>1. Replacement(c, id) = {Rewritten(rule) : rule \in {x \in c.loaded : x.id \notin c.as.ids}}
    BY <1>3 DEF Replacement
  <2>2. QED
    BY <1>1, <1>3, <2>1 DEF IdsOf
<1>4. CASE c.kind = "saveRedirect" /\ c.as.ids # {}
  <2>1. Replacement(c, id) =
          {IF rule.id \in c.as.ids THEN Rule(rule.id, c.as.draft) ELSE Rewritten(rule)
             : rule \in c.loaded}
    BY <1>4 DEF Replacement
  <2>2. \A rule : (IF rule.id \in c.as.ids THEN Rule(rule.id, c.as.draft)
                   ELSE Rewritten(rule)).id = rule.id
    BY <1>1 DEF Rule
  <2>3. QED
    BY <1>4, <2>1, <2>2 DEF IdsOf
<1>5. CASE c.kind = "saveRedirect" /\ c.as.ids = {}
  <2>1. Replacement(c, id) = {Rewritten(rule) : rule \in c.loaded} \cup {Rule(id, c.as.draft)}
    BY <1>5 DEF Replacement
  <2>2. QED
    BY <1>1, <1>2, <1>5, <2>1 DEF IdsOf
<1>6. QED
  BY <1>3, <1>4, <1>5

(* A ruleset is read, and put back.                                          *)
LEMMA RulesetsKeep ==
  ASSUME ConsoleIInv, NEW c \in sent,
         \/ RulesetLoaded(c)
         \/ \E id : /\ c.kind = "saveRedirect" /\ c.as.ids = {} => id \in unused
                    /\ RulesetPut(c, id)
  PROVE  ConsoleStep
<1>1. CallOK(c) /\ CloudflareOK
  BY DEF ConsoleIInv
<1>2. CASE RulesetLoaded(c)
  <2>1. PICK next : next = [c EXCEPT !.stage = "loaded", !.loaded = redirects[c.zone]]
    OBVIOUS
  <2>2. next = [kind |-> c.kind, as |-> c.as, zone |-> c.zone, stage |-> "loaded",
                todo |-> c.todo, loaded |-> redirects[c.zone], mine |-> c.mine]
    BY <1>1, <2>1 DEF CallOK
  <2>3. /\ c.kind \in {"saveRedirect", "deleteRedirect"} /\ c.zone \in zones
        /\ UNCHANGED consolePageVars /\ UNCHANGED cloudflareVars
        /\ sent' = (sent \ {c}) \cup {next} /\ reported' = None
    BY <1>2, <2>1 DEF RulesetLoaded, Proceed
  <2>4. UNCHANGED <<zones, redirects, unused>> /\ records' = records /\ c.zone \in Zones
    BY <1>1, <2>3 DEF cloudflareVars, CloudflareOK
  <2>5. CallOK(next)
    BY <1>1, <2>2, <2>3 DEF CallOK
  <2>6. \A id, z : IsOf(id, z) => IsOf(id, z)'
    <3>1. /\ zones' \subseteq Zones /\ zones' \cap unused' = {} /\ records' \cap unused' = {}
          /\ unused' \subseteq unused
          /\ redirects' = [z \in Zones |-> redirects'[z]]
          /\ \A z \in Zones : redirects'[z] \subseteq redirects[z]
          /\ \A z \in Zones \ zones' : redirects'[z] = {}
      BY <1>1, <2>4 DEF CloudflareOK
    <3>2. \A d \in sent' : d.stage = "loaded" =>
            d \in sent \/ (d.zone \in Zones /\ d.loaded = redirects[d.zone])
      BY <2>2, <2>3, <2>4
    <3>3. QED
      BY <1>1, <3>1, <3>2, CloudflareStays
  <2>7. CallOK(next)'
    BY <2>4, <2>5, <2>6, CallStays
  <2>8. QED
    BY <2>2, <2>3, <2>4, <2>7, GoesOnKeeps
<1>3. ASSUME NEW id, c.kind = "saveRedirect" /\ c.as.ids = {} => id \in unused, RulesetPut(c, id)
      PROVE  ConsoleStep
  <2> DEFINE rules == Replacement(c, id)
             new == IdsOf(rules) \cap unused
  <2>1. /\ c.stage = "loaded" /\ c.zone \in zones /\ c.zone \in Zones
        /\ c.kind \in {"saveRedirect", "deleteRedirect"}
        /\ redirects' = [redirects EXCEPT ![c.zone] = rules]
        /\ unused' = unused \ new
        /\ UNCHANGED <<zoneId, lines, zones, records>> /\ UNCHANGED <<listed, tab, asking>>
        /\ sent' = sent \ {c}
        /\ reported' = None \/ reported' = c
        /\ reported' = None \/ c.kind # "saveRedirect" \/ c.as.draft \in DestinationsOf(rules)
    BY <1>1, <1>3 DEF RulesetPut, Succeed, CallOK, CloudflareOK
  <2>2. /\ IdsOf(rules) \subseteq IdsOf(c.loaded) \cup unused
        /\ c.kind = "deleteRedirect" => IdsOf(rules) \cap c.as.ids = {}
    BY <1>3, <2>1, ReplacementIds
  <2> HIDE DEF rules
  <2>3. redirects' = [z \in Zones |-> IF z = c.zone THEN rules ELSE redirects[z]]
    BY <1>1, <2>1 DEF CloudflareOK
  <2>4. \A z \in Zones : RulesOf(z)' \subseteq RulesOf(z) \cup (IF z = c.zone THEN new ELSE {})
    <3> SUFFICES ASSUME NEW z \in Zones, NEW x \in RulesOf(z)', x \notin RulesOf(z)
                 PROVE  z = c.zone /\ x \in new
      OBVIOUS
    <3>1. x \in IdsOf(redirects'[z])
      BY <2>1 DEF RulesOf
    <3>2. z = c.zone /\ x \in IdsOf(rules)
      BY <2>3, <3>1 DEF RulesOf
    <3>3. x \notin IdsOf(c.loaded)
      BY <2>1, <3>2 DEF RulesOf
    <3>4. QED
      BY <2>2, <3>2, <3>3
  <2>5. /\ \A x, z : IsOf(x, z) => IsOf(x, z)'
        /\ \A z \in Zones : \A x \in RulesOf(z)' : IsOf(x, z)'
    <3>1. new \subseteq unused /\ unused' \subseteq unused \ new
      BY <2>1
    <3> HIDE DEF new
    <3>2. QED
      BY <1>1, <2>4, <3>1, IdsStay
  <2>6. CloudflareOK'
    BY <1>1, <2>1, <2>3, <2>5 DEF CloudflareOK
  <2>7. BatchIsComplete'
    BY <2>1 DEF BatchIsComplete, Reported
  <2>8. ASSUME AsConfirmed PROVE ReportedIsDone'
    <3>1. GoesTo(c.zone, c.as)
      BY <2>8 DEF AsConfirmed
    <3>2. ASSUME reported' = c, c.kind = "deleteRedirect", NEW z \in Zones, NEW x \in c.as.ids
          PROVE  x \notin IdsOf(redirects'[z])
      <4>1. IsOf(x, c.as.zone)
        BY <1>1, <3>2 DEF CallOK, IsOfItsZone
      <4>2. CASE z = c.zone
        BY <2>2, <2>3, <3>2, <4>2
      <4>3. CASE z # c.zone /\ z # c.as.zone
        <5>1. x \notin IdsOf(redirects[z])
          BY <4>1, <4>3 DEF IsOf, RulesOf
        <5>2. QED
          BY <2>3, <4>3, <5>1
      <4>4. CASE z # c.zone /\ z = c.as.zone
        <5>1. redirects[z] = {}
          BY <1>1, <3>1, <4>4 DEF GoesTo, CloudflareOK
        <5>2. QED
          BY <2>3, <4>4, <5>1 DEF IdsOf
      <4>5. QED
        BY <4>2, <4>3, <4>4
    <3>3. SavedIsThere'
      BY <2>1, <2>3, <3>2 DEF SavedIsThere, Reported
    <3>4. ConfirmedZone'
      BY <2>1 DEF ConfirmedZone, Reported
    <3>5. QED
      BY <2>7, <3>3, <3>4 DEF ReportedIsDone
  <2>9. QED
    BY <2>1, <2>5, <2>6, <2>7, <2>8, WorkKeeps
<1>4. QED
  BY <1>2, <1>3

LEMMA ConsoleKeeps == ConsoleIInv /\ [ConsoleNext]_consoleVars => ConsoleStep
<1> SUFFICES ASSUME ConsoleIInv, [ConsoleNext]_consoleVars PROVE ConsoleStep
  OBVIOUS
<1>1. CASE UNCHANGED consoleVars
  <2>1. /\ UNCHANGED <<zoneId, listed, tab, lines, asking, sent>>
        /\ UNCHANGED <<zones, records, redirects, unused, reported>>
    BY <1>1 DEF consoleVars, consolePageVars, cloudflareVars
  <2>2. CloudflareOK' /\ TabOK' /\ \A c \in sent' : CallOK(c)'
    BY <2>1 DEF ConsoleIInv, CloudflareOK, TabOK, CallOK, IsOfItsZone, IsOf, RulesOf
  <2>3. /\ ConsoleIInv => BatchIsComplete'
        /\ AsConfirmed => AsConfirmed'
        /\ OneCallAtATime => OneCallAtATime'
    BY <2>1 DEF ConsoleIInv, AsConfirmed, OneCallAtATime, GoesTo, ReportedIsDone,
                BatchIsComplete, SavedIsThere, ConfirmedZone, Reported
  <2>4. QED
    BY <2>2, <2>3 DEF ConsoleStep, ConsoleIInv
<1>2. ASSUME NEW c \in sent,
             \/ RequestFails(c) \/ BatchListed(c) \/ BatchEnds(c) \/ RecordDeleted(c)
             \/ RecordSaved(c) \/ ZoneCreated(c) \/ ZoneDeleted(c) \/ Configured(c)
             \/ PageRuleSaved(c) \/ PageRuleDeleted(c) \/ RulesetLoaded(c)
             \/ \E r \in c.todo : BatchChanges(c, r)
             \/ \E id \in IF c.kind = "saveRedirect" /\ c.as.ids = {} THEN unused \cap RuleIds
                                                                      ELSE {None} : RulesetPut(c, id)
      PROVE  ConsoleStep
  BY <1>2, BatchesKeep, SinglesKeep, ZonesKeep, RulesetsKeep
<1>3. CASE \/ ZonesRead \/ TabRead \/ DeclineDialog \/ StopEditing
           \/ \E z \in Zones : SelectZone(z)
           \/ \E t \in Tabs : OpenTab(t)
           \/ \E all \in BOOLEAN : ToggleAll(all)
           \/ \E r \in Records : Toggle(r) \/ EditRecord(r)
           \/ \E id \in RuleIds : EditPageRule(id)
           \/ \E rule \in lines : EditRedirect(rule)
           \/ \E d \in Literal : TypeDestination(d)
  BY <1>3, LooksKeep
<1>4. CASE \/ AddZone \/ ProxyOrTtl \/ Repoint \/ DeleteSelected \/ SaveRecord
           \/ ChangeSetting \/ Purge \/ SavePageRule \/ SaveRedirect \/ ConfirmDialog
           \/ \E z \in Zones : RemoveZone(z)
           \/ \E r \in Records : DeleteRecord(r)
           \/ \E id \in RuleIds : DeletePageRule(id)
           \/ \E rule \in lines : DeleteRedirect(rule)
  BY <1>4, UserKeeps
<1>5. CASE ChangedElsewhere
  BY <1>5, OthersKeep
<1>6. QED
  BY <1>1, <1>2, <1>3, <1>4, <1>5 DEF ConsoleNext

(* A batch of deletions over the records of a zone is reported as done only  *)
(* when every record it announced is gone, for any number of calls under way *)
(* and whatever others change in the account meanwhile.                      *)
THEOREM BatchesAreComplete == ConsoleSpec => []BatchIsComplete
<1>1. ConsoleIInv => BatchIsComplete
  BY DEF ConsoleIInv
<1>2. ConsoleIInv /\ [ConsoleNext]_consoleVars => ConsoleIInv'
  BY ConsoleKeeps DEF ConsoleStep
<1>3. QED
  BY <1>1, <1>2, ConsoleStarts, PTL DEF ConsoleSpec

(* The Cloudflare page reports only what was done, for any zones, records    *)
(* and rules, any number of calls under way, and any changes made elsewhere: *)
(* every record of a batch is gone, a saved redirect is in its zone's        *)
(* ruleset, a deleted one in none, and a setting or an emptied cache is of   *)
(* the zone it was confirmed for, or that zone does not exist.  The one      *)
(* thing a user must wait for is a zone being added, before a dialog is      *)
(* opened: when it is there, it or the first one replaces the zone on show.  *)
THEOREM ReportsAreTrue == ConsoleSpec /\ []WaitsForZones => []ReportedIsDone
<1>1. AsConfirmed => ReportedIsDone
  BY DEF AsConfirmed
<1>2. ConsoleIInv /\ AsConfirmed /\ WaitsForZones /\ [ConsoleNext]_consoleVars =>
        ConsoleIInv' /\ AsConfirmed'
  BY ConsoleKeeps DEF ConsoleStep
<1>3. QED
  BY <1>1, <1>2, ConsoleStarts, PTL DEF ConsoleSpec

(* ... and so to a user who makes one call at a time.                        *)
THEOREM SingleReportsAreTrue ==
  ASSUME MaxSending = 1
  PROVE  ConsoleSpec => []ReportedIsDone
<1>1. ConsoleIInv /\ OneCallAtATime /\ [ConsoleNext]_consoleVars =>
        ConsoleIInv' /\ OneCallAtATime'
  BY ConsoleKeeps DEF ConsoleStep
<1>2. OneCallAtATime => WaitsForZones
  BY DEF OneCallAtATime, WaitsForZones
<1>3. ConsoleSpec => []WaitsForZones
  BY <1>1, <1>2, ConsoleStarts, PTL DEF ConsoleSpec
<1>4. QED
  BY <1>3, ReportsAreTrue, PTL
==============================================================================
