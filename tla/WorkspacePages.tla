-------------------------- MODULE WorkspacePages --------------------------
(***************************************************************************)
(* The renderer's workspace: the gate, the picker, the project page and    *)
(* the query cache on one side, the session of the main process on the     *)
(* other, and calls and answers in transit between them.                   *)
(*                                                                         *)
(* Both directions are first in, first out; a handler answers when it is   *)
(* done.  All the pages are one view: the data of one project, or nothing  *)
(* yet.  A query that was dropped by queryClient.clear() is told apart     *)
(* from the one that takes its key later by the number of clears before.   *)
(***************************************************************************)
EXTENDS Naturals, Sequences, FiniteSets

CONSTANTS Projects, Nothing,
          MaxSent,    \* bound on calls under way when the user makes another
          MaxClears,  \* bound on transitions the renderer is told of
          MaxFaults   \* bound on failures in the main process

ASSUME WorkspacePagesAssumption == Nothing \notin Projects

VARIABLES session,    \* the project the renderer is in
          view,       \* what the mounted pages show, and of which query
          cache,      \* the data in the query cache
          clears,
          toMain, toPage,
          queue,      \* ProjectSessionService.transition: calls chained
          stage,      \* how far the first of them is
          handling,   \* other calls the main process is at
          active,     \* the lease of the main process
          rows,       \* the projects that are stored
          acted,      \* the last change that was carried out
          faults,
          patient     \* the user waits for a transition or a saved form to be answered

workspacePagesVars ==
  <<session, view, cache, clears, toMain, toPage, queue, stage, handling, active, rows,
    acted, faults, patient>>
mainProcess == <<toMain, queue, stage, handling, active, rows, acted, faults>>

Unmounted == [query |-> Nothing, data |-> Nothing]
Mounted == [query |-> clears, data |-> cache]

UnderWay == Len(toMain) + Len(toPage) + Len(queue) + Cardinality(handling)
Transitions == {"create", "unlock", "lock", "delete", "session"}
Awaited ==
  \/ queue # <<>> \/ \E c \in handling : c.kind \in Transitions
  \/ \E i \in DOMAIN toMain : toMain[i].kind \in Transitions
  \/ \E i \in DOMAIN toPage : toPage[i].kind \in Transitions

Call(kind, project) == [kind |-> kind, project |-> project, query |-> clears]

Send(call) ==
  /\ UnderWay < MaxSent
  /\ toMain' = Append(toMain, call)
  /\ UNCHANGED <<toPage, queue, stage, handling, active, rows, acted, faults, patient>>

Transition(kind, project) ==
  /\ patient => ~Awaited
  /\ Send(Call(kind, project))
  /\ UNCHANGED <<session, view, cache, clears>>

------------------------------------------------------------------------------
(* The renderer.                                                             *)

OpenProject(p) == session = Nothing /\ Transition("unlock", p)
CreateProject(p) == session = Nothing /\ p \notin rows /\ Transition("create", p)
LockProject == session # Nothing /\ Transition("lock", session)
DeleteProject == session # Nothing /\ Transition("delete", session)

\* A saved form, a changed or a removed passkey reads the session again.
SaveSettings == session # Nothing /\ Transition("session", session)

\* A page is opened, or renders again: it shows what is cached, and reads.
Visit ==
  /\ session # Nothing
  /\ view' = Mounted
  /\ Send(Call("read", session))
  /\ UNCHANGED <<session, cache, clears>>

Change ==
  /\ session # Nothing
  /\ Send(Call("change", session))
  /\ UNCHANGED <<session, view, cache, clears>>

\* The gate mounts the pages when there is a session and unmounts them when not.
Enter(p) ==
  /\ session' = p
  /\ view' = CASE p = Nothing -> Unmounted
               [] p # Nothing /\ session = Nothing -> [query |-> clears', data |-> cache']
               [] OTHER -> view

\* Variant: the caches of the project before are kept.
KeepCaches == UNCHANGED <<cache, clears>>

ClearCaches == cache' = Nothing /\ clears' = clears + 1

ReceivesAnswer ==
  /\ toPage # <<>>
  /\ LET a == Head(toPage) IN
     /\ toPage' = Tail(toPage)
     /\ CASE a.kind = "unlock" /\ a.works ->
               clears < MaxClears /\ ClearCaches /\ Enter(a.project) /\ UNCHANGED toMain
          [] a.kind \in {"lock", "delete"} /\ a.works ->
               clears < MaxClears /\ ClearCaches /\ Enter(Nothing) /\ UNCHANGED toMain
          [] a.kind = "session" /\ a.works ->
               UNCHANGED <<cache, clears, toMain>> /\ Enter(a.project)
          [] a.kind = "create" /\ a.works ->
               /\ toMain' = Append(toMain, Call("unlock", a.project))
               /\ UNCHANGED <<session, view, cache, clears>>
          [] a.kind = "read" /\ a.works ->
               /\ cache' = IF a.query = clears THEN a.project ELSE cache
               /\ view' = IF a.query = view.query THEN [view EXCEPT !.data = a.project]
                          ELSE view
               /\ UNCHANGED <<session, clears, toMain>>
          [] OTHER -> UNCHANGED <<session, view, cache, clears, toMain>>
  /\ UNCHANGED <<queue, stage, handling, active, rows, acted, faults, patient>>

------------------------------------------------------------------------------
(* The main process.                                                         *)

Answer(call, project, works) ==
  toPage' = Append(toPage, [kind |-> call.kind, project |-> project, query |-> call.query,
                            works |-> works])

\* What is scoped to a project is refused without one, a lock and a deletion too.
WithoutSession == {"unlock", "create", "session"}

Arrives ==
  /\ toMain # <<>>
  /\ LET call == Head(toMain) IN
     /\ toMain' = Tail(toMain)
     /\ CASE call.kind \notin WithoutSession /\ active = Nothing ->
               Answer(call, Nothing, FALSE) /\ UNCHANGED <<queue, handling, acted>>
          [] call.kind = "delete" /\ active \notin {Nothing, call.project} ->
               Answer(call, Nothing, FALSE) /\ UNCHANGED <<queue, handling, acted>>
          [] \/ call.kind = "unlock" \/ (call.kind = "lock" /\ active # Nothing)
               \/ (call.kind = "delete" /\ active = call.project) ->
               queue' = Append(queue, call) /\ UNCHANGED <<toPage, handling, acted>>
          [] call.kind = "change" /\ active # Nothing ->
               /\ acted' = [as |-> call.project, in |-> active]
               /\ handling' = handling \cup {[call EXCEPT !.project = active]}
               /\ UNCHANGED <<toPage, queue>>
          [] call.kind = "session" \/ (call.kind = "read" /\ active # Nothing) ->
               /\ handling' = handling \cup {[call EXCEPT !.project = active]}
               /\ UNCHANGED <<toPage, queue, acted>>
          [] call.kind = "create" ->
               handling' = handling \cup {call} /\ UNCHANGED <<toPage, queue, acted>>
  /\ UNCHANGED <<session, view, cache, clears, stage, active, rows, faults, patient>>

\* current() answers with the lease it found before it read the project.
Handled(call) ==
  /\ call \in handling
  /\ handling' = handling \ {call}
  /\ rows' = IF call.kind = "create" THEN rows \cup {call.project} ELSE rows
  /\ Answer(call, call.project,
            call.kind # "create" => call.project \in rows \cup {Nothing})
  /\ UNCHANGED <<session, view, cache, clears, toMain, queue, stage, active, acted, faults,
                 patient>>

\* The teardown waits for the calls that hold a lease of the session.
LeaseFree == \A call \in handling : call.kind \notin {"read", "change"}

EndTransition(project, works) ==
  /\ Answer(Head(queue), project, works)
  /\ queue' = Tail(queue) /\ stage' = "idle"

Impossible(call) ==
  \/ call.kind = "unlock" /\ call.project \notin rows
  \/ call.kind = "delete" /\ active # call.project

\* An unknown project, a wrong passkey, a check that fails: nothing was changed.
Refused ==
  /\ queue # <<>> /\ stage = "idle"
  /\ IF Impossible(Head(queue)) THEN faults' = faults
     ELSE faults < MaxFaults /\ faults' = faults + 1
  /\ EndTransition(Nothing, FALSE)
  /\ UNCHANGED <<session, view, cache, clears, toMain, handling, active, rows, acted, patient>>

Closed ==
  /\ queue # <<>> /\ stage = "idle" /\ LeaseFree
  /\ ~Impossible(Head(queue))
  /\ active' = Nothing
  /\ IF Head(queue).kind = "lock" THEN EndTransition(Nothing, TRUE)
     ELSE stage' = "closed" /\ UNCHANGED <<toPage, queue>>
  /\ UNCHANGED <<session, view, cache, clears, toMain, handling, rows, acted, faults, patient>>

\* The new session serves calls before the unlock is answered.
Activated ==
  /\ stage = "closed" /\ Head(queue).kind = "unlock"
  /\ active' = Head(queue).project /\ stage' = "active"
  /\ UNCHANGED <<session, view, cache, clears, toMain, toPage, queue, handling, rows, acted,
                 faults, patient>>

Opened ==
  /\ stage = "active"
  /\ EndTransition(active, TRUE)
  /\ UNCHANGED <<session, view, cache, clears, toMain, handling, active, rows, acted, faults,
                 patient>>

Deleted ==
  /\ stage = "closed" /\ Head(queue).kind = "delete"
  /\ rows' = rows \ {Head(queue).project}
  /\ EndTransition(Nothing, TRUE)
  /\ UNCHANGED <<session, view, cache, clears, toMain, handling, active, acted, faults,
                 patient>>

\* The save, the work after the activation, the removal or that of the files fails.
FailsClosed ==
  /\ stage \in {"closed", "active"} /\ faults < MaxFaults
  /\ faults' = faults + 1 /\ active' = Nothing
  /\ rows' \in IF Head(queue).kind = "delete" THEN {rows, rows \ {Head(queue).project}}
               ELSE {rows}
  /\ EndTransition(Nothing, FALSE)
  /\ UNCHANGED <<session, view, cache, clears, toMain, handling, acted, patient>>

------------------------------------------------------------------------------

WorkspacePagesInit ==
  /\ session = Nothing /\ view = Unmounted /\ cache = Nothing /\ clears = 0
  /\ toMain = <<>> /\ toPage = <<>> /\ queue = <<>> /\ stage = "idle" /\ handling = {}
  /\ active = Nothing /\ acted = Nothing /\ faults = 0
  /\ rows \in {Projects} \cup {Projects \ {p} : p \in Projects}
  /\ patient \in BOOLEAN

WorkspacePagesNext ==
  \/ \E p \in Projects : OpenProject(p) \/ CreateProject(p)
  \/ LockProject \/ DeleteProject \/ SaveSettings \/ Visit \/ Change
  \/ ReceivesAnswer \/ Arrives \/ (\E call \in handling : Handled(call))
  \/ Refused \/ Closed \/ Activated \/ Opened \/ Deleted \/ FailsClosed

WorkspacePagesSpec == WorkspacePagesInit /\ [][WorkspacePagesNext]_workspacePagesVars

------------------------------------------------------------------------------
(* Properties.                                                               *)

\* No page shows the data of a project other than the one the renderer is in
\* (WorkspaceContext: "data from one project cannot render in the next project, even
\* briefly").
ShownBelongsToSession ==
  session # Nothing /\ view.data # Nothing => view.data = session

\* For a user who waits for the answer of a transition that holds, and a change that is
\* carried out is carried out in the project it was asked for in; the requests name no
\* project, so only the order of calls, leases and answers sees to it.
OneProjectAtATime ==
  patient => /\ ShownBelongsToSession
             /\ acted # Nothing => acted.as = acted.in

AtRest == UnderWay = 0

\* Such a user and the main process agree on the project that is open, once nothing is
\* under way and unless a transition failed half-way.
SessionsAgree == patient /\ AtRest /\ faults = 0 => session = active

\* The two of them: what is seen and changed is of the project that is open.
WorkspaceIsOne == OneProjectAtATime /\ SessionsAgree
==============================================================================
