--------------------------- MODULE AnsiblePage ---------------------------
(***************************************************************************)
(* The Ansible page and the catalog of VPS targets: the connection form,   *)
(* the fingerprint, the readiness report, repair, run, service actions,    *)
(* access details and live states of the selected target, while calls are  *)
(* answered late and the catalog is edited by others.                      *)
(*                                                                         *)
(* A host stands for host and port, a login for user and credential; the   *)
(* fingerprint of a host is the host itself.  The list of targets is the   *)
(* catalog: a change of it is told to the page, which reads it again.      *)
(* Callbacks use the values of the render that made them, so a call        *)
(* carries the form, the profile and the target it was made with.          *)
(***************************************************************************)
EXTENDS PageCalls, Naturals, FiniteSets

CONSTANTS Hosts, Logins, Profiles,
          VpsTargets,    \* the rows there may be
          DefaultLogin,
          MaxMutations,  \* bound on calls under way when the user makes another
          Secretive,     \* profiles with access details
          ConfiguredHosts \* hosts whose services report a configuration

ASSUME NoneIsNoTarget == None \notin VpsTargets

VARIABLES form, selected, profile,
          variables,  \* the host whose configuration filled the fields in
          catalog,    \* the rows: connection, and the connection last checked
          hook,       \* the page's hooks
          checks,     \* preflights the main process is at
          asked,      \* the confirmation that is open
          alone       \* nobody else edits the catalog, and the user leaves the
                      \* form alone while a call of CallsToWaitFor is under way

ansibleVars == <<form, selected, profile, variables, catalog, hook, checks, asked, alone>>

Hooks == {"inspect", "preflight", "repair", "run", "service", "access", "states", "save"}
CallsToWaitFor == {"inspect", "repair", "run", "service", "save"}

Blank == [host |-> None, login |-> DefaultLogin, key |-> None]
Connected(f) == f.host # None /\ f.key # None
Saved == {t \in VpsTargets : catalog[t] # None}

\* What a callback of this render would use.
Closure == [of |-> form, profile |-> profile, target |-> selected, variables |-> variables]

Busy == \E h \in {"preflight", "repair", "run", "service", "access"} : IsPending(hook[h])

Attentive ==
  /\ asked = None
  /\ alone => \A h \in CallsToWaitFor : ~IsPending(hook[h])

\* The page as the user finds it.
FormAtHand ==
  /\ asked = None
  /\ Cardinality(checks) + Cardinality({h \in Hooks \ {"preflight", "states"} :
                                          IsPending(hook[h])}) < MaxMutations

ReadyFor(p) ==
  /\ hook["preflight"].data # None
  /\ hook["preflight"].data.status = "ready" /\ hook["preflight"].data.profile = p

------------------------------------------------------------------------------
(* The form.                                                                 *)

\* The live states are asked for again whenever a field of the connection changes.
StatesOf(f) ==
  CASE f = form -> hook["states"]
    [] Connected(f) -> Mutated([of |-> f])
    [] OTHER -> Quiet

Show(f, quiet) ==
  /\ form' = f
  /\ hook' = [h \in Hooks |-> CASE h \in quiet -> Quiet
                                [] h = "states" -> StatesOf(f)
                                [] OTHER -> hook[h]]

EditHost(h) ==
  /\ Attentive
  /\ Show([form EXCEPT !.host = h, !.key = None], {"preflight"})
  /\ UNCHANGED <<selected, profile, variables, catalog, checks, asked>>

EditLogin(l) ==
  /\ Attentive
  /\ Show([form EXCEPT !.login = l], {"preflight"})
  /\ UNCHANGED <<selected, profile, variables, catalog, checks, asked>>

InspectHost ==
  /\ FormAtHand /\ form.host # None /\ ~IsPending(hook["inspect"])
  /\ hook' = [hook EXCEPT !["inspect"] = Mutated(form.host)]
  /\ UNCHANGED <<form, selected, profile, variables, catalog, checks, asked>>

InspectAnswered(works) ==
  /\ IsPending(hook["inspect"])
  /\ IF works THEN Show([form EXCEPT !.key = hook["inspect"].pending],
                        {"inspect", "preflight"})
              ELSE Show(form, {"inspect"})
  /\ UNCHANGED <<selected, profile, variables, catalog, checks, asked>>

\* The effect on the list selects its first row when nothing is selected.
SelectFirstOf(rows, quiet) ==
  LET there == {t \in VpsTargets : rows[t] # None} IN
  IF there = {} THEN selected' = None /\ Show(Blank, quiet)
  ELSE \E t \in there : selected' = t /\ Show(rows[t].connection, quiet)

\* Variant: a selection forgets only the access and the run.
SelectRowOnly(t) ==
  /\ Attentive /\ t \in Saved
  /\ selected' = t
  /\ Show(catalog[t].connection, {"access", "run"})
  /\ UNCHANGED <<profile, variables, catalog, checks, asked>>

SelectRow(t) ==
  /\ Attentive /\ t \in Saved
  /\ selected' = t
  /\ Show(catalog[t].connection, {"preflight", "access", "run"})
  /\ UNCHANGED <<profile, variables, catalog, checks, asked>>

SelectNewTarget ==
  /\ Attentive
  /\ SelectFirstOf(catalog, {"preflight", "access", "run"})
  /\ UNCHANGED <<profile, variables, catalog, checks, asked>>

\* The fields are filled in from the states that are shown.
FilledFrom(states, otherwise) ==
  IF states # None /\ states.of.host \in ConfiguredHosts THEN states.of.host ELSE otherwise

SelectProfile(p) ==
  /\ Attentive
  /\ profile' = p
  /\ variables' = IF p = profile THEN None ELSE FilledFrom(hook["states"].data, None)
  /\ Show(form, {"preflight", "access", "run"})
  /\ UNCHANGED <<form, selected, catalog, checks, asked>>

RefreshStates ==
  /\ FormAtHand /\ Connected(form) /\ ~IsPending(hook["states"])
  /\ hook' = [hook EXCEPT !["states"] = Mutated([of |-> form])]
  /\ UNCHANGED <<form, selected, profile, variables, catalog, checks, asked>>

StatesAnswered(works) ==
  /\ IsPending(hook["states"])
  /\ LET states == IF works THEN hook["states"].pending ELSE None IN
     /\ hook' = [hook EXCEPT !["states"] = Answered(states)]
     /\ variables' = FilledFrom(states, variables)
  /\ UNCHANGED <<form, selected, profile, catalog, checks, asked>>

------------------------------------------------------------------------------
(* Readiness and the calls it gates.                                         *)

\* The requested profile's report; another profile's is asked for without variables.
Preflight(p) ==
  /\ FormAtHand /\ Connected(form) /\ ~Busy /\ p \in {profile, "nginx"}
  /\ LET check == [Closure EXCEPT !.profile = p] IN
     /\ hook' = [hook EXCEPT !["preflight"] = Mutated(check)]
     /\ checks' = checks \cup {check}
  /\ UNCHANGED <<form, selected, profile, variables, catalog, asked>>

\* The main process writes the report to the row the request names.
Recorded(check) ==
  IF check.target # None /\ catalog[check.target] # None
  THEN [catalog EXCEPT ![check.target].checked = check.of]
  ELSE catalog

PreflightAnswered(check, status) ==
  /\ check \in checks
  /\ checks' = checks \ {check}
  /\ catalog' = IF status = "failed" THEN catalog ELSE Recorded(check)
  /\ hook' =
       IF ~IsPending(hook["preflight"]) \/ hook["preflight"].pending # check THEN hook
       ELSE [hook EXCEPT !["preflight"] =
               Answered(IF status = "failed" THEN None
                        ELSE [of |-> check.of, profile |-> check.profile,
                              variables |-> check.variables, status |-> status])]
  /\ UNCHANGED <<form, selected, profile, variables, asked>>

Offered(what) ==
  CASE what = "repair" -> /\ hook["preflight"].data # None
                          /\ hook["preflight"].data.status = "needs-repair"
                          /\ ~IsPending(hook["repair"])
    [] what = "run"    -> Connected(form) /\ ~Busy /\ ReadyFor(profile)
    [] what = "service" -> Connected(form) /\ ~Busy /\ hook["states"].data # None
    [] what = "delete" -> selected # None

\* A confirmation keeps the user from the page until it is answered.
Ask(what) ==
  /\ Attentive /\ FormAtHand /\ Offered(what)
  /\ asked' = [what |-> what, closure |-> Closure]
  /\ UNCHANGED <<form, selected, profile, variables, catalog, hook, checks>>

DeclineAsked == asked # None /\ asked' = None
           /\ UNCHANGED <<form, selected, profile, variables, catalog, hook, checks>>

ConfirmAsked ==
  /\ asked # None /\ asked.what # "delete"
  /\ asked' = None
  /\ hook' = [hook EXCEPT ![asked.what] = Mutated(asked.closure)]
  /\ UNCHANGED <<form, selected, profile, variables, catalog, checks>>

\* A repair that is done checks again what it was started for.
RepairAnswered(works) ==
  /\ IsPending(hook["repair"])
  /\ LET check == hook["repair"].pending
         quiet == [hook EXCEPT !["repair"] = Quiet] IN
     IF works
     THEN /\ hook' = [quiet EXCEPT !["preflight"] = Mutated(check)]
          /\ checks' = checks \cup {check}
          /\ catalog' = Recorded(check)
     ELSE hook' = quiet /\ UNCHANGED <<checks, catalog>>
  /\ UNCHANGED <<form, selected, profile, variables, asked>>

\* A profile that ran is shown with the states and the access of its target.
RunAnswered(works) ==
  /\ IsPending(hook["run"])
  /\ LET ran == hook["run"].pending IN
     hook' = [hook EXCEPT
       !["run"] = Quiet,
       !["states"] = IF works THEN Mutated([of |-> ran.of]) ELSE @,
       !["access"] = IF works /\ ran.profile \in Secretive THEN Mutated(ran) ELSE @]
  /\ UNCHANGED <<form, selected, profile, variables, catalog, checks, asked>>

ServiceAnswered(works) ==
  /\ IsPending(hook["service"])
  /\ hook' = [hook EXCEPT
       !["service"] = Quiet,
       !["states"] = IF works THEN Mutated([of |-> hook["service"].pending.of]) ELSE @]
  /\ UNCHANGED <<form, selected, profile, variables, catalog, checks, asked>>

LoadAccess ==
  /\ FormAtHand /\ Connected(form) /\ ~Busy /\ profile \in Secretive
  /\ hook' = [hook EXCEPT !["access"] = Mutated(Closure)]
  /\ UNCHANGED <<form, selected, profile, variables, catalog, checks, asked>>

AccessAnswered(works) ==
  /\ IsPending(hook["access"])
  /\ hook' = [hook EXCEPT !["access"] =
       Answered(IF works THEN [of |-> @.pending.of, profile |-> @.pending.profile]
                ELSE None)]
  /\ UNCHANGED <<form, selected, profile, variables, catalog, checks, asked>>

------------------------------------------------------------------------------
(* The catalog.                                                              *)

SaveTarget ==
  /\ FormAtHand /\ Connected(form) /\ ~IsPending(hook["save"])
  /\ \E t \in IF selected # None THEN {selected} ELSE VpsTargets \ Saved :
       hook' = [hook EXCEPT !["save"] = Mutated([target |-> t, of |-> form,
                                                 new |-> selected = None])]
  /\ UNCHANGED <<form, selected, profile, variables, catalog, checks, asked>>

\* VpsTargetService.update() forgets a report about another connection.
Row(t, connection) ==
  [connection |-> connection,
   checked |-> IF catalog[t] # None /\ catalog[t].connection = connection
               THEN catalog[t].checked ELSE None]

\* The list is read again before the callback selects the row that was saved.
SaveAnswered ==
  /\ IsPending(hook["save"])
  /\ LET saved == hook["save"].pending
         rows == [catalog EXCEPT ![saved.target] = Row(saved.target, saved.of)] IN
     IF saved.new \/ catalog[saved.target] # None
     THEN /\ catalog' = rows
          /\ selected' = saved.target
          /\ IF selected # None THEN Show(form, {"save"})
             ELSE \E t \in {t \in VpsTargets : rows[t] # None} :
                    Show(rows[t].connection, {"save"})
     ELSE Show(form, {"save"}) /\ UNCHANGED <<catalog, selected>>
  /\ UNCHANGED <<profile, variables, checks, asked>>

\* The row is gone, and the page with it: first by the effect, then by the callback.
DeleteTarget ==
  /\ asked # None /\ asked.what = "delete"
  /\ asked' = None
  /\ catalog' = [catalog EXCEPT ![asked.closure.target] = None]
  /\ SelectFirstOf(catalog', {"preflight", "access", "run"})
  /\ UNCHANGED <<profile, variables, checks>>

\* The synchronization with a stack's outputs adds, moves and removes rows.
RowRemoved(t) ==
  /\ ~alone /\ t \in Saved
  /\ catalog' = [catalog EXCEPT ![t] = None]
  /\ IF selected = t THEN SelectFirstOf(catalog', {"preflight", "access"})
     ELSE UNCHANGED <<form, selected, hook>>
  /\ UNCHANGED <<profile, variables, checks, asked>>

RowWritten(t, h) ==
  /\ ~alone
  /\ IsPending(hook["save"]) => hook["save"].pending.target # t \/ t \in Saved
  /\ LET connection == [host |-> h, login |-> DefaultLogin, key |-> h] IN
     catalog' = [catalog EXCEPT ![t] = Row(t, connection)]
  /\ IF selected = None THEN SelectFirstOf(catalog', {})
     ELSE UNCHANGED <<form, selected, hook>>
  /\ UNCHANGED <<profile, variables, checks, asked>>

------------------------------------------------------------------------------

AnsibleInit ==
  /\ catalog \in [VpsTargets -> {None} \cup
                    {[connection |-> [host |-> h, login |-> DefaultLogin, key |-> h],
                      checked |-> None] : h \in Hosts}]
  /\ IF Saved = {} THEN selected = None /\ form = Blank
     ELSE selected \in Saved /\ form = catalog[selected].connection
  /\ hook = [h \in Hooks |-> IF h = "states" /\ Connected(form) THEN Mutated([of |-> form])
                             ELSE Quiet]
  /\ profile \in Profiles /\ variables = None
  /\ checks = {} /\ asked = None
  /\ alone \in BOOLEAN

UsePage ==
  \/ \E h \in Hosts : EditHost(h)
  \/ \E l \in Logins : EditLogin(l)
  \/ \E p \in Profiles : SelectProfile(p) \/ Preflight(p)
  \/ \E t \in VpsTargets : SelectRow(t) \/ RowRemoved(t)
  \/ \E t \in VpsTargets, h \in Hosts : RowWritten(t, h)
  \/ SelectNewTarget \/ InspectHost \/ RefreshStates \/ LoadAccess
  \/ \E what \in {"repair", "run", "service", "delete"} : Ask(what)
  \/ DeclineAsked \/ ConfirmAsked \/ SaveTarget \/ SaveAnswered \/ DeleteTarget
  \/ \E check \in checks, status \in {"ready", "needs-repair", "failed"} :
       PreflightAnswered(check, status)
  \/ \E works \in BOOLEAN :
       \/ InspectAnswered(works) \/ StatesAnswered(works) \/ RepairAnswered(works)
       \/ RunAnswered(works) \/ ServiceAnswered(works) \/ AccessAnswered(works)

AnsibleNext == UsePage /\ UNCHANGED alone

AnsibleSpec == AnsibleInit /\ [][AnsibleNext]_ansibleVars

------------------------------------------------------------------------------
(* Properties.                                                               *)

\* A fingerprint that is shown as trusted is the one of the host in the form
\* (docs/ANSIBLE.md: changing the host or port clears it), also when the answer
\* of an inspection comes after the host was changed.
TrustedKeyOfHost == form.key # None => form.key = form.host

\* The readiness report that is shown is about the connection in the form, through
\* edits, selections, repairs and their late answers (docs/ANSIBLE.md: changing the
\* target or the credential invalidates the report).
ReportOfTarget ==
  hook["preflight"].data # None => hook["preflight"].data.of = form

\* Live states are those of the connection in the form, whichever call was answered
\* last (AnsiblePage: "Live state is read from the selected VPS").
StatesOfTarget == hook["states"].data # None => hook["states"].data.of = form

\* To a user who waits for the answers, and whose catalog nobody else edits, the page
\* is about one connection: the fingerprint, the report and the live states it shows
\* are those of the form, through edits, selections, repairs and saves.
AttendedPageIsOfOneHost ==
  alone => TrustedKeyOfHost /\ ReportOfTarget /\ StatesOfTarget
==============================================================================
