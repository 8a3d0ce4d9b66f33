---------------------------- MODULE RemoteRuns ----------------------------
(***************************************************************************)
(* Operations of the Ansible manager on a host: preparing it, running a    *)
(* profile, restarting a service.  Each is a row of SSH sessions and each  *)
(* session a row of commands, over a transport that is tried again as long *)
(* as the handshake fails for want of an answer.                           *)
(*                                                                         *)
(* A command runs on the host whatever becomes of its connection: one that *)
(* was cancelled, timed out or lost goes on unheard, or dies.              *)
(***************************************************************************)
EXTENDS VpsPreflight, Naturals, Sequences, FiniteSets

CONSTANTS Operations,   \* ids, one to a stream
          OnDocker,     \* profiles that need Docker
          Docker,       \* the profile that installs it
          Attempts,     \* at a connection
          MaxFaults     \* bound on what goes wrong outside the program

ASSUME DockerStandsAlone ==
  Docker \in Profiles \ OnDocker /\ OnDocker \subseteq Profiles /\ None \notin Profiles

VARIABLES host, trusted, \* the host, and whether it still has the key that was pinned
          jobs,          \* the job directories on it, by the operation they are of
          processes,     \* the commands that run on it
          ops,
          begun,         \* the commands that change it, as they began
          succeeded,     \* those that ended well of which a report of success speaks
          faults

remoteVars == <<host, trusted, jobs, processes, ops, begun, succeeded, faults>>

------------------------------------------------------------------------------
(* Sessions and commands.                                                    *)

\* A session that does not listen is not given the operation's signal.
Session(what, profile, listens, commands) ==
  [what |-> what, of |-> profile, listens |-> listens, commands |-> commands, left |-> commands]
Preflight(profile) == Session("preflight", profile, FALSE, <<"look">>)
Status == Session("status", None, FALSE, <<"look">>)
Bootstrap == Session("bootstrap", None, TRUE, <<"bootstrap">>)
Job(profile) == Session("job", profile, TRUE, <<"mkdir", "upload", "syntax", "play">>)
PostCheck(profile) == Session("postCheck", profile, TRUE, <<"check">>)
Service == Session("service", None, TRUE, <<"restart">>)

Sessions(kind, profile) ==
  CASE kind = "run" -> <<Preflight(profile), Job(profile), PostCheck(profile)>>
    [] kind = "repair" -> <<Preflight(None), Status, Bootstrap, Preflight(None)>>
    [] kind = "bootstrap" -> <<Status, Bootstrap>>
    [] kind = "service" -> <<Service>>

\* Commands a report of success stands on, and those that change the host.
Proving == {"play", "check"}
Changing == {"mkdir", "upload", "syntax", "play", "bootstrap", "restart"}

Absent ==
  [kind |-> None, of |-> None, todo |-> <<>>, link |-> "none", tries |-> 0,
   failing |-> FALSE, aborted |-> FALSE, cut |-> FALSE, result |-> None]

Live(id) == ops[id].kind # None /\ ops[id].result = None
Now(id) == Head(ops[id].todo)
Pending(id) == {p \in processes : p.op = id /\ p.heard}
Stopped(id) == ops[id].aborted /\ Now(id).listens
Count(id, command, profile) ==
  Cardinality({b \in begun : b.op = id /\ b.command = command /\ b.of = profile})

\* What is left of an operation that has answered.
Answered(op, result, cut) ==
  [Absent EXCEPT !.kind = op.kind, !.of = op.of, !.result = result, !.cut = op.cut \/ cut]

\* The operation is over.  What still runs on the host is not heard any more.
Over(id, result, cut) ==
  /\ ops' = [ops EXCEPT ![id] = Answered(@, result, cut)]
  /\ processes' = {IF p.op = id THEN [p EXCEPT !.heard = FALSE] ELSE p : p \in processes}

------------------------------------------------------------------------------
(* The calls.                                                                *)

Start(id, kind, profile) ==
  /\ ops[id] = Absent
  /\ (kind = "run") = (profile # None)
  /\ ops' = [ops EXCEPT ![id] =
       [Absent EXCEPT !.kind = kind, !.of = profile, !.todo = Sessions(kind, profile)]]
  /\ UNCHANGED <<host, trusted, jobs, processes, begun, succeeded, faults>>

\* A session that listens ends at once, whatever it does; any other goes on.
Cancel(id) ==
  /\ Live(id) /\ ~ops[id].aborted
  /\ IF Now(id).listens /\ ops[id].link # "none"
     THEN Over(id, "cancelled", TRUE)
     ELSE ops' = [ops EXCEPT ![id].aborted = TRUE] /\ UNCHANGED processes
  /\ UNCHANGED <<host, trusted, jobs, begun, succeeded, faults>>

------------------------------------------------------------------------------
(* The transport.                                                            *)

Fault == faults < MaxFaults /\ faults' = faults + 1

Connect(id) ==
  /\ Live(id) /\ ops[id].link = "none"
  /\ IF Stopped(id) THEN Over(id, "cancelled", FALSE)
     ELSE ops' = [ops EXCEPT ![id].link = "connecting", ![id].tries = 1] /\ UNCHANGED processes
  /\ UNCHANGED <<host, trusted, jobs, begun, succeeded, faults>>

\* The key of the host is compared before anything is sent.
Handshake(id) ==
  /\ Live(id) /\ ops[id].link = "connecting"
  /\ IF trusted THEN ops' = [ops EXCEPT ![id].link = "ready"] /\ UNCHANGED processes
     ELSE Over(id, "failed", FALSE)
  /\ UNCHANGED <<host, trusted, jobs, begun, succeeded, faults>>

\* No answer before authentication: the only failure after which it is tried again.
Unanswered(id) ==
  /\ Live(id) /\ ops[id].link = "connecting" /\ Fault
  /\ IF ops[id].tries < Attempts
     THEN ops' = [ops EXCEPT ![id].link = "waiting", ![id].tries = @ + 1] /\ UNCHANGED processes
     ELSE Over(id, "failed", FALSE)
  /\ UNCHANGED <<host, trusted, jobs, begun, succeeded>>

\* From its first command.
Retry(id) ==
  /\ Live(id) /\ ops[id].link = "waiting"
  /\ ops' = [ops EXCEPT ![id].link = "connecting", ![id].todo[1].left = Now(id).commands]
  /\ UNCHANGED <<host, trusted, jobs, processes, begun, succeeded, faults>>

\* Variant: a connection that breaks is opened again whenever it broke.
LostAndRetried(id) ==
  /\ Live(id) /\ ops[id].link = "ready" /\ Fault
  /\ IF ops[id].tries < Attempts
     THEN /\ ops' = [ops EXCEPT ![id].link = "waiting", ![id].tries = @ + 1]
          /\ processes' = {IF p.op = id THEN [p EXCEPT !.heard = FALSE] ELSE p : p \in processes}
     ELSE Over(id, "failed", TRUE)
  /\ UNCHANGED <<host, trusted, jobs, begun, succeeded>>

\* Once authenticated a connection that breaks is not opened again.
Lost(id) ==
  /\ Live(id) /\ ops[id].link = "ready" /\ Fault
  /\ Over(id, "failed", TRUE)
  /\ UNCHANGED <<host, trusted, jobs, begun, succeeded>>

------------------------------------------------------------------------------
(* Commands.                                                                 *)

Command(id) == Head(Now(id).left)

Begin(id) ==
  /\ Live(id) /\ ops[id].link = "ready" /\ Pending(id) = {} /\ Now(id).left # <<>>
  /\ processes' = processes \cup
       {[op |-> id, command |-> Command(id), of |-> Now(id).of, heard |-> TRUE,
         n |-> Count(id, Command(id), Now(id).of)]}
  /\ begun' = IF Command(id) \in Changing
              THEN begun \cup {[op |-> id, command |-> Command(id), of |-> Now(id).of,
                                n |-> Count(id, Command(id), Now(id).of),
                                late |-> ops[id].aborted]}
              ELSE begun
  /\ UNCHANGED <<host, trusted, jobs, ops, succeeded, faults>>

\* What a command that exits with 0 has done.
Effect(p) ==
  /\ host' = CASE p.command = "bootstrap" -> WithRuntime(host)
               [] p.command = "play" -> [host EXCEPT !.services = @ \cup {p.of}]
               [] OTHER -> host
  /\ jobs' = CASE p.command = "mkdir" -> jobs \cup {<<p.op, p.of>>}
               [] p.command = "rm" -> jobs \ {<<p.op, p.of>>}
               [] OTHER -> jobs

\* When it can.
Succeeds(p) ==
  CASE p.command = "bootstrap" -> Installable(host) /\ (host.python \/ host.offered)
    [] p.command \in {"syntax", "play"} -> host.ansible /\ <<p.op, p.of>> \in jobs
    [] p.command = "check" -> p.of \in host.services
    [] OTHER -> TRUE

\* What is left of one that exits with another code, or is killed.
PartialEffect(p) ==
  /\ UNCHANGED jobs
  /\ \/ UNCHANGED host
     \/ p.command = "bootstrap" /\ Installable(host) /\ host' = WithPackages(host)
     \/ p.command = "play" /\ host' = [host EXCEPT !.services = @ \ {p.of}]

\* A run wants a host that is ready, and the first look of a repair one that is not blocked.
Refused(id) ==
  LET report == Report(host, Now(id).of)
  IN /\ Now(id).what = "preflight"
     /\ \/ ops[id].kind = "run" /\ report # "ready"
        \/ ops[id].kind = "repair" /\ Len(ops[id].todo) > 1 /\ report = "blocked"

\* A profile on Docker installs it first where the preflight did not find it.
Following(id) ==
  LET docker == <<Preflight(Docker), Job(Docker), PostCheck(Docker)>>
  IN IF Now(id).what = "preflight" /\ Now(id).of \in OnDocker /\ Docker \notin host.services
     THEN docker \o Tail(ops[id].todo)
     ELSE Tail(ops[id].todo)

\* The session is done, and with its last one the operation.
Done(op, rest, cut) ==
  IF rest = <<>> THEN Answered(op, "ok", cut)
  ELSE [op EXCEPT !.todo = rest, !.link = "none", !.cut = @ \/ cut]
Cleaning(op, failing) == [op EXCEPT !.todo[1].left = <<"rm">>, !.failing = failing]

\* The operation hears that its command succeeded, failed or is waited for no longer.
Heard(id, outcome) ==
  LET op == ops[id]
      session == Now(id)
      command == Head(session.left)
      left == Tail(session.left)
      failed == outcome = "late" \/ (outcome = "failure" /\ session.what # "status")
  IN CASE command = "rm" /\ op.failing -> Answered(op, "failed", outcome # "success")
       [] command = "rm" /\ ~op.failing -> Done(op, Following(id), outcome # "success")
       [] command # "rm" /\ session.what = "job" /\ command # "mkdir" /\ (failed \/ left = <<>>) ->
            Cleaning(op, failed)
       [] failed /\ (session.what # "job" \/ command = "mkdir") ->
            Answered(op, "failed", outcome = "late")
       [] ~failed /\ left # <<>> -> [op EXCEPT !.todo[1].left = left]
       [] OTHER -> IF Refused(id) THEN Answered(op, "failed", FALSE)
                   ELSE Done(op, Following(id), FALSE)

Ends(p, well) ==
  /\ processes' = processes \ {p}
  /\ IF well THEN Succeeds(p) /\ Effect(p)
             ELSE p.command # "rm" /\ PartialEffect(p)
  /\ succeeded' = IF well /\ p.command \in Proving THEN succeeded \cup {<<p.op, p.command, p.of>>} ELSE succeeded
  /\ ops' = IF p.heard THEN [ops EXCEPT ![p.op] = Heard(p.op, IF well THEN "success" ELSE "failure")] ELSE ops
  /\ UNCHANGED <<trusted, begun, faults>>

\* Its stream is closed; what it started may go on.
TimesOut(p) ==
  /\ p.heard /\ Fault
  /\ processes' = (processes \ {p}) \cup {[p EXCEPT !.heard = FALSE]}
  /\ ops' = [ops EXCEPT ![p.op] = Heard(p.op, "late")]
  /\ UNCHANGED <<host, trusted, jobs, begun, succeeded>>

------------------------------------------------------------------------------

\* Another server answers at the address, a port is taken, a service stops, a package
\* manager runs.
Elsewhere ==
  /\ Fault
  /\ \/ trusted /\ trusted' = FALSE /\ UNCHANGED host
     \/ /\ UNCHANGED trusted
        /\ \/ \E s \in Profiles : host' = [host EXCEPT !.services = @ \ {s}]
           \/ \E s \in Listening : host' = [host EXCEPT !.taken = @ \cup {s}]
           \/ host' = [host EXCEPT !.locked = ~@]
  /\ UNCHANGED <<jobs, processes, ops, begun, succeeded>>

RemoteInit(hosts) ==
  /\ host \in hosts /\ trusted = TRUE
  /\ jobs = {} /\ processes = {} /\ begun = {} /\ succeeded = {} /\ faults = 0
  /\ ops = [id \in Operations |-> Absent]

RemoteNext ==
  \/ \E id \in Operations :
       \/ \E kind \in {"run", "repair", "bootstrap", "service"} :
            \E profile \in Profiles \cup {None} : Start(id, kind, profile)
       \/ Cancel(id) \/ Connect(id) \/ Handshake(id) \/ Unanswered(id) \/ Retry(id)
       \/ Lost(id) \/ Begin(id)
  \/ \E p \in processes : TimesOut(p) \/ \E well \in BOOLEAN : Ends(p, well)
  \/ Elsewhere

------------------------------------------------------------------------------
(* Properties.                                                               *)

\* No command that changes the host is started twice for one operation, however often
\* its connection is tried: what was begun is not begun again by a retry.
NeverTwice == \A b \in begun : b.n = 0

\* Nothing that changes the host is started after its operation was cancelled, although
\* a preflight and a status do not listen to the signal.
NothingAfterCancel == \A b \in begun : ~b.late

\* A run that is reported to have succeeded ended its playbook and its check, which are of
\* the profile it was asked for, with that of Docker in between.
SuccessIsReal ==
  \A id \in Operations : ops[id].kind = "run" /\ ops[id].result = "ok" =>
    {<<id, "play", ops[id].of>>, <<id, "check", ops[id].of>>} \subseteq succeeded

\* The job's directory, with the variables in it, is left on the host only by an operation
\* that was cut off from it.
CleansUp ==
  \A job \in jobs : ops[job[1]].result # None => ops[job[1]].cut

\* A host that was prepared and is not blocked needs no more preparing, for no profile.
PreparedIsPrepared ==
  \A id \in Operations : ops[id].kind \in {"repair", "bootstrap"} /\ ops[id].result = "ok" =>
    \A profile \in Profiles \cup {None} : Report(host, profile) # "needs-repair"

RunsAreExact ==
  NeverTwice /\ NothingAfterCancel /\ SuccessIsReal /\ CleansUp /\ PreparedIsPrepared
==============================================================================
