--------------------------- MODULE WorkspaceSession ---------------------------
(***************************************************************************)
(* The workspace session of the main process: the session service, the IPC *)
(* gate, the operation registry and the two background schedulers, all     *)
(* sharing one project context.                                            *)
(*                                                                         *)
(* JavaScript runs one continuation at a time, so an action here is what a *)
(* handler does between two awaits.  Transitions (unlock, lock, delete,    *)
(* passkey change) are executed one at a time, in arrival order; requests  *)
(* and background runs interleave with them at every await.                *)
(***************************************************************************)
EXTENDS ProjectContext, OperationRegistry, Sequences

CONSTANTS
  Requests,       \* slots for scoped IPC calls in flight
  Kinds,          \* the kinds of scoped calls a run lets the renderer make
  Streams,        \* stream ids the renderer passes to deploy:run
  SweepSlots,     \* slots for invocations of runScheduledSslRenewal
  SyncSlots,      \* slots for Cloudflare synchronizations
  NoRequest,      \* caller of a transition that no scoped call awaits
  MaxQueue,       \* bound: transitions waiting behind the running one
  MaxGeneration,  \* bound: no unlock is asked for from this generation on
  Disturbances    \* the faults and races the environment may inject

AllKinds == {"update", "terminal", "key", "deploy", "passkey", "synchronize"}

AllDisturbances ==
  { "lateRegistration",  \* work is registered while a teardown is under way
    "recoveryFails",     \* afterActivate() throws: recoverInterrupted() failed
    "targetUnresolved",  \* resolveSshTarget() throws in deploy:run
    "cleanupFails" }     \* key files of a crashed process cannot be removed

ASSUME SessionAssumption ==
  /\ Kinds \subseteq AllKinds
  /\ Disturbances \subseteq AllDisturbances
  /\ NoRequest \notin Requests
  /\ MaxQueue \in Nat
  /\ MaxGeneration \in Nat

VARIABLES
  stored,              \* project rows in the database
  queue,               \* transitions chained behind the running one
  running,             \* the transition being executed
  phase,               \* the await it is at
  prior,               \* the lease it is closing
  request,             \* scoped IPC calls
  sweep,               \* invocations of the SSL renewal scheduler
  sync,                \* Cloudflare synchronizations
  sslRenewalRunning,
  cloudflareSyncRunning,
  cloudflareSnapshot,  \* whose zones the cached snapshot holds
  terminals,           \* projects with an open SSH terminal
  keyFiles             \* projects with materialized key files

serviceVars == <<queue, running, phase, prior>>
runnerVars  == <<sweep, sync, sslRenewalRunning, cloudflareSyncRunning>>
resourceVars == <<cloudflareSnapshot, terminals, keyFiles>>
vars == <<contextVars, registryVars, stored, serviceVars, request, runnerVars,
          resourceVars>>

------------------------------------------------------------------------------
(* Types. *)

LeaseOrNone == Leases \cup {NoLease}

CallKinds == {"unlock", "lock", "delete", "passkey"}
Calls  == [kind : CallKinds, project : Projects,
           caller : Requests \cup {NoRequest}]
NoCall == [kind |-> "none", project |-> NoProject, caller |-> NoRequest]

Teardown == {"draining", "closing", "clearing"}
Phases == Teardown \cup
  {"idle", "starting", "preparing", "saving", "recovering", "synchronizing",
   "deleting", "rekeying"}

IpcKey(r)    == <<"ipc", r>>
DeployKey(s) == <<"deploy", s>>
SslKey(l)    == <<"ssl-renewal", l.generation>>
SyncKey(l)   == <<"cloudflare-sync", l.generation>>

Keys == ({"ipc"} \X Requests) \cup ({"deploy"} \X Streams)
          \cup ({"ssl-renewal", "cloudflare-sync"} \X Nat)

OperationSet == [key : Keys, project : Projects, abortable : BOOLEAN]

NoStream == "none"
IdleRequest == [kind |-> "none", stage |-> "idle", lease |-> NoLease,
                stream |-> NoStream]
IdleSweep == [stage |-> "idle", lease |-> NoLease]
IdleSync  == [stage |-> "idle", lease |-> NoLease, caller |-> "none"]

SyncCallers == {"none", "timer", "activation"} \cup Requests

RequestSet ==
  [kind : AllKinds \cup {"none"},
   stage : {"idle", "running", "loaded", "resolving", "queued", "answered"},
   lease : LeaseOrNone,
   stream : Streams \cup {NoStream}]
SweepSet == [stage : {"idle", "loading", "sweeping"}, lease : LeaseOrNone]
SyncSet  == [stage : {"idle", "loading", "reading"}, lease : LeaseOrNone,
             caller : SyncCallers]

\* Sessions, registrations, awaits and resources are of the kinds the code
\* gives them; every lease is one the context could have issued.
TypeOK ==
  /\ ContextTypeOK
  /\ operations \subseteq OperationSet
  /\ awaited \subseteq Keys
  /\ stored \subseteq Projects
  /\ queue \in Seq(Calls)
  /\ running \in Calls \cup {NoCall}
  /\ phase \in Phases
  /\ prior \in LeaseOrNone
  /\ request \in [Requests -> RequestSet]
  /\ sweep \in [SweepSlots -> SweepSet]
  /\ sync \in [SyncSlots -> SyncSet]
  /\ sslRenewalRunning \in BOOLEAN
  /\ cloudflareSyncRunning \in BOOLEAN
  /\ cloudflareSnapshot \in Projects \cup {NoProject}
  /\ terminals \subseteq Projects
  /\ keyFiles \subseteq Projects

Init ==
  /\ ContextInit
  /\ RegistryInit
  /\ stored = Projects
  /\ queue = <<>> /\ running = NoCall /\ phase = "idle" /\ prior = NoLease
  /\ request = [r \in Requests |-> IdleRequest]
  /\ sweep = [s \in SweepSlots |-> IdleSweep]
  /\ sync = [c \in SyncSlots |-> IdleSync]
  /\ sslRenewalRunning = FALSE /\ cloudflareSyncRunning = FALSE
  /\ cloudflareSnapshot = NoProject
  /\ terminals = {} /\ keyFiles = {}

\* Whether work may be registered now: nothing in the code forbids it during a
\* teardown, so only an environment without "lateRegistration" does.
MayRegister == phase \notin Teardown \/ "lateRegistration" \in Disturbances

------------------------------------------------------------------------------
(* Transitions asked for by the renderer.  projects:unlock needs no session; *)
(* projects:lock and projects:delete are scoped but hold no request lease.   *)

Ask(kind, p) ==
  /\ Len(queue) < MaxQueue
  /\ queue' = Append(queue, [kind |-> kind, project |-> p, caller |-> NoRequest])
  /\ UNCHANGED <<contextVars, registryVars, stored, running, phase, prior,
                 request, runnerVars, resourceVars>>

AskUnlock(p) == generation < MaxGeneration /\ Ask("unlock", p)
AskLock      == IsOpen /\ Ask("lock", active.project)
AskDelete    == IsOpen /\ Ask("delete", active.project)

------------------------------------------------------------------------------
(* The running transition. *)

\* The chained operation starts once the one before it has settled.
Dequeue ==
  /\ phase = "idle" /\ queue # <<>>
  /\ running' = Head(queue) /\ queue' = Tail(queue)
  /\ phase' = "starting" /\ prior' = active
  /\ UNCHANGED <<contextVars, registryVars, stored, request, runnerVars,
                 resourceVars>>

\* Variant: the promise of the exclusive operation is never settled.
SettleSilently ==
  /\ phase' = "idle" /\ running' = NoCall /\ prior' = NoLease
  /\ UNCHANGED <<queue, request>>

\* The transition's promise settles; the scoped call awaiting it goes on.
Settle ==
  /\ phase' = "idle" /\ running' = NoCall /\ prior' = NoLease
  /\ request' = [r \in Requests |->
       IF r = running.caller /\ request[r].stage = "queued"
         THEN [request[r] EXCEPT !.stage = "answered"]
         ELSE request[r]]
  /\ UNCHANGED queue

\* A result that changed nothing: project not found, passkey refused, a
\* failed check, nothing to lock, a failed save.
Reject ==
  /\ \/ phase = "starting" /\ (running.kind # "lock" \/ ~IsOpen)
     \/ phase \in {"preparing", "rekeying", "saving", "deleting"}
  /\ Settle
  /\ UNCHANGED <<contextVars, registryVars, stored, runnerVars, resourceVars>>

\* beforeDeactivate() up to its first await, or the refusal that ends it.
BeginTeardown ==
  /\ \/ /\ BlockersOf(prior.project) # {}
        /\ Settle
        /\ UNCHANGED registryVars
     \/ /\ AbortAndAwait(prior.project)
        /\ phase' = "draining"
        /\ UNCHANGED <<queue, running, prior, request>>
  /\ UNCHANGED <<contextVars, stored, runnerVars, resourceVars>>

\* Variant: the project row is not looked up again once the call's turn comes.
UnlockUnverified ==
  /\ phase = "starting" /\ running.kind = "unlock"
  /\ \/ IsOpen /\ BeginTeardown
     \/ /\ ~IsOpen
        /\ phase' = "saving"
        /\ UNCHANGED <<contextVars, registryVars, stored, queue, running, prior,
                       request, runnerVars, resourceVars>>

VerifiedUnlock ==
  /\ phase = "starting" /\ running.kind = "unlock"
  /\ running.project \in stored
  /\ \/ IsOpen /\ BeginTeardown
     \/ /\ ~IsOpen
        /\ phase' = "saving"
        /\ UNCHANGED <<contextVars, registryVars, stored, queue, running, prior,
                       request, runnerVars, resourceVars>>

StartLock ==
  /\ phase = "starting" /\ running.kind = "lock" /\ IsOpen
  /\ BeginTeardown

\* Variant: the row goes before the session is closed.
DeleteFirst ==
  /\ phase = "starting" /\ running.kind = "delete"
  /\ IsOpen /\ prior.project \in stored
  /\ stored' = stored \ {prior.project}
  /\ phase' = "preparing"
  /\ UNCHANGED <<contextVars, registryVars, queue, running, prior, request,
                 runnerVars, resourceVars>>

VerifiedDelete ==
  /\ phase = "starting" /\ running.kind = "delete"
  /\ IsOpen /\ prior.project \in stored
  /\ phase' = "preparing"
  /\ UNCHANGED <<contextVars, registryVars, stored, queue, running, prior,
                 request, runnerVars, resourceVars>>

\* Variant: the project is authorized when the call arrives, and not again.
PreparedAnyDelete ==
  /\ phase = "preparing"
  /\ BeginTeardown

\* prepare(): the session must still be the one the request named.
PreparedDelete ==
  /\ phase = "preparing"
  /\ prior.project = running.project
  /\ BeginTeardown

CloseTerminals ==
  /\ phase = "draining" /\ Drained
  /\ terminals' = {}
  /\ phase' = "closing"
  /\ UNCHANGED <<contextVars, registryVars, stored, queue, running, prior,
                 request, runnerVars, cloudflareSnapshot, keyFiles>>

\* Variant: the Cloudflare snapshot survives the teardown.
RemoveKeysOnly ==
  /\ phase = "closing"
  /\ keyFiles' = keyFiles \ {prior.project}
  /\ phase' = "clearing"
  /\ UNCHANGED <<contextVars, registryVars, stored, queue, running, prior,
                 request, runnerVars, terminals, cloudflareSnapshot>>

RemoveKeys ==
  /\ phase = "closing"
  /\ keyFiles' = keyFiles \ {prior.project}
  /\ cloudflareSnapshot' = NoProject
  /\ phase' = "clearing"
  /\ UNCHANGED <<contextVars, registryVars, stored, queue, running, prior,
                 request, runnerVars, terminals>>

\* The key directory cannot be removed: the session stays open.
RemoveKeysFails ==
  /\ phase = "closing"
  /\ Settle
  /\ UNCHANGED <<contextVars, registryVars, stored, runnerVars, resourceVars>>

\* Variant: a switch activates the next project over the open one.
CloseUnlessSwitching ==
  /\ phase = "clearing"
  /\ \/ running.kind = "lock" /\ Clear /\ Settle
     \/ /\ running.kind = "unlock" /\ phase' = "saving"
        /\ UNCHANGED <<contextVars, queue, running, prior, request>>
     \/ /\ running.kind = "delete" /\ Clear /\ phase' = "deleting"
        /\ UNCHANGED <<queue, running, prior, request>>
  /\ UNCHANGED <<registryVars, stored, runnerVars, resourceVars>>

CloseSession ==
  /\ phase = "clearing"
  /\ Clear
  /\ \/ running.kind = "lock" /\ Settle
     \/ /\ running.kind = "unlock" /\ phase' = "saving"
        /\ UNCHANGED <<queue, running, prior, request>>
     \/ /\ running.kind = "delete" /\ phase' = "deleting"
        /\ UNCHANGED <<queue, running, prior, request>>
  /\ UNCHANGED <<registryVars, stored, runnerVars, resourceVars>>

\* A scheduler invocation up to its first await, settingsService.get().
StartSweep(s, lease) ==
  /\ sweep[s].stage = "idle"
  /\ sweep' = [sweep EXCEPT ![s] = [stage |-> "loading", lease |-> lease]]
StartSync(c, lease) ==
  /\ sync[c].stage = "idle"
  /\ sync' = [sync EXCEPT ![c] =
                [stage |-> "loading", lease |-> lease, caller |-> "timer"]]

\* save(), then activate() and afterActivate() up to its first await: both
\* schedulers are started without being awaited.
SaveAndActivate ==
  /\ phase = "saving"
  /\ stored' = stored \cup {running.project}
  /\ Activate(running.project)
  /\ \/ /\ ~sslRenewalRunning /\ \E s \in SweepSlots : StartSweep(s, active')
     \/ sslRenewalRunning /\ UNCHANGED sweep
  /\ \/ /\ ~cloudflareSyncRunning /\ \E c \in SyncSlots : StartSync(c, active')
     \/ cloudflareSyncRunning /\ UNCHANGED sync
  /\ phase' = "recovering"
  /\ UNCHANGED <<registryVars, queue, running, prior, request,
                 sslRenewalRunning, cloudflareSyncRunning, resourceVars>>

\* synchronizeCloudflare() up to its first await, for the given caller.
BeginSync(c, lease, caller) ==
  /\ sync[c].stage = "idle"
  /\ sync' = [sync EXCEPT ![c] =
                [stage |-> "reading", lease |-> lease, caller |-> caller]]
  /\ cloudflareSyncRunning' = TRUE

Recovered ==
  /\ phase = "recovering"
  /\ phase' = "synchronizing"
  /\ \/ /\ ~cloudflareSyncRunning
        /\ \E c \in SyncSlots : BeginSync(c, active, "activation")
        /\ Begin({Operation(SyncKey(active), active.project, FALSE)})
     \/ /\ cloudflareSyncRunning
        /\ UNCHANGED <<registryVars, sync, cloudflareSyncRunning>>
  /\ UNCHANGED <<contextVars, stored, queue, running, prior, request, sweep,
                 sslRenewalRunning, resourceVars>>

\* afterActivate() throws: the context is cleared, nothing is deactivated.
RecoveryFails ==
  /\ "recoveryFails" \in Disturbances
  /\ phase = "recovering"
  /\ Clear
  /\ Settle
  /\ UNCHANGED <<registryVars, stored, runnerVars, resourceVars>>

Syncing(caller) ==
  \E c \in SyncSlots : sync[c].stage = "reading" /\ sync[c].caller = caller

FinishUnlock ==
  /\ phase = "synchronizing"
  /\ ~Syncing("activation")
  /\ Settle
  /\ UNCHANGED <<contextVars, registryVars, stored, runnerVars, resourceVars>>

DeleteProject ==
  /\ phase = "deleting" /\ running.project \in stored
  /\ stored' = stored \ {running.project}
  /\ Settle
  /\ UNCHANGED <<contextVars, registryVars, runnerVars, resourceVars>>

\* changePasskey/removePasskey: load, verify and hash, then save the row.
StartPasskey ==
  /\ phase = "starting" /\ running.kind = "passkey"
  /\ IsOpen /\ prior.project \in stored
  /\ phase' = "rekeying"
  /\ UNCHANGED <<contextVars, registryVars, stored, queue, running, prior,
                 request, runnerVars, resourceVars>>
SavePasskey ==
  /\ phase = "rekeying"
  /\ stored' = stored \cup {prior.project}
  /\ Settle
  /\ UNCHANGED <<contextVars, registryVars, runnerVars, resourceVars>>

Transition ==
  \/ Dequeue \/ Reject
  \/ VerifiedUnlock \/ StartLock \/ VerifiedDelete \/ PreparedDelete
  \/ CloseTerminals \/ RemoveKeys \/ RemoveKeysFails \/ CloseSession
  \/ SaveAndActivate \/ Recovered \/ RecoveryFails \/ FinishUnlock
  \/ DeleteProject \/ StartPasskey \/ SavePasskey

------------------------------------------------------------------------------
(* Scoped IPC calls: registerHandler() holds a non-abortable lease from the *)
(* boundary check to the answer.                                            *)

AcceptRequest(r, kind, stage, stream) ==
  /\ kind \in Kinds
  /\ request[r].stage = "idle"
  /\ IsOpen /\ MayRegister
  /\ request' = [request EXCEPT ![r] =
       [kind |-> kind, stage |-> stage, lease |-> active, stream |-> stream]]
  /\ UNCHANGED <<contextVars, stored, resourceVars, sweep, sslRenewalRunning>>

RequestOp(r) == Operation(IpcKey(r), active.project, FALSE)

StartRequest(r) ==
  /\ \E kind \in {"update", "terminal", "key"} :
       AcceptRequest(r, kind, "running", NoStream)
  /\ Begin({RequestOp(r)})
  /\ UNCHANGED <<serviceVars, sync, cloudflareSyncRunning>>

\* deploy:run takes its own lease before it resolves the SSH target.
StartDeploy(r, s) ==
  /\ AcceptRequest(r, "deploy", "resolving", s)
  /\ Begin({RequestOp(r), Operation(DeployKey(s), active.project, TRUE)})
  /\ UNCHANGED <<serviceVars, sync, cloudflareSyncRunning>>

StartPasskeyRequest(r) ==
  /\ AcceptRequest(r, "passkey", "queued", NoStream)
  /\ Begin({RequestOp(r)})
  /\ Len(queue) < MaxQueue
  /\ queue' = Append(queue, [kind |-> "passkey", project |-> active.project,
                             caller |-> r])
  /\ UNCHANGED <<running, phase, prior, sync, cloudflareSyncRunning>>

\* app:synchronize runs synchronizeActiveProject().
StartSynchronize(r) ==
  /\ AcceptRequest(r, "synchronize", "running", NoStream)
  /\ \/ /\ ~cloudflareSyncRunning
        /\ \E c \in SyncSlots : BeginSync(c, active, r)
        /\ Begin({RequestOp(r), Operation(SyncKey(active), active.project, FALSE)})
     \/ /\ cloudflareSyncRunning
        /\ Begin({RequestOp(r)})
        /\ UNCHANGED <<sync, cloudflareSyncRunning>>
  /\ UNCHANGED serviceVars

\* The answer, after which the registry no longer knows the given keys.
Answer(r, keys) ==
  /\ request' = [request EXCEPT ![r] = IdleRequest]
  /\ Complete(keys)
  /\ UNCHANGED <<contextVars, serviceVars, runnerVars>>

\* A call that ends, with or without an error, and leaves nothing behind.
EndRequest(r) ==
  /\ \/ request[r].stage = "answered"
     \/ request[r].stage = "running" /\ request[r].kind # "deploy" /\ ~Syncing(r)
     \/ request[r].stage = "loaded"
  /\ Answer(r, {IpcKey(r)})
  /\ UNCHANGED <<stored, resourceVars>>

LoadProject(r) ==
  /\ request[r].kind = "update" /\ request[r].stage = "running"
  /\ request[r].lease.project \in stored
  /\ request' = [request EXCEPT ![r].stage = "loaded"]
  /\ UNCHANGED <<contextVars, registryVars, stored, serviceVars, runnerVars,
                 resourceVars>>

\* PrismaProjectRepository.save() is an upsert.
SaveProject(r) ==
  /\ request[r].kind = "update" /\ request[r].stage = "loaded"
  /\ stored' = stored \cup {request[r].lease.project}
  /\ Answer(r, {IpcKey(r)})
  /\ UNCHANGED resourceVars

OpenTerminal(r) ==
  /\ request[r].kind = "terminal" /\ request[r].stage = "running"
  /\ terminals' = terminals \cup {request[r].lease.project}
  /\ Answer(r, {IpcKey(r)})
  /\ UNCHANGED <<stored, cloudflareSnapshot, keyFiles>>

MaterializeKey(r) ==
  /\ request[r].kind = "key" /\ request[r].stage = "running"
  /\ keyFiles' = keyFiles \cup {request[r].lease.project}
  /\ Answer(r, {IpcKey(r)})
  /\ UNCHANGED <<stored, cloudflareSnapshot, terminals>>

TargetResolved(r) ==
  /\ request[r].stage = "resolving"
  /\ request' = [request EXCEPT ![r].stage = "running"]
  /\ UNCHANGED <<contextVars, registryVars, stored, serviceVars, runnerVars,
                 resourceVars>>

\* resolveSshTarget() throws before the try block: the deploy lease leaks.
TargetUnresolved(r) ==
  /\ "targetUnresolved" \in Disturbances
  /\ request[r].stage = "resolving"
  /\ Answer(r, {IpcKey(r)})
  /\ UNCHANGED <<stored, resourceVars>>

EndDeploy(r) ==
  /\ request[r].kind = "deploy" /\ request[r].stage = "running"
  /\ Answer(r, {IpcKey(r), DeployKey(request[r].stream)})
  /\ UNCHANGED <<stored, resourceVars>>

RequestStep(r) ==
  \/ EndRequest(r) \/ LoadProject(r) \/ SaveProject(r) \/ OpenTerminal(r)
  \/ MaterializeKey(r) \/ TargetResolved(r) \/ TargetUnresolved(r) \/ EndDeploy(r)

NewRequest(r) ==
  \/ StartRequest(r) \/ (\E s \in Streams : StartDeploy(r, s))
  \/ StartPasskeyRequest(r) \/ StartSynchronize(r)

------------------------------------------------------------------------------
(* The schedulers. *)

TickSweep(s) ==
  /\ IsOpen /\ ~sslRenewalRunning
  /\ StartSweep(s, active)
  /\ UNCHANGED <<contextVars, registryVars, stored, serviceVars, request, sync,
                 sslRenewalRunning, cloudflareSyncRunning, resourceVars>>

EndSweepRun(s) == sweep' = [sweep EXCEPT ![s] = IdleSweep]

\* Settings unreadable, session gone, or the check not due yet.
SkipSweep(s) ==
  /\ sweep[s].stage = "loading"
  /\ EndSweepRun(s)
  /\ UNCHANGED <<contextVars, registryVars, stored, serviceVars, request, sync,
                 sslRenewalRunning, cloudflareSyncRunning, resourceVars>>

\* Variant: every sweep registers under a key of its own.
BeginSweepUnkeyed(s) ==
  /\ sweep[s].stage = "loading"
  /\ IsCurrent(sweep[s].lease) /\ MayRegister
  /\ sslRenewalRunning' = TRUE
  /\ operations' = operations \cup
       {Operation(SslKey(sweep[s].lease), sweep[s].lease.project, TRUE)}
  /\ sweep' = [sweep EXCEPT ![s].stage = "sweeping"]
  /\ UNCHANGED <<contextVars, awaited, stored, serviceVars, request, sync,
                 cloudflareSyncRunning, resourceVars>>

\* The flag is raised first; begin() throws when another run of this session
\* passed the same check.
BeginSweep(s) ==
  /\ sweep[s].stage = "loading"
  /\ IsCurrent(sweep[s].lease) /\ MayRegister
  /\ sslRenewalRunning' = TRUE
  /\ \/ /\ Registered(SslKey(sweep[s].lease))
        /\ EndSweepRun(s)
        /\ UNCHANGED registryVars
     \/ /\ Begin({Operation(SslKey(sweep[s].lease), sweep[s].lease.project, TRUE)})
        /\ sweep' = [sweep EXCEPT ![s].stage = "sweeping"]
  /\ UNCHANGED <<contextVars, stored, serviceVars, request, sync,
                 cloudflareSyncRunning, resourceVars>>

\* Variant: the finally block forgets operation.complete().
EndSweepUncompleted(s) ==
  /\ sweep[s].stage = "sweeping"
  /\ sslRenewalRunning' = FALSE
  /\ EndSweepRun(s)
  /\ UNCHANGED <<contextVars, registryVars, stored, serviceVars, request, sync,
                 cloudflareSyncRunning, resourceVars>>

EndSweep(s) ==
  /\ sweep[s].stage = "sweeping"
  /\ Complete({SslKey(sweep[s].lease)})
  /\ sslRenewalRunning' = FALSE
  /\ EndSweepRun(s)
  /\ UNCHANGED <<contextVars, stored, serviceVars, request, sync,
                 cloudflareSyncRunning, resourceVars>>

TickSync(c) ==
  /\ IsOpen /\ ~cloudflareSyncRunning
  /\ StartSync(c, active)
  /\ UNCHANGED <<contextVars, registryVars, stored, serviceVars, request, sweep,
                 sslRenewalRunning, cloudflareSyncRunning, resourceVars>>

SkipSync(c) ==
  /\ sync[c].stage = "loading"
  /\ sync' = [sync EXCEPT ![c] = IdleSync]
  /\ UNCHANGED <<contextVars, registryVars, stored, serviceVars, request, sweep,
                 sslRenewalRunning, cloudflareSyncRunning, resourceVars>>

BeginScheduledSync(c) ==
  /\ sync[c].stage = "loading"
  /\ IsCurrent(sync[c].lease) /\ ~cloudflareSyncRunning /\ MayRegister
  /\ Begin({Operation(SyncKey(active), active.project, FALSE)})
  /\ cloudflareSyncRunning' = TRUE
  /\ sync' = [sync EXCEPT ![c].stage = "reading"]
  /\ UNCHANGED <<contextVars, stored, serviceVars, request, sweep,
                 sslRenewalRunning, resourceVars>>

\* The zones are read; the snapshot is cached only for the session that asked.
EndSync(c) ==
  /\ sync[c].stage = "reading"
  /\ Complete({SyncKey(sync[c].lease)})
  /\ cloudflareSyncRunning' = FALSE
  /\ sync' = [sync EXCEPT ![c] = IdleSync]
  /\ \/ /\ IsCurrent(sync[c].lease)
        /\ cloudflareSnapshot' = sync[c].lease.project
     \/ UNCHANGED cloudflareSnapshot   \* automation off, or a request failed
  /\ UNCHANGED <<contextVars, stored, serviceVars, request, sweep,
                 sslRenewalRunning, terminals, keyFiles>>

SweepStep(s) == SkipSweep(s) \/ BeginSweep(s) \/ EndSweep(s)
SyncStep(c)  == SkipSync(c) \/ BeginScheduledSync(c) \/ EndSync(c)

------------------------------------------------------------------------------
\* The process exits and starts again: only rows and files remain, and the
\* files are removed at startup if the file system lets them be.
Restart ==
  /\ active' = NoLease /\ generation' = 0
  /\ operations' = {} /\ awaited' = {}
  /\ queue' = <<>> /\ running' = NoCall /\ phase' = "idle" /\ prior' = NoLease
  /\ request' = [r \in Requests |-> IdleRequest]
  /\ sweep' = [s \in SweepSlots |-> IdleSweep]
  /\ sync' = [c \in SyncSlots |-> IdleSync]
  /\ sslRenewalRunning' = FALSE /\ cloudflareSyncRunning' = FALSE
  /\ cloudflareSnapshot' = NoProject
  /\ terminals' = {}
  /\ \/ keyFiles' = {}
     \/ "cleanupFails" \in Disturbances /\ UNCHANGED keyFiles
  /\ UNCHANGED stored

Next ==
  \/ \E p \in Projects : AskUnlock(p)
  \/ AskLock \/ AskDelete
  \/ Transition
  \/ \E r \in Requests : NewRequest(r) \/ RequestStep(r)
  \/ \E s \in SweepSlots : TickSweep(s) \/ SweepStep(s)
  \/ \E c \in SyncSlots : TickSync(c) \/ SyncStep(c)
  \/ Restart

Spec == Init /\ [][Next]_vars

\* Every await settles: database calls, scrypt, HTTP and SSH calls with their
\* timeouts.  Nothing obliges the renderer or a timer to act.
Fairness ==
  /\ WF_vars(Transition)
  /\ \A r \in Requests : WF_vars(RequestStep(r))
  /\ \A s \in SweepSlots : WF_vars(SweepStep(s))
  /\ \A c \in SyncSlots : WF_vars(SyncStep(c))

FairSpec == Spec /\ Fairness

------------------------------------------------------------------------------
(* What each await of the running transition may rely on: who it works for,  *)
(* and whether the session it closes or opened is still the open one.        *)
PhaseInv ==
  /\ phase # "idle" => running \in Calls
  /\ phase \in Teardown \cup {"starting", "preparing", "rekeying"}
       => prior = active
  /\ phase \in Teardown \cup {"preparing", "rekeying", "recovering", "synchronizing"}
       => IsOpen
  /\ phase \in {"saving", "deleting"} => ~IsOpen
  /\ phase \in Teardown => running.kind \in {"unlock", "lock", "delete"}
  /\ phase \in {"saving", "recovering", "synchronizing"} => running.kind = "unlock"
  /\ phase \in {"preparing", "deleting"} => running.kind = "delete"
  /\ phase \in Teardown \cup {"deleting"} /\ running.kind = "delete"
       => prior.project = running.project

(* A lease is captured when work starts, from the session open then.         *)
LeaseInv ==
  /\ active.generation <= generation
  /\ \A r \in Requests : request[r].stage # "idle" => request[r].lease \in Leases
  /\ \A s \in SweepSlots : sweep[s].stage # "idle" =>
       sweep[s].lease \in Leases /\ sweep[s].lease.generation <= generation
  /\ \A c \in SyncSlots : sync[c].stage # "idle" =>
       sync[c].lease \in Leases /\ sync[c].lease.generation <= generation

(* Properties. *)

(* One sweep and one synchronization at a time, and the flags say exactly    *)
(* whether one is running - although the flag is tested before an await and  *)
(* set after it, and a second begin() may throw after the flag was raised.   *)
SingleFlight ==
  /\ \A s, t \in SweepSlots :
       sweep[s].stage = "sweeping" /\ sweep[t].stage = "sweeping" => s = t
  /\ sslRenewalRunning <=> \E s \in SweepSlots : sweep[s].stage = "sweeping"
  /\ \A c, d \in SyncSlots :
       sync[c].stage = "reading" /\ sync[d].stage = "reading" => c = d
  /\ cloudflareSyncRunning <=> \E c \in SyncSlots : sync[c].stage = "reading"

(* The open session is always one of an existing project: no transition ever *)
(* exposes a deleted or half-deleted project.                                *)
ActiveProjectStored == IsOpen => active.project \in stored

(* A lease that was invalidated never becomes current again in the life of   *)
(* the process, so a completion that checks isCurrent() after an await is    *)
(* never fooled by a session reopened on the same project.                   *)
Stale(run) == run.stage # "idle" /\ ~IsCurrent(run.lease)
StaleStaysStale ==
  [][/\ \A s \in SweepSlots :
          Stale(sweep[s]) /\ sweep'[s].lease = sweep[s].lease
            => ~IsCurrent(sweep[s].lease)'
     /\ \A c \in SyncSlots :
          Stale(sync[c]) /\ sync'[c].lease = sync[c].lease
            => ~IsCurrent(sync[c].lease)']_vars

(* A project row disappears only at the end of a deletion that closed the    *)
(* session of that very project: a deletion queued behind a switch must not  *)
(* delete under the authorization of the other project.                      *)
DeletesOwnSession ==
  [][\A p \in stored \ stored' :
       running.kind = "delete" /\ prior.project = p /\ ~IsOpen]_vars

(* No background task survives its project session: whatever is registered   *)
(* belongs to the open session.                                              *)
NoWorkSurvives == \A o \in operations : o.project = active.project

(* Switching leaves nothing behind: cached zones, terminals and key files    *)
(* are those of the open project.                                            *)
ResourcesBelong ==
  /\ cloudflareSnapshot \in {NoProject, active.project}
  /\ terminals \subseteq {active.project}
  /\ keyFiles \subseteq {active.project}

(* Together: nothing the process keeps for a project outlives its session.   *)
NothingOutlivesSession == NoWorkSurvives /\ ResourcesBelong

(* A deleted project stays deleted: no late upsert brings its row back.      *)
DeletedStaysDeleted == [][stored' \subseteq stored]_vars

(* The session implements the abstract workspace: "held" is everything the   *)
(* process keeps for a project, registered work included.                    *)
Held == {o.project : o \in operations} \cup terminals \cup keyFiles
          \cup ({cloudflareSnapshot} \ {NoProject})
Isolated == INSTANCE IsolatedWorkspace
  WITH open <- active.project, held <- Held
ImplementsIsolated == Isolated!Spec

(* Every transition is answered: the chain of exclusive operations never     *)
(* stops, and so does a passkey call queued in it.                           *)
TransitionsAnswered == (phase # "idle") ~> (phase = "idle")
RequestsAnswered ==
  \A r \in Requests : (request[r].stage # "idle") ~> (request[r].stage = "idle")
===============================================================================
