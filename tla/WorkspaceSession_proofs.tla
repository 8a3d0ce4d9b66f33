------------------------ MODULE WorkspaceSession_proofs ------------------------
(***************************************************************************)
(* Theorems about the workspace session, for any number of projects, calls *)
(* and scheduler runs.                                                     *)
(***************************************************************************)
EXTENDS WorkspaceSession, TLAPS

------------------------------------------------------------------------------
(* Type correctness. *)

(* Registering operations of the right type keeps the registry well typed.   *)
LEMMA BeginType ==
  ASSUME TypeOK, NEW new \in SUBSET OperationSet, Begin(new)
  PROVE  operations' \subseteq OperationSet /\ awaited' \subseteq Keys
BY DEF TypeOK, Begin

(* So does completing some.                                                  *)
LEMMA CompleteType ==
  ASSUME TypeOK, NEW keys, Complete(keys)
  PROVE  operations' \subseteq OperationSet /\ awaited' \subseteq Keys
BY DEF TypeOK, Complete

(* Answering a transition resets the service and marks its caller answered.  *)
LEMMA SettleType ==
  ASSUME TypeOK, Settle
  PROVE  /\ queue' \in Seq(Calls)
         /\ running' \in Calls \cup {NoCall}
         /\ phase' \in Phases
         /\ prior' \in LeaseOrNone
         /\ request' \in [Requests -> RequestSet]
<1>1. ASSUME NEW r \in Requests
      PROVE  [request[r] EXCEPT !.stage = "answered"] \in RequestSet
  BY DEF TypeOK, RequestSet
<1>2. request' \in [Requests -> RequestSet]
  BY <1>1 DEF TypeOK, Settle
<1>3. phase' = "idle" /\ running' = NoCall /\ prior' = NoLease /\ queue' = queue
  BY DEF Settle
<1>4. queue' \in Seq(Calls)
  BY <1>3 DEF TypeOK
<1>5. running' \in Calls \cup {NoCall}
  BY <1>3
<1>6. phase' \in Phases /\ prior' \in LeaseOrNone
  BY <1>3 DEF Phases, LeaseOrNone
<1>7. QED
  BY <1>2, <1>4, <1>5, <1>6

(* A synchronization that begins is well typed.                              *)
LEMMA BeginSyncType ==
  ASSUME TypeOK, NEW c \in SyncSlots, NEW lease \in Leases,
         NEW caller \in {"activation"} \cup Requests, BeginSync(c, lease, caller)
  PROVE  sync' \in [SyncSlots -> SyncSet] /\ cloudflareSyncRunning' \in BOOLEAN
<1>1. [stage |-> "reading", lease |-> lease, caller |-> caller] \in SyncSet
  BY DEF SyncSet, SyncCallers, LeaseOrNone
<1>2. QED
  BY <1>1 DEF BeginSync, TypeOK

(* The first state is well typed.                                           *)
LEMMA InitType == Init => TypeOK
<1>1. SUFFICES ASSUME Init PROVE TypeOK
  OBVIOUS
<1>2. IdleRequest \in RequestSet /\ IdleSweep \in SweepSet /\ IdleSync \in SyncSet
  BY DEF IdleRequest, IdleSweep, IdleSync, RequestSet, SweepSet, SyncSet,
         SyncCallers, LeaseOrNone
<1>3. /\ request \in [Requests -> RequestSet]
      /\ sweep \in [SweepSlots -> SweepSet]
      /\ sync \in [SyncSlots -> SyncSet]
  BY <1>1, <1>2 DEF Init
<1>4. ContextTypeOK /\ operations \subseteq OperationSet /\ awaited \subseteq Keys
  BY <1>1 DEF Init, ContextInit, RegistryInit, ContextTypeOK
<1>5. /\ queue \in Seq(Calls) /\ running \in Calls \cup {NoCall}
      /\ phase \in Phases /\ prior \in LeaseOrNone
  BY <1>1 DEF Init, Phases, LeaseOrNone
<1>6. QED
  BY <1>1, <1>3, <1>4, <1>5 DEF Init, TypeOK

(* Every operation the session registers has a key and a project of its own. *)
LEMMA OperationTypes ==
  ASSUME TypeOK, IsOpen
  PROVE  /\ active \in Leases
         /\ active.project \in Projects
         /\ \A r \in Requests : RequestOp(r) \in OperationSet
         /\ \A s \in Streams :
              Operation(DeployKey(s), active.project, TRUE) \in OperationSet
         /\ Operation(SyncKey(active), active.project, FALSE) \in OperationSet
         /\ Operation(SslKey(active), active.project, TRUE) \in OperationSet
BY DEF TypeOK, ContextTypeOK, IsOpen, Leases, NoLease, RequestOp, Operation,
       OperationSet, Keys, IpcKey, DeployKey, SslKey, SyncKey

(* Every action of the session keeps the types, one lemma per actor: asking. *)
LEMMA AskType ==
  ASSUME TypeOK, NEW p \in Projects, AskUnlock(p) \/ AskLock \/ AskDelete
  PROVE  TypeOK'
<1>1. ASSUME NEW kind \in {"unlock", "lock", "delete"}, NEW q \in Projects,
             Ask(kind, q)
      PROVE  TypeOK'
  <2>1. [kind |-> kind, project |-> q, caller |-> NoRequest] \in Calls
    BY DEF Calls, CallKinds
  <2>2. queue' \in Seq(Calls)
    BY <1>1, <2>1 DEF TypeOK, Ask
  <2>3. QED
    BY <1>1, <2>2 DEF TypeOK, Ask, ContextTypeOK, contextVars, registryVars,
       runnerVars, resourceVars
<1>2. IsOpen => active.project \in Projects
  BY OperationTypes
<1>3. QED
  BY <1>1, <1>2 DEF AskUnlock, AskLock, AskDelete

(* The steps of a transition.                                                *)
LEMMA TransitionType ==
  ASSUME TypeOK, PhaseInv, Transition
  PROVE  TypeOK'
<1> USE DEF TypeOK, contextVars, registryVars, serviceVars, runnerVars,
        resourceVars
<1>1. CASE Dequeue
  <2>1. Head(queue) \in Calls /\ Tail(queue) \in Seq(Calls)
    BY <1>1 DEF Dequeue
  <2>2. phase' \in Phases /\ prior' \in LeaseOrNone
    BY <1>1 DEF Dequeue, Phases, LeaseOrNone, ContextTypeOK
  <2>3. QED
    BY <1>1, <2>1, <2>2 DEF Dequeue, ContextTypeOK
<1>2. CASE Reject
  BY <1>2, SettleType DEF Reject, ContextTypeOK
<1>3. ASSUME BeginTeardown PROVE TypeOK'
  <2>1. CASE Settle /\ UNCHANGED registryVars
    BY <1>3, <2>1, SettleType DEF BeginTeardown, ContextTypeOK
  <2>2. CASE /\ AbortAndAwait(prior.project)
             /\ phase' = "draining"
             /\ UNCHANGED <<queue, running, prior, request>>
    <3>1. awaited' \subseteq Keys /\ operations' \subseteq OperationSet
      BY <2>2 DEF AbortAndAwait, OperationsOf, OperationSet
    <3>2. phase' \in Phases
      BY <2>2 DEF Phases, Teardown
    <3>3. QED
      BY <1>3, <2>2, <3>1, <3>2 DEF BeginTeardown, ContextTypeOK
  <2>3. QED
    BY <1>3, <2>1, <2>2 DEF BeginTeardown
<1>4. CASE VerifiedUnlock
  BY <1>3, <1>4 DEF VerifiedUnlock, Phases, ContextTypeOK
<1>5. CASE StartLock
  BY <1>3, <1>5 DEF StartLock
<1>6. CASE VerifiedDelete
  BY <1>6 DEF VerifiedDelete, Phases, ContextTypeOK
<1>7. CASE PreparedDelete
  BY <1>3, <1>7 DEF PreparedDelete
<1>8. CASE CloseTerminals
  BY <1>8 DEF CloseTerminals, Phases, Teardown, ContextTypeOK
<1>9. CASE RemoveKeys
  BY <1>9 DEF RemoveKeys, Phases, Teardown, ContextTypeOK
<1>10. CASE RemoveKeysFails
  BY <1>10, SettleType DEF RemoveKeysFails, ContextTypeOK
<1>11. CASE CloseSession
  <2>1. ContextTypeOK'
    BY <1>11 DEF CloseSession, Clear, ContextTypeOK
  <2>2. /\ queue' \in Seq(Calls) /\ running' \in Calls \cup {NoCall}
        /\ phase' \in Phases /\ prior' \in LeaseOrNone
        /\ request' \in [Requests -> RequestSet]
    BY <1>11, SettleType DEF CloseSession, Phases
  <2>3. QED
    BY <1>11, <2>1, <2>2 DEF CloseSession
<1>12. CASE SaveAndActivate
  <2>1. running.project \in Projects
    BY <1>12 DEF SaveAndActivate, PhaseInv, Calls
  <2>2. ContextTypeOK' /\ active' \in Leases
    BY <1>12, <2>1 DEF SaveAndActivate, Activate, ContextTypeOK, Leases
  <2>3. sweep' \in [SweepSlots -> SweepSet]
    BY <1>12, <2>2 DEF SaveAndActivate, StartSweep, SweepSet, LeaseOrNone
  <2>4. sync' \in [SyncSlots -> SyncSet]
    BY <1>12, <2>2 DEF SaveAndActivate, StartSync, SyncSet, LeaseOrNone,
       SyncCallers
  <2>5. QED
    BY <1>12, <2>1, <2>2, <2>3, <2>4 DEF SaveAndActivate, Phases
<1>13. CASE Recovered
  <2>1. /\ active \in Leases
        /\ Operation(SyncKey(active), active.project, FALSE) \in OperationSet
    BY <1>13, OperationTypes DEF Recovered, PhaseInv
  <2>2. /\ sync' \in [SyncSlots -> SyncSet]
        /\ cloudflareSyncRunning' \in BOOLEAN
    BY <1>13, <2>1, BeginSyncType DEF Recovered
  <2>3. operations' \subseteq OperationSet /\ awaited' \subseteq Keys
    BY <1>13, <2>1, BeginType DEF Recovered
  <2>4. QED
    BY <1>13, <2>2, <2>3 DEF Recovered, Phases, ContextTypeOK
<1>14. CASE RecoveryFails
  <2>1. ContextTypeOK'
    BY <1>14 DEF RecoveryFails, Clear, ContextTypeOK
  <2>2. QED
    BY <1>14, <2>1, SettleType DEF RecoveryFails
<1>15. CASE FinishUnlock
  BY <1>15, SettleType DEF FinishUnlock, ContextTypeOK
<1>16. CASE DeleteProject
  BY <1>16, SettleType DEF DeleteProject, ContextTypeOK
<1>17. CASE StartPasskey
  BY <1>17 DEF StartPasskey, Phases, ContextTypeOK
<1>18. CASE SavePasskey
  BY <1>18, SettleType, OperationTypes DEF SavePasskey, PhaseInv, ContextTypeOK
<1>19. QED
  BY <1>1, <1>2, <1>4, <1>5, <1>6, <1>7, <1>8, <1>9, <1>10, <1>11, <1>12,
     <1>13, <1>14, <1>15, <1>16, <1>17, <1>18 DEF Transition

(* Scoped calls.                                                             *)
LEMMA RequestType ==
  ASSUME TypeOK, LeaseInv, NEW r \in Requests, NewRequest(r) \/ RequestStep(r)
  PROVE  TypeOK'
<1> USE DEF TypeOK, contextVars, registryVars, serviceVars, runnerVars,
        resourceVars
<1>1. ASSUME NEW kind \in AllKinds, NEW stream \in Streams \cup {NoStream},
             NEW stage \in {"running", "resolving", "queued"},
             AcceptRequest(r, kind, stage, stream)
      PROVE  /\ request' \in [Requests -> RequestSet]
             /\ IsOpen
             /\ UNCHANGED <<contextVars, stored, resourceVars, sweep,
                            sslRenewalRunning>>
  BY <1>1 DEF AcceptRequest, RequestSet, LeaseOrNone, ContextTypeOK
<1>2. CASE StartRequest(r)
  <2>1. /\ request' \in [Requests -> RequestSet]
        /\ IsOpen
        /\ UNCHANGED <<contextVars, stored, resourceVars, sweep,
                       sslRenewalRunning>>
    BY <1>1, <1>2 DEF StartRequest, AllKinds
  <2>2. operations' \subseteq OperationSet /\ awaited' \subseteq Keys
    BY <1>2, <2>1, OperationTypes, BeginType DEF StartRequest
  <2>3. QED
    BY <1>2, <2>1, <2>2 DEF StartRequest, ContextTypeOK
<1>3. ASSUME NEW s \in Streams, StartDeploy(r, s) PROVE TypeOK'
  <2>1. /\ request' \in [Requests -> RequestSet]
        /\ IsOpen
        /\ UNCHANGED <<contextVars, stored, resourceVars, sweep,
                       sslRenewalRunning>>
    BY <1>1, <1>3 DEF StartDeploy, AllKinds
  <2>2. operations' \subseteq OperationSet /\ awaited' \subseteq Keys
    BY <1>3, <2>1, OperationTypes, BeginType DEF StartDeploy
  <2>3. QED
    BY <1>3, <2>1, <2>2 DEF StartDeploy, ContextTypeOK
<1>4. CASE StartPasskeyRequest(r)
  <2>1. /\ request' \in [Requests -> RequestSet]
        /\ IsOpen
        /\ UNCHANGED <<contextVars, stored, resourceVars, sweep,
                       sslRenewalRunning>>
    BY <1>1, <1>4 DEF StartPasskeyRequest, AllKinds
  <2>2. operations' \subseteq OperationSet /\ awaited' \subseteq Keys
    BY <1>4, <2>1, OperationTypes, BeginType DEF StartPasskeyRequest
  <2>3. [kind |-> "passkey", project |-> active.project, caller |-> r] \in Calls
    BY <2>1, OperationTypes DEF Calls, CallKinds
  <2>4. queue' \in Seq(Calls)
    BY <1>4, <2>3 DEF StartPasskeyRequest
  <2>5. QED
    BY <1>4, <2>1, <2>2, <2>4 DEF StartPasskeyRequest, ContextTypeOK
<1>5. CASE StartSynchronize(r)
  <2>1. /\ request' \in [Requests -> RequestSet]
        /\ IsOpen
        /\ UNCHANGED <<contextVars, stored, resourceVars, sweep,
                       sslRenewalRunning>>
    BY <1>1, <1>5 DEF StartSynchronize, AllKinds
  <2>2. operations' \subseteq OperationSet /\ awaited' \subseteq Keys
    BY <1>5, <2>1, OperationTypes, BeginType DEF StartSynchronize
  <2>3. /\ sync' \in [SyncSlots -> SyncSet]
        /\ cloudflareSyncRunning' \in BOOLEAN
    BY <1>5, <2>1, OperationTypes, BeginSyncType DEF StartSynchronize
  <2>4. QED
    BY <1>5, <2>1, <2>2, <2>3 DEF StartSynchronize, ContextTypeOK
<1>6. ASSUME NEW keys, Answer(r, keys)
      PROVE  /\ request' \in [Requests -> RequestSet]
             /\ operations' \subseteq OperationSet /\ awaited' \subseteq Keys
             /\ UNCHANGED <<contextVars, serviceVars, runnerVars>>
  <2>1. IdleRequest \in RequestSet
    BY DEF IdleRequest, RequestSet, LeaseOrNone
  <2>2. QED
    BY <1>6, <2>1, CompleteType DEF Answer
<1>7. request[r].stage # "idle" => request[r].lease.project \in Projects
  BY DEF LeaseInv, Leases
<1>8. CASE EndRequest(r)
  BY <1>6, <1>8 DEF EndRequest, ContextTypeOK
<1>9. CASE LoadProject(r)
  BY <1>9 DEF LoadProject, RequestSet, ContextTypeOK
<1>10. CASE TargetResolved(r)
  BY <1>10 DEF TargetResolved, RequestSet, ContextTypeOK
<1>11. CASE TargetUnresolved(r)
  BY <1>6, <1>11 DEF TargetUnresolved, ContextTypeOK
<1>12. CASE EndDeploy(r)
  BY <1>6, <1>12 DEF EndDeploy, ContextTypeOK
<1>13. CASE SaveProject(r)
  BY <1>6, <1>7, <1>13 DEF SaveProject, ContextTypeOK
<1>14. CASE OpenTerminal(r)
  BY <1>6, <1>7, <1>14 DEF OpenTerminal, ContextTypeOK
<1>15. CASE MaterializeKey(r)
  BY <1>6, <1>7, <1>15 DEF MaterializeKey, ContextTypeOK
<1>16. QED
  BY <1>2, <1>3, <1>4, <1>5, <1>8, <1>9, <1>10, <1>11, <1>12, <1>13, <1>14,
     <1>15 DEF NewRequest, RequestStep

(* The schedulers.                                                           *)
LEMMA RunnerType ==
  ASSUME TypeOK, LeaseInv,
         \/ \E s \in SweepSlots : TickSweep(s) \/ SweepStep(s)
         \/ \E c \in SyncSlots : TickSync(c) \/ SyncStep(c)
  PROVE  TypeOK'
<1> USE DEF TypeOK, contextVars, registryVars, serviceVars, resourceVars
<1>1. IdleSweep \in SweepSet /\ IdleSync \in SyncSet
  BY DEF IdleSweep, IdleSync, SweepSet, SyncSet, SyncCallers, LeaseOrNone
<1>2. ASSUME NEW s \in SweepSlots, TickSweep(s) PROVE TypeOK'
  BY <1>2 DEF TickSweep, StartSweep, SweepSet, LeaseOrNone, ContextTypeOK
<1>3. ASSUME NEW s \in SweepSlots, SkipSweep(s) PROVE TypeOK'
  BY <1>1, <1>3 DEF SkipSweep, EndSweepRun, ContextTypeOK
<1>4. ASSUME NEW s \in SweepSlots, BeginSweep(s) PROVE TypeOK'
  <2>1. Operation(SslKey(sweep[s].lease), sweep[s].lease.project, TRUE)
          \in OperationSet
    BY <1>4 DEF BeginSweep, LeaseInv, Leases, Operation, OperationSet, Keys, SslKey
  <2>2. operations' \subseteq OperationSet /\ awaited' \subseteq Keys
    BY <1>4, <2>1, BeginType DEF BeginSweep
  <2>3. sweep' \in [SweepSlots -> SweepSet]
    BY <1>1, <1>4 DEF BeginSweep, EndSweepRun, SweepSet
  <2>4. QED
    BY <1>4, <2>2, <2>3 DEF BeginSweep, ContextTypeOK
<1>5. ASSUME NEW s \in SweepSlots, EndSweep(s) PROVE TypeOK'
  <2>1. operations' \subseteq OperationSet /\ awaited' \subseteq Keys
    BY <1>5, CompleteType DEF EndSweep
  <2>2. QED
    BY <1>1, <1>5, <2>1 DEF EndSweep, EndSweepRun, ContextTypeOK
<1>6. ASSUME NEW c \in SyncSlots, TickSync(c) PROVE TypeOK'
  BY <1>6 DEF TickSync, StartSync, SyncSet, SyncCallers, LeaseOrNone, ContextTypeOK
<1>7. ASSUME NEW c \in SyncSlots, SkipSync(c) PROVE TypeOK'
  BY <1>1, <1>7 DEF SkipSync, ContextTypeOK
<1>8. ASSUME NEW c \in SyncSlots, BeginScheduledSync(c) PROVE TypeOK'
  <2>1. operations' \subseteq OperationSet /\ awaited' \subseteq Keys
    BY <1>8, OperationTypes, BeginType DEF BeginScheduledSync, IsCurrent
  <2>2. sync' \in [SyncSlots -> SyncSet]
    BY <1>8 DEF BeginScheduledSync, SyncSet
  <2>3. QED
    BY <1>8, <2>1, <2>2 DEF BeginScheduledSync, ContextTypeOK
<1>9. ASSUME NEW c \in SyncSlots, EndSync(c) PROVE TypeOK'
  <2>1. operations' \subseteq OperationSet /\ awaited' \subseteq Keys
    BY <1>9, CompleteType DEF EndSync
  <2>2. cloudflareSnapshot' \in Projects \cup {NoProject}
    BY <1>9 DEF EndSync, LeaseInv, Leases
  <2>3. QED
    BY <1>1, <1>9, <2>1, <2>2 DEF EndSync, ContextTypeOK
<1>10. QED
  BY <1>2, <1>3, <1>4, <1>5, <1>6, <1>7, <1>8, <1>9 DEF SweepStep, SyncStep

(* A restart.                                                                *)
LEMMA RestartType ==
  ASSUME TypeOK, Restart
  PROVE  TypeOK'
<1>1. IdleRequest \in RequestSet /\ IdleSweep \in SweepSet /\ IdleSync \in SyncSet
  BY DEF IdleRequest, IdleSweep, IdleSync, RequestSet, SweepSet, SyncSet,
         SyncCallers, LeaseOrNone
<1>2. /\ request' \in [Requests -> RequestSet]
      /\ sweep' \in [SweepSlots -> SweepSet]
      /\ sync' \in [SyncSlots -> SyncSet]
  BY <1>1 DEF Restart
<1>3. ContextTypeOK' /\ operations' \subseteq OperationSet /\ awaited' \subseteq Keys
  BY DEF Restart, ContextTypeOK
<1>4. /\ queue' \in Seq(Calls) /\ running' \in Calls \cup {NoCall}
      /\ phase' \in Phases /\ prior' \in LeaseOrNone
  BY DEF Restart, Phases, LeaseOrNone
<1>5. QED
  BY <1>2, <1>3, <1>4 DEF Restart, TypeOK

------------------------------------------------------------------------------
(* The two auxiliary invariants: what a phase may rely on, and that leases   *)
(* come from the past.                                                       *)

(* Both hold of the first state.                                             *)
LEMMA InitAux == Init => PhaseInv /\ LeaseInv
BY ContextAssumption
DEF Init, ContextInit, PhaseInv, LeaseInv, NoLease, Teardown,
    IdleRequest, IdleSweep, IdleSync

(* Only transitions and a restart touch what PhaseInv speaks of.             *)
LEMMA PhaseFrame ==
  ASSUME PhaseInv, UNCHANGED <<phase, running, prior, active>>
  PROVE  PhaseInv'
BY DEF PhaseInv, IsOpen

(* An idle service relies on nothing.                                        *)
LEMMA IdlePhase ==
  ASSUME phase' = "idle"
  PROVE  PhaseInv'
BY DEF PhaseInv, Teardown

(* Every step of a transition leaves what the next one relies on.            *)
LEMMA TransitionPhase ==
  ASSUME TypeOK, PhaseInv, Transition
  PROVE  PhaseInv'
<1> USE DEF contextVars
<1>0. ASSUME Settle PROVE PhaseInv'
  BY <1>0, IdlePhase DEF Settle
<1>1. CASE Dequeue
  <2>1. Head(queue) \in Calls
    BY <1>1 DEF Dequeue, TypeOK
  <2>2. QED
    BY <1>1, <2>1 DEF Dequeue, PhaseInv, Teardown, IsOpen
<1>2. CASE Reject
  BY <1>0, <1>2 DEF Reject
<1>3. ASSUME BeginTeardown, IsOpen, phase \in {"starting", "preparing"},
             running.kind \in {"unlock", "lock", "delete"},
             running.kind = "delete" => prior.project = running.project
      PROVE  PhaseInv'
  <2>1. CASE Settle
    BY <1>0, <2>1
  <2>2. CASE phase' = "draining" /\ UNCHANGED <<queue, running, prior, request>>
    BY <1>3, <2>2 DEF BeginTeardown, PhaseInv, Teardown, IsOpen
  <2>3. QED
    BY <1>3, <2>1, <2>2 DEF BeginTeardown
<1>4. CASE VerifiedUnlock
  <2>1. CASE IsOpen /\ BeginTeardown
    BY <1>3, <1>4, <2>1 DEF VerifiedUnlock
  <2>2. CASE ~IsOpen /\ phase' = "saving" /\ UNCHANGED <<running, prior, active>>
    BY <1>4, <2>2 DEF VerifiedUnlock, PhaseInv, Teardown, IsOpen
  <2>3. QED
    BY <1>4, <2>1, <2>2 DEF VerifiedUnlock
<1>5. CASE StartLock
  BY <1>3, <1>5 DEF StartLock
<1>6. CASE VerifiedDelete
  BY <1>6 DEF VerifiedDelete, PhaseInv, Teardown, IsOpen
<1>7. CASE PreparedDelete
  BY <1>3, <1>7 DEF PreparedDelete, PhaseInv
<1>8. CASE CloseTerminals
  BY <1>8 DEF CloseTerminals, PhaseInv, Teardown, IsOpen
<1>9. CASE RemoveKeys
  BY <1>9 DEF RemoveKeys, PhaseInv, Teardown, IsOpen
<1>10. CASE RemoveKeysFails
  BY <1>0, <1>10 DEF RemoveKeysFails
<1>11. CASE CloseSession
  <2>1. CASE Settle
    BY <1>0, <2>1
  <2>2. CASE /\ \/ running.kind = "unlock" /\ phase' = "saving"
                \/ running.kind = "delete" /\ phase' = "deleting"
             /\ UNCHANGED <<queue, running, prior, request>>
    BY <1>11, <2>2 DEF CloseSession, Clear, PhaseInv, Teardown, IsOpen
  <2>3. QED
    BY <1>11, <2>1, <2>2 DEF CloseSession
<1>12. CASE SaveAndActivate
  <2>1. running.project \in Projects
    BY <1>12 DEF SaveAndActivate, PhaseInv, Calls
  <2>2. active' # NoLease
    BY <1>12, <2>1, ContextAssumption DEF SaveAndActivate, Activate, NoLease
  <2>3. QED
    BY <1>12, <2>2 DEF SaveAndActivate, PhaseInv, Teardown, IsOpen
<1>13. CASE Recovered
  BY <1>13 DEF Recovered, PhaseInv, Teardown, IsOpen
<1>14. CASE RecoveryFails
  BY <1>0, <1>14 DEF RecoveryFails
<1>15. CASE FinishUnlock
  BY <1>0, <1>15 DEF FinishUnlock
<1>16. CASE DeleteProject
  BY <1>0, <1>16 DEF DeleteProject
<1>17. CASE StartPasskey
  BY <1>17 DEF StartPasskey, PhaseInv, Teardown, IsOpen
<1>18. CASE SavePasskey
  BY <1>0, <1>18 DEF SavePasskey
<1>19. QED
  BY <1>1, <1>2, <1>4, <1>5, <1>6, <1>7, <1>8, <1>9, <1>10, <1>11, <1>12,
     <1>13, <1>14, <1>15, <1>16, <1>17, <1>18 DEF Transition

(* And no other step takes it away.                                          *)
LEMMA NextPhase ==
  ASSUME TypeOK, PhaseInv, [Next]_vars
  PROVE  PhaseInv'
<1> USE DEF contextVars, serviceVars, vars
<1>1. CASE \/ \E p \in Projects : AskUnlock(p)
           \/ AskLock \/ AskDelete
  BY <1>1, PhaseFrame DEF AskUnlock, AskLock, AskDelete, Ask
<1>2. CASE Transition
  BY <1>2, TransitionPhase
<1>3. ASSUME NEW r \in Requests, NewRequest(r) PROVE PhaseInv'
  BY <1>3, PhaseFrame
  DEF NewRequest, StartRequest, StartDeploy, StartPasskeyRequest,
      StartSynchronize, AcceptRequest
<1>4. ASSUME NEW r \in Requests, RequestStep(r) PROVE PhaseInv'
  BY <1>4, PhaseFrame
  DEF RequestStep, EndRequest, LoadProject, SaveProject, OpenTerminal,
      MaterializeKey, TargetResolved, TargetUnresolved, EndDeploy, Answer
<1>5. ASSUME NEW s \in SweepSlots, TickSweep(s) \/ SweepStep(s) PROVE PhaseInv'
  BY <1>5, PhaseFrame DEF SweepStep, TickSweep, SkipSweep, BeginSweep, EndSweep
<1>6. ASSUME NEW c \in SyncSlots, TickSync(c) \/ SyncStep(c) PROVE PhaseInv'
  BY <1>6, PhaseFrame
  DEF SyncStep, TickSync, SkipSync, BeginScheduledSync, EndSync
<1>7. CASE Restart
  BY <1>7, IdlePhase DEF Restart
<1>8. CASE UNCHANGED vars
  BY <1>8, PhaseFrame
<1>9. QED
  BY <1>1, <1>2, <1>3, <1>4, <1>5, <1>6, <1>7, <1>8 DEF Next

(* Lease validity is kept by whatever leaves the leases alone, and by an     *)
(* answered transition.                                                      *)
LEMMA LeaseFrame ==
  ASSUME LeaseInv, active' = active \/ active' = NoLease,
         generation' \in Nat, generation \in Nat, generation' >= generation,
         TypeOK, UNCHANGED <<sweep, sync>>, request' = request \/ Settle
  PROVE  LeaseInv'
<1>1. \A r \in Requests : request'[r].stage # "idle" =>
        request[r].stage # "idle" /\ request'[r].lease = request[r].lease
  BY DEF Settle, TypeOK, RequestSet
<1>2. active'.generation <= generation'
  BY DEF LeaseInv, TypeOK, ContextTypeOK, NoLease, Leases
<1>3. QED
  BY <1>1, <1>2 DEF LeaseInv, TypeOK, ContextTypeOK, SweepSet, SyncSet, Leases

(* No action invents a lease: each is the session open when the work starts. *)
LEMMA TransitionLease ==
  ASSUME TypeOK, PhaseInv, LeaseInv, Transition
  PROVE  LeaseInv'
<1> USE DEF contextVars, serviceVars, runnerVars
<1>0. generation \in Nat
  BY DEF TypeOK, ContextTypeOK
<1>1. CASE SaveAndActivate
  <2>1. running.project \in Projects
    BY <1>1 DEF SaveAndActivate, PhaseInv, Calls
  <2>2. /\ active' \in Leases /\ active'.generation = generation'
        /\ generation' = generation + 1
    BY <1>0, <1>1, <2>1 DEF SaveAndActivate, Activate, Leases
  <2>3. \A s \in SweepSlots : sweep'[s].stage # "idle" =>
          \/ sweep'[s].lease = active'
          \/ sweep[s].stage # "idle" /\ sweep'[s] = sweep[s]
    BY <1>1 DEF SaveAndActivate, StartSweep, TypeOK, SweepSet
  <2>4. \A c \in SyncSlots : sync'[c].stage # "idle" =>
          \/ sync'[c].lease = active'
          \/ sync[c].stage # "idle" /\ sync'[c] = sync[c]
    BY <1>1 DEF SaveAndActivate, StartSync, TypeOK, SyncSet
  <2>5. QED
    BY <1>0, <1>1, <2>2, <2>3, <2>4 DEF SaveAndActivate, LeaseInv, Leases
<1>2. CASE Recovered
  <2>1. active \in Leases
    BY <1>2, OperationTypes DEF Recovered, PhaseInv
  <2>2. \A c \in SyncSlots : sync'[c].stage # "idle" =>
          \/ sync'[c].lease = active
          \/ sync[c].stage # "idle" /\ sync'[c] = sync[c]
    BY <1>2 DEF Recovered, BeginSync, TypeOK, SyncSet
  <2>3. QED
    BY <1>2, <2>1, <2>2 DEF Recovered, LeaseInv
<1>3. CASE CloseSession
  BY <1>0, <1>3, LeaseFrame DEF CloseSession, Clear
<1>4. CASE RecoveryFails
  BY <1>0, <1>4, LeaseFrame DEF RecoveryFails, Clear
<1>5. CASE Dequeue \/ Reject \/ VerifiedUnlock \/ StartLock
  BY <1>0, <1>5, LeaseFrame
  DEF Dequeue, Reject, VerifiedUnlock, StartLock, BeginTeardown
<1>6. CASE VerifiedDelete \/ PreparedDelete \/ CloseTerminals \/ RemoveKeys
  BY <1>0, <1>6, LeaseFrame
  DEF VerifiedDelete, PreparedDelete, BeginTeardown, CloseTerminals, RemoveKeys
<1>7. CASE RemoveKeysFails \/ FinishUnlock \/ DeleteProject
  BY <1>0, <1>7, LeaseFrame DEF RemoveKeysFails, FinishUnlock, DeleteProject
<1>8. CASE StartPasskey \/ SavePasskey
  BY <1>0, <1>8, LeaseFrame DEF StartPasskey, SavePasskey
<1>9. QED
  BY <1>1, <1>2, <1>3, <1>4, <1>5, <1>6, <1>7, <1>8 DEF Transition

(* Nor do requests and schedulers, and a restart forgets every lease.        *)
LEMMA NextLease ==
  ASSUME TypeOK, PhaseInv, LeaseInv, [Next]_vars
  PROVE  LeaseInv'
<1> USE DEF contextVars, serviceVars, runnerVars
<1>0. generation \in Nat
  BY DEF TypeOK, ContextTypeOK
<1>1. IsOpen => active \in Leases
  BY OperationTypes
<1>2. CASE Transition
  BY <1>2, TransitionLease
<1>3. CASE \/ \E p \in Projects : AskUnlock(p)
           \/ AskLock \/ AskDelete
           \/ UNCHANGED vars
  <2>1. UNCHANGED <<active, generation, request, sweep, sync>>
    BY <1>3 DEF AskUnlock, AskLock, AskDelete, Ask, vars
  <2>2. QED
    BY <1>0, <2>1, LeaseFrame
<1>4. ASSUME NEW r \in Requests, NewRequest(r) PROVE LeaseInv'
  <2>1. PICK kind, stage, stream : AcceptRequest(r, kind, stage, stream)
    BY <1>4 DEF NewRequest, StartRequest, StartDeploy, StartPasskeyRequest,
       StartSynchronize
  <2>2. /\ IsOpen /\ UNCHANGED <<active, generation, sweep>>
        /\ \A q \in Requests : request'[q].stage # "idle" =>
             request'[q].lease = active \/ request'[q] = request[q]
    BY <2>1 DEF AcceptRequest, TypeOK, RequestSet
  <2>3. sync' = sync \/ \E c \in SyncSlots : BeginSync(c, active, r)
    BY <1>4 DEF NewRequest, StartRequest, StartDeploy, StartPasskeyRequest,
       StartSynchronize
  <2>4. \A c \in SyncSlots : sync'[c].stage # "idle" =>
             sync'[c].lease = active \/ sync'[c] = sync[c]
    BY <2>3 DEF BeginSync, TypeOK, SyncSet
  <2>5. QED
    BY <1>1, <2>2, <2>4 DEF LeaseInv
<1>5. ASSUME NEW r \in Requests, RequestStep(r) PROVE LeaseInv'
  <2>1. /\ UNCHANGED <<active, generation, sweep, sync>>
        /\ \A q \in Requests : request'[q].stage # "idle" =>
             /\ request[q].stage # "idle"
             /\ request'[q].lease = request[q].lease
    BY <1>5 DEF RequestStep, EndRequest, LoadProject, SaveProject, OpenTerminal,
       MaterializeKey, TargetResolved, TargetUnresolved, EndDeploy, Answer,
       IdleRequest, TypeOK, RequestSet
  <2>2. QED
    BY <2>1 DEF LeaseInv
<1>6. ASSUME NEW s \in SweepSlots, TickSweep(s) \/ SweepStep(s) PROVE LeaseInv'
  <2>1. /\ UNCHANGED <<active, generation, request, sync>>
        /\ \A t \in SweepSlots : sweep'[t].stage # "idle" =>
             \/ IsOpen /\ sweep'[t].lease = active
             \/ sweep[t].stage # "idle" /\ sweep'[t].lease = sweep[t].lease
    BY <1>6 DEF SweepStep, TickSweep, StartSweep, SkipSweep, BeginSweep, EndSweep,
       EndSweepRun, IdleSweep, TypeOK, SweepSet
  <2>2. QED
    BY <1>1, <2>1 DEF LeaseInv
<1>7. ASSUME NEW c \in SyncSlots, TickSync(c) \/ SyncStep(c) PROVE LeaseInv'
  <2>1. /\ UNCHANGED <<active, generation, request, sweep>>
        /\ \A d \in SyncSlots : sync'[d].stage # "idle" =>
             \/ IsOpen /\ sync'[d].lease = active
             \/ sync[d].stage # "idle" /\ sync'[d].lease = sync[d].lease
    <3>1. CASE TickSync(c)
      BY <3>1 DEF TickSync, StartSync, TypeOK, SyncSet
    <3>2. CASE SkipSync(c)
      BY <3>2 DEF SkipSync, IdleSync, TypeOK, SyncSet
    <3>3. CASE BeginScheduledSync(c)
      BY <3>3 DEF BeginScheduledSync, TypeOK, SyncSet
    <3>4. CASE EndSync(c)
      BY <3>4 DEF EndSync, IdleSync, TypeOK, SyncSet
    <3>5. QED
      BY <1>7, <3>1, <3>2, <3>3, <3>4 DEF SyncStep
  <2>2. QED
    BY <1>1, <2>1 DEF LeaseInv
<1>8. CASE Restart
  BY <1>8 DEF Restart, NoLease, LeaseInv, IdleRequest, IdleSweep, IdleSync
<1>9. QED
  BY <1>2, <1>3, <1>4, <1>5, <1>6, <1>7, <1>8 DEF Next

------------------------------------------------------------------------------
(* The inductive invariant behind type correctness.                          *)

BaseInv == TypeOK /\ PhaseInv /\ LeaseInv

(* Every step keeps the types.                                               *)
LEMMA NextType ==
  ASSUME BaseInv, [Next]_vars
  PROVE  TypeOK'
<1>1. TypeOK /\ PhaseInv /\ LeaseInv
  BY DEF BaseInv
<1>2. CASE UNCHANGED vars
  BY <1>1, <1>2 DEF vars, contextVars, registryVars, serviceVars, runnerVars,
     resourceVars, TypeOK, ContextTypeOK
<1>3. ASSUME NEW p \in Projects, AskUnlock(p) \/ AskLock \/ AskDelete
      PROVE  TypeOK'
  BY <1>1, <1>3, AskType
<1>4. CASE AskLock \/ AskDelete
  <2>1. active.project \in Projects
    BY <1>1, <1>4, OperationTypes DEF AskLock, AskDelete
  <2>2. QED
    BY <1>3, <1>4, <2>1
<1>5. ASSUME NEW r \in Requests, NewRequest(r) \/ RequestStep(r) PROVE TypeOK'
  BY <1>1, <1>5, RequestType
<1>6. CASE \/ \E s \in SweepSlots : TickSweep(s) \/ SweepStep(s)
           \/ \E c \in SyncSlots : TickSync(c) \/ SyncStep(c)
  BY <1>1, <1>6, RunnerType
<1>7. CASE Transition \/ Restart
  BY <1>1, <1>7, TransitionType, RestartType
<1>8. QED
  BY <1>2, <1>3, <1>4, <1>5, <1>6, <1>7 DEF Next

(* Each step of the session keeps the invariant the proofs rest on.          *)
LEMMA BaseInvariant == Spec => []BaseInv
<1>1. Init => BaseInv
  BY InitType, InitAux DEF BaseInv
<1>2. BaseInv /\ [Next]_vars => BaseInv'
  BY NextType, NextPhase, NextLease DEF BaseInv
<1>3. QED
  BY <1>1, <1>2, PTL DEF Spec

(* Every reachable state is well typed: in particular the session is always  *)
(* a lease the context could have issued, and nothing is registered,         *)
(* cached or materialized for anything but a project.                        *)
THEOREM TypeCorrect == Spec => []TypeOK
<1>1. BaseInv => TypeOK
  BY DEF BaseInv
<1>2. QED
  BY <1>1, BaseInvariant, PTL

------------------------------------------------------------------------------
(* What the base invariant already gives, whatever the environment injects.  *)

(* Rows are removed by DeleteProject alone: every other step keeps them all. *)
LEMMA OnlyDeletionRemoves ==
  ASSUME [Next]_vars, ~ DeleteProject
  PROVE  stored \subseteq stored'
<1>1. CASE Transition
  BY <1>1 DEF Transition, Dequeue, Reject, VerifiedUnlock, StartLock,
     VerifiedDelete, PreparedDelete, BeginTeardown, CloseTerminals, RemoveKeys,
     RemoveKeysFails, CloseSession, SaveAndActivate, Recovered, RecoveryFails,
     FinishUnlock, StartPasskey, SavePasskey
<1>2. ASSUME NEW r \in Requests, NewRequest(r) \/ RequestStep(r)
      PROVE  stored \subseteq stored'
  BY <1>2 DEF NewRequest, StartRequest, StartDeploy, StartPasskeyRequest,
     StartSynchronize, AcceptRequest, RequestStep, EndRequest, LoadProject,
     SaveProject, OpenTerminal, MaterializeKey, TargetResolved,
     TargetUnresolved, EndDeploy
<1>3. ASSUME NEW s \in SweepSlots, TickSweep(s) \/ SweepStep(s)
      PROVE  stored \subseteq stored'
  BY <1>3 DEF SweepStep, TickSweep, SkipSweep, BeginSweep, EndSweep
<1>4. ASSUME NEW c \in SyncSlots, TickSync(c) \/ SyncStep(c)
      PROVE  stored \subseteq stored'
  BY <1>4 DEF SyncStep, TickSync, SkipSync, BeginScheduledSync, EndSync
<1>5. CASE \/ \E p \in Projects : AskUnlock(p)
           \/ AskLock \/ AskDelete \/ Restart
           \/ UNCHANGED vars
  BY <1>5 DEF AskUnlock, AskLock, AskDelete, Ask, Restart, vars
<1>6. QED
  BY <1>1, <1>2, <1>3, <1>4, <1>5 DEF Next

(* The open session changes in four ways only: it is closed, it is dropped   *)
(* after a failed recovery, a project is activated, or the process exits.    *)
LEMMA SessionChanges ==
  ASSUME [Next]_vars, ~ Restart, ~ SaveAndActivate
  PROVE  \/ active' = active
         \/ active' = NoLease /\ (CloseSession \/ RecoveryFails)
<1> USE DEF contextVars
<1>1. CASE Transition
  BY <1>1 DEF Transition, Dequeue, Reject, VerifiedUnlock, StartLock,
     VerifiedDelete, PreparedDelete, BeginTeardown, CloseTerminals, RemoveKeys,
     RemoveKeysFails, CloseSession, Clear, Recovered, RecoveryFails,
     FinishUnlock, DeleteProject, StartPasskey, SavePasskey
<1>2. ASSUME NEW r \in Requests, NewRequest(r) \/ RequestStep(r)
      PROVE  active' = active
  BY <1>2 DEF NewRequest, StartRequest, StartDeploy, StartPasskeyRequest,
     StartSynchronize, AcceptRequest, RequestStep, EndRequest, LoadProject,
     SaveProject, OpenTerminal, MaterializeKey, TargetResolved,
     TargetUnresolved, EndDeploy, Answer
<1>3. ASSUME NEW s \in SweepSlots, TickSweep(s) \/ SweepStep(s)
      PROVE  active' = active
  BY <1>3 DEF SweepStep, TickSweep, SkipSweep, BeginSweep, EndSweep
<1>4. ASSUME NEW c \in SyncSlots, TickSync(c) \/ SyncStep(c)
      PROVE  active' = active
  BY <1>4 DEF SyncStep, TickSync, SkipSync, BeginScheduledSync, EndSync
<1>5. CASE \/ \E p \in Projects : AskUnlock(p)
           \/ AskLock \/ AskDelete
           \/ UNCHANGED vars
  BY <1>5 DEF AskUnlock, AskLock, AskDelete, Ask, vars
<1>6. QED
  BY <1>1, <1>2, <1>3, <1>4, <1>5 DEF Next

(* A row disappears only at the end of a deletion that closed the session of *)
(* that very project, however deletions, locks and switches are queued: the  *)
(* check of lease.projectId inside the exclusive section is enough.          *)
THEOREM DeletionOwnsSession == Spec => DeletesOwnSession
<1>1. ASSUME BaseInv, [Next]_vars, NEW p \in stored \ stored'
      PROVE  running.kind = "delete" /\ prior.project = p /\ ~IsOpen
  <2>1. DeleteProject
    BY <1>1, OnlyDeletionRemoves
  <2>2. QED
    BY <1>1, <2>1 DEF DeleteProject, BaseInv, PhaseInv
<1>2. BaseInv /\ [Next]_vars =>
        [\A p \in stored \ stored' :
           running.kind = "delete" /\ prior.project = p /\ ~IsOpen]_vars
  BY <1>1
<1>3. QED
  BY <1>2, BaseInvariant, PTL DEF Spec, DeletesOwnSession

(* The open session is always one of an existing project: a project is       *)
(* deleted only after its session is closed, and opened only with its row.   *)
THEOREM OpenProjectExists == Spec => []ActiveProjectStored
<1>1. Init => ActiveProjectStored
  BY DEF Init, ContextInit, ActiveProjectStored, IsOpen
<1>2. ASSUME BaseInv, ActiveProjectStored, [Next]_vars
      PROVE  ActiveProjectStored'
  <2>1. CASE SaveAndActivate
    BY <2>1 DEF SaveAndActivate, Activate, ActiveProjectStored
  <2>2. CASE Restart
    BY <2>2 DEF Restart, ActiveProjectStored, IsOpen
  <2>3. CASE DeleteProject
    BY <1>2, <2>3 DEF DeleteProject, BaseInv, PhaseInv, ActiveProjectStored,
       IsOpen, contextVars
  <2>4. CASE ~ (SaveAndActivate \/ Restart \/ DeleteProject)
    BY <1>2, <2>4, SessionChanges, OnlyDeletionRemoves
    DEF ActiveProjectStored, IsOpen
  <2>5. QED
    BY <2>1, <2>2, <2>3, <2>4
<1>3. QED
  BY <1>1, <1>2, BaseInvariant, PTL DEF Spec

(* An invalidated lease never becomes current again while the work that      *)
(* holds it lives: every activation takes a generation above all of them.    *)
THEOREM StaleForever == Spec => StaleStaysStale
<1> DEFINE Issued(lease) == lease \in Leases /\ lease.generation <= generation
<1>1. ASSUME BaseInv, [Next]_vars, NEW lease, Issued(lease),
             ~ IsCurrent(lease), ~ Restart
      PROVE  ~ IsCurrent(lease)'
  <2>1. CASE SaveAndActivate
    BY <1>1, <2>1 DEF SaveAndActivate, Activate, IsCurrent, Leases, BaseInv,
       TypeOK, ContextTypeOK
  <2>2. CASE active' = active
    BY <1>1, <2>2 DEF IsCurrent, IsOpen
  <2>3. CASE active' = NoLease
    BY <2>3 DEF IsCurrent, IsOpen
  <2>4. QED
    BY <1>1, <2>1, <2>2, <2>3, SessionChanges
<1>2. ASSUME BaseInv, Restart
      PROVE  /\ \A s \in SweepSlots : sweep'[s].lease = NoLease
             /\ \A c \in SyncSlots : sync'[c].lease = NoLease
  BY <1>2 DEF Restart, IdleSweep, IdleSync
<1>3. NoLease \notin Leases
  BY ContextAssumption DEF NoLease, Leases
<1>4. ASSUME BaseInv, [Next]_vars, NEW s \in SweepSlots, Stale(sweep[s]),
             sweep'[s].lease = sweep[s].lease
      PROVE  ~ IsCurrent(sweep[s].lease)'
  BY <1>1, <1>2, <1>3, <1>4 DEF BaseInv, LeaseInv, Stale
<1>5. ASSUME BaseInv, [Next]_vars, NEW c \in SyncSlots, Stale(sync[c]),
             sync'[c].lease = sync[c].lease
      PROVE  ~ IsCurrent(sync[c].lease)'
  BY <1>1, <1>2, <1>3, <1>5 DEF BaseInv, LeaseInv, Stale
<1>6. BaseInv /\ [Next]_vars =>
        [/\ \A s \in SweepSlots :
              Stale(sweep[s]) /\ sweep'[s].lease = sweep[s].lease
                => ~IsCurrent(sweep[s].lease)'
         /\ \A c \in SyncSlots :
              Stale(sync[c]) /\ sync'[c].lease = sync[c].lease
                => ~IsCurrent(sync[c].lease)']_vars
  BY <1>4, <1>5
<1>7. QED
  BY <1>6, BaseInvariant, PTL DEF Spec, StaleStaysStale

------------------------------------------------------------------------------
(* The schedulers run one at a time.                                         *)

OneSync ==
  /\ \A c, d \in SyncSlots :
       sync[c].stage = "reading" /\ sync[d].stage = "reading" => c = d
  /\ cloudflareSyncRunning <=> \E c \in SyncSlots : sync[c].stage = "reading"

OneSweep ==
  /\ \A s, t \in SweepSlots :
       sweep[s].stage = "sweeping" /\ sweep[t].stage = "sweeping" => s = t
  /\ sslRenewalRunning <=> \E s \in SweepSlots : sweep[s].stage = "sweeping"

(* A renewal is registered exactly while it sweeps, and what may still begin *)
(* beside it, in the open session, works for the same lease: its begin()     *)
(* finds the key taken.                                                      *)
SweepInv ==
  /\ OneSweep
  /\ \A s \in SweepSlots :
       sweep[s].stage = "sweeping" => Registered(SslKey(sweep[s].lease))
  /\ \A lease \in Leases : Registered(SslKey(lease)) =>
       \E s \in SweepSlots : /\ sweep[s].stage = "sweeping"
                             /\ SslKey(sweep[s].lease) = SslKey(lease)
  /\ \A s, t \in SweepSlots :
       /\ sweep[s].stage = "sweeping" /\ sweep[t].stage = "loading"
       /\ IsCurrent(sweep[t].lease)
       => sweep[s].lease = sweep[t].lease

(* Only begin() raises the flag of a synchronization, after it was tested in *)
(* the same continuation.                                                    *)
LEMMA NextOneSync ==
  ASSUME TypeOK, OneSync, [Next]_vars
  PROVE  OneSync'
<1> USE DEF runnerVars
<1>a. ASSUME NEW c \in SyncSlots, NEW lease, NEW caller, BeginSync(c, lease, caller),
             ~cloudflareSyncRunning
      PROVE  OneSync'
  BY <1>a DEF BeginSync, OneSync, TypeOK, SyncSet
<1>b. ASSUME NEW c \in SyncSlots, cloudflareSyncRunning' = cloudflareSyncRunning,
             sync[c].stage # "reading",
             \E run : run.stage # "reading" /\ sync' = [sync EXCEPT ![c] = run]
      PROVE  OneSync'
  BY <1>b DEF OneSync, TypeOK, SyncSet
<1>c. ASSUME UNCHANGED <<sync, cloudflareSyncRunning>>
      PROVE  OneSync'
  BY <1>c DEF OneSync
<1>1. CASE Transition
  <2>1. CASE SaveAndActivate
    <3>1. \/ UNCHANGED <<sync, cloudflareSyncRunning>>
          \/ \E c \in SyncSlots : StartSync(c, active') /\ UNCHANGED cloudflareSyncRunning
      BY <2>1 DEF SaveAndActivate
    <3>2. QED
      BY <1>b, <1>c, <3>1 DEF StartSync
  <2>2. CASE Recovered
    BY <1>a, <1>c, <2>2 DEF Recovered
  <2>3. CASE ~(SaveAndActivate \/ Recovered)
    BY <1>1, <1>c, <2>3 DEF Transition, Dequeue, Reject, VerifiedUnlock, StartLock,
       VerifiedDelete, PreparedDelete, BeginTeardown, CloseTerminals, RemoveKeys,
       RemoveKeysFails, CloseSession, RecoveryFails, FinishUnlock, DeleteProject,
       StartPasskey, SavePasskey
  <2>4. QED
    BY <2>1, <2>2, <2>3
<1>2. ASSUME NEW r \in Requests, NewRequest(r) PROVE OneSync'
  BY <1>a, <1>c, <1>2 DEF NewRequest, StartRequest, StartDeploy, StartPasskeyRequest,
     StartSynchronize
<1>3. ASSUME NEW r \in Requests, RequestStep(r) PROVE OneSync'
  BY <1>c, <1>3 DEF RequestStep, EndRequest, LoadProject, SaveProject, OpenTerminal,
     MaterializeKey, TargetResolved, TargetUnresolved, EndDeploy, Answer
<1>4. ASSUME NEW s \in SweepSlots, TickSweep(s) \/ SweepStep(s) PROVE OneSync'
  BY <1>c, <1>4 DEF SweepStep, TickSweep, SkipSweep, BeginSweep, EndSweep
<1>5. ASSUME NEW c \in SyncSlots, TickSync(c) \/ SyncStep(c) PROVE OneSync'
  <2>1. CASE TickSync(c)
    BY <1>b, <2>1 DEF TickSync, StartSync
  <2>2. CASE SkipSync(c)
    BY <1>b, <2>2 DEF SkipSync, IdleSync
  <2>3. CASE BeginScheduledSync(c)
    BY <2>3 DEF BeginScheduledSync, OneSync, TypeOK, SyncSet
  <2>4. CASE EndSync(c)
    BY <2>4 DEF EndSync, IdleSync, OneSync, TypeOK, SyncSet
  <2>5. QED
    BY <1>5, <2>1, <2>2, <2>3, <2>4 DEF SyncStep
<1>6. CASE Restart
  BY <1>6 DEF Restart, IdleSync, OneSync
<1>7. CASE \/ \E p \in Projects : AskUnlock(p)
           \/ AskLock \/ AskDelete \/ UNCHANGED vars
  BY <1>7, <1>c DEF AskUnlock, AskLock, AskDelete, Ask, vars
<1>8. QED
  BY <1>1, <1>2, <1>3, <1>4, <1>5, <1>6, <1>7 DEF Next

(* Nobody but the renewal registers or completes under its key.              *)
LEMMA RenewalKeyKept ==
  ASSUME TypeOK, [Next]_vars, ~Restart, \A s \in SweepSlots : ~SweepStep(s),
         NEW lease \in Leases
  PROVE  Registered(SslKey(lease))' <=> Registered(SslKey(lease))
<1> USE DEF registryVars
<1>a. ASSUME NEW new, Begin(new), \A o \in new : o.key # SslKey(lease)
      PROVE  Registered(SslKey(lease))' <=> Registered(SslKey(lease))
  BY <1>a DEF Begin, Registered
<1>b. ASSUME NEW keys, Complete(keys), SslKey(lease) \notin keys
      PROVE  Registered(SslKey(lease))' <=> Registered(SslKey(lease))
  BY <1>b DEF Complete, Registered
<1>c. ASSUME UNCHANGED operations
      PROVE  Registered(SslKey(lease))' <=> Registered(SslKey(lease))
  BY <1>c DEF Registered
<1>d. \A r, s, l : /\ IpcKey(r) # SslKey(lease) /\ DeployKey(s) # SslKey(lease)
                   /\ SyncKey(l) # SslKey(lease)
  BY DEF IpcKey, DeployKey, SyncKey, SslKey
<1>1. CASE Transition
  <2>1. CASE Recovered
    BY <1>a, <1>c, <1>d, <2>1 DEF Recovered, Operation
  <2>2. CASE ~Recovered
    BY <1>1, <1>c, <2>2 DEF Transition, Dequeue, Reject, VerifiedUnlock, StartLock,
       VerifiedDelete, PreparedDelete, BeginTeardown, AbortAndAwait, CloseTerminals,
       RemoveKeys, RemoveKeysFails, CloseSession, SaveAndActivate, RecoveryFails,
       FinishUnlock, DeleteProject, StartPasskey, SavePasskey
  <2>3. QED
    BY <2>1, <2>2
<1>2. ASSUME NEW r \in Requests, NewRequest(r)
      PROVE  Registered(SslKey(lease))' <=> Registered(SslKey(lease))
  <2>1. RequestOp(r).key # SslKey(lease)
    BY <1>d DEF RequestOp, Operation
  <2>2. \A st, p, a : Operation(DeployKey(st), p, a).key # SslKey(lease)
    BY <1>d DEF Operation
  <2>3. \A l, p, a : Operation(SyncKey(l), p, a).key # SslKey(lease)
    BY <1>d DEF Operation
  <2>4. CASE StartRequest(r)
    BY <1>a, <2>1, <2>4 DEF StartRequest
  <2>5. ASSUME NEW st \in Streams, StartDeploy(r, st)
        PROVE  Registered(SslKey(lease))' <=> Registered(SslKey(lease))
    BY <1>a, <2>1, <2>2, <2>5 DEF StartDeploy
  <2>6. CASE StartPasskeyRequest(r)
    BY <1>a, <2>1, <2>6 DEF StartPasskeyRequest
  <2>7. CASE StartSynchronize(r)
    BY <1>a, <2>1, <2>3, <2>7 DEF StartSynchronize
  <2>8. QED
    BY <1>2, <2>4, <2>5, <2>6, <2>7 DEF NewRequest
<1>3. ASSUME NEW r \in Requests, RequestStep(r)
      PROVE  Registered(SslKey(lease))' <=> Registered(SslKey(lease))
  <2>1. UNCHANGED operations \/ \E keys : Complete(keys) /\ SslKey(lease) \notin keys
    BY <1>3, <1>d DEF RequestStep, EndRequest, LoadProject, SaveProject, OpenTerminal,
       MaterializeKey, TargetResolved, TargetUnresolved, EndDeploy, Answer
  <2>2. QED
    BY <1>b, <1>c, <2>1
<1>4. ASSUME NEW s \in SweepSlots, TickSweep(s)
      PROVE  Registered(SslKey(lease))' <=> Registered(SslKey(lease))
  BY <1>c, <1>4 DEF TickSweep
<1>5. ASSUME NEW c \in SyncSlots, TickSync(c) \/ SyncStep(c)
      PROVE  Registered(SslKey(lease))' <=> Registered(SslKey(lease))
  <2>1. CASE TickSync(c) \/ SkipSync(c)
    BY <1>c, <2>1 DEF TickSync, SkipSync
  <2>2. CASE BeginScheduledSync(c)
    BY <1>a, <1>d, <2>2 DEF BeginScheduledSync, Operation
  <2>3. CASE EndSync(c)
    BY <1>b, <1>d, <2>3 DEF EndSync
  <2>4. QED
    BY <1>5, <2>1, <2>2, <2>3 DEF SyncStep
<1>6. CASE \/ \E p \in Projects : AskUnlock(p)
           \/ AskLock \/ AskDelete \/ UNCHANGED vars
  BY <1>6, <1>c DEF AskUnlock, AskLock, AskDelete, Ask, vars
<1>7. QED
  BY <1>1, <1>2, <1>3, <1>4, <1>5, <1>6 DEF Next

(* Steps that neither sweep nor open a session keep what the renewals rely   *)
(* on.                                                                       *)
LEMMA SweepFrame ==
  ASSUME SweepInv, UNCHANGED <<sweep, sslRenewalRunning>>,
         active' = active \/ active' = NoLease,
         \A lease \in Leases : Registered(SslKey(lease))' <=> Registered(SslKey(lease)),
         LeaseInv
  PROVE  SweepInv'
<1>1. \A lease : IsCurrent(lease)' => IsCurrent(lease)
  BY DEF IsCurrent, IsOpen
<1>2. OneSweep'
  BY DEF SweepInv, OneSweep
<1>3. \A s \in SweepSlots :
        sweep'[s].stage = "sweeping" => Registered(SslKey(sweep[s].lease))'
  BY DEF SweepInv, LeaseInv
<1>4. QED
  BY <1>1, <1>2, <1>3 DEF SweepInv

(* Only the renewals and an activation touch what the renewals keep.         *)
LEMMA SweepUntouched ==
  ASSUME [Next]_vars, ~SaveAndActivate, ~Restart,
         \A s \in SweepSlots : ~(TickSweep(s) \/ SweepStep(s))
  PROVE  UNCHANGED <<sweep, sslRenewalRunning>>
<1> USE DEF runnerVars
<1>1. CASE Transition
  BY <1>1 DEF Transition, Dequeue, Reject, VerifiedUnlock, StartLock, VerifiedDelete,
     PreparedDelete, BeginTeardown, CloseTerminals, RemoveKeys, RemoveKeysFails,
     CloseSession, Recovered, RecoveryFails, FinishUnlock, DeleteProject, StartPasskey,
     SavePasskey
<1>2. ASSUME NEW r \in Requests, NewRequest(r) \/ RequestStep(r)
      PROVE  UNCHANGED <<sweep, sslRenewalRunning>>
  BY <1>2 DEF NewRequest, StartRequest, StartDeploy, StartPasskeyRequest, StartSynchronize,
     AcceptRequest, RequestStep, EndRequest, LoadProject, SaveProject, OpenTerminal,
     MaterializeKey, TargetResolved, TargetUnresolved, EndDeploy, Answer
<1>3. ASSUME NEW c \in SyncSlots, TickSync(c) \/ SyncStep(c)
      PROVE  UNCHANGED <<sweep, sslRenewalRunning>>
  BY <1>3 DEF SyncStep, TickSync, SkipSync, BeginScheduledSync, EndSync
<1>4. CASE \/ \E p \in Projects : AskUnlock(p)
           \/ AskLock \/ AskDelete \/ UNCHANGED vars
  BY <1>4 DEF AskUnlock, AskLock, AskDelete, Ask, vars
<1>5. QED
  BY <1>1, <1>2, <1>3, <1>4 DEF Next

(* What a renewal relies on is kept by the steps of a renewal, by the        *)
(* activation that starts one and by everything else.                        *)
LEMMA NextSweepInv ==
  ASSUME TypeOK, LeaseInv, SweepInv, [Next]_vars
  PROVE  SweepInv'
<1> USE DEF contextVars, registryVars
<1>a. ASSUME NEW s \in SweepSlots, NEW lease, StartSweep(s, lease), ~sslRenewalRunning,
             UNCHANGED <<operations, sslRenewalRunning>>
      PROVE  SweepInv'
  <2>1. \A t \in SweepSlots : sweep[t].stage # "sweeping" /\ sweep'[t].stage # "sweeping"
    BY <1>a DEF SweepInv, OneSweep, StartSweep, TypeOK, SweepSet
  <2>2. \A l \in Leases : ~Registered(SslKey(l))'
    BY <1>a, <2>1 DEF SweepInv, Registered
  <2>3. QED
    BY <1>a, <2>1, <2>2 DEF SweepInv, OneSweep
<1>b. ASSUME NEW s \in SweepSlots, sweep' = [sweep EXCEPT ![s] = IdleSweep],
             sweep[s].stage = "loading", UNCHANGED <<operations, active>>,
             sslRenewalRunning' <=> \E t \in SweepSlots : sweep[t].stage = "sweeping"
      PROVE  SweepInv'
  <2>1. \A t \in SweepSlots :
          /\ sweep'[t].stage = "sweeping" <=> sweep[t].stage = "sweeping"
          /\ sweep'[t].stage = "loading" => sweep[t].stage = "loading"
          /\ sweep'[t].stage # "idle" => sweep'[t] = sweep[t]
    BY <1>b DEF TypeOK, IdleSweep
  <2>2. \A lease : Registered(SslKey(lease))' <=> Registered(SslKey(lease))
    BY <1>b DEF Registered
  <2>3. \A lease : IsCurrent(lease)' <=> IsCurrent(lease)
    BY <1>b DEF IsCurrent, IsOpen
  <2>4. QED
    BY <1>b, <2>1, <2>2, <2>3 DEF SweepInv, OneSweep
<1>1. CASE SaveAndActivate
  <2>1. CASE ~sslRenewalRunning
    BY <1>a, <1>1, <2>1 DEF SaveAndActivate
  <2>2. CASE sslRenewalRunning
    <3>1. UNCHANGED <<sweep, sslRenewalRunning, operations>>
      BY <1>1, <2>2 DEF SaveAndActivate
    <3>2. ASSUME NEW t \in SweepSlots, sweep[t].stage # "idle"
          PROVE  ~IsCurrent(sweep[t].lease)'
      <4>1. sweep[t].lease.generation \in Nat /\ sweep[t].lease.generation <= generation
        BY <3>2 DEF LeaseInv, Leases
      <4>2. active'.generation = generation + 1
        BY <1>1 DEF SaveAndActivate, Activate
      <4>3. QED
        BY <4>1, <4>2, <3>1 DEF IsCurrent, TypeOK, ContextTypeOK
    <3>3. \A lease : Registered(SslKey(lease))' <=> Registered(SslKey(lease))
      BY <3>1 DEF Registered
    <3>4. QED
      BY <3>1, <3>2, <3>3 DEF SweepInv, OneSweep
  <2>3. QED
    BY <2>1, <2>2 DEF TypeOK
<1>2. ASSUME NEW s \in SweepSlots, TickSweep(s)
      PROVE  SweepInv'
  BY <1>a, <1>2 DEF TickSweep
<1>3. ASSUME NEW s \in SweepSlots, SkipSweep(s)
      PROVE  SweepInv'
  BY <1>b, <1>3 DEF SkipSweep, EndSweepRun, SweepInv, OneSweep
<1>4. ASSUME NEW s \in SweepSlots, BeginSweep(s)
      PROVE  SweepInv'
  <2>1. PICK lease \in Leases : /\ lease = sweep[s].lease /\ IsCurrent(lease)
                                /\ sweep[s].stage = "loading"
    BY <1>4 DEF BeginSweep, LeaseInv
  <2>2. CASE Registered(SslKey(lease))
    <3>1. \E t \in SweepSlots : sweep[t].stage = "sweeping"
      BY <2>1, <2>2 DEF SweepInv
    <3>2. /\ sweep' = [sweep EXCEPT ![s] = IdleSweep]
          /\ UNCHANGED <<operations, active>> /\ sslRenewalRunning' = TRUE
      BY <1>4, <2>1, <2>2 DEF BeginSweep, EndSweepRun, Begin, Operation
    <3>3. QED
      BY <1>b, <2>1, <3>1, <3>2
  <2>3. CASE ~Registered(SslKey(lease))
    <3>1. /\ sweep' = [sweep EXCEPT ![s].stage = "sweeping"]
          /\ operations' = operations \cup {Operation(SslKey(lease), lease.project, TRUE)}
          /\ sslRenewalRunning' = TRUE /\ active' = active
      BY <1>4, <2>1, <2>3 DEF BeginSweep, Begin
    <3>2. \A t \in SweepSlots : sweep[t].stage # "sweeping"
      BY <2>1, <2>3 DEF SweepInv
    <3>3. \A t \in SweepSlots \ {s} : sweep'[t] = sweep[t]
      BY <3>1 DEF TypeOK
    <3>4. sweep'[s].stage = "sweeping" /\ sweep'[s].lease = lease
      BY <2>1, <3>1 DEF TypeOK, SweepSet
    <3>5. ASSUME NEW l \in Leases, Registered(SslKey(l))'
          PROVE  SslKey(l) = SslKey(lease)
      <4>1. ~Registered(SslKey(l))
        BY <3>2 DEF SweepInv
      <4>2. Operation(SslKey(lease), lease.project, TRUE).key = SslKey(lease)
        BY DEF Operation
      <4>3. QED
        BY <3>1, <3>5, <4>1, <4>2 DEF Registered
    <3>6. Registered(SslKey(lease))'
      <4>1. Operation(SslKey(lease), lease.project, TRUE).key = SslKey(lease)
        BY DEF Operation
      <4>2. QED
        BY <3>1, <4>1 DEF Registered
    <3>7. ASSUME NEW t \in SweepSlots, sweep'[t].stage = "loading",
                 IsCurrent(sweep[t].lease)'
          PROVE  sweep'[t].lease = lease
      <4>1. t # s /\ sweep[t].stage = "loading" /\ sweep'[t].lease = sweep[t].lease
        BY <3>3, <3>4, <3>7
      <4>2. sweep[t].lease \in Leases
        BY <4>1 DEF LeaseInv
      <4>3. IsCurrent(sweep[t].lease)
        BY <3>1, <3>7, <4>1 DEF IsCurrent, IsOpen
      <4>4. lease.project = sweep[t].lease.project
            /\ lease.generation = sweep[t].lease.generation
        BY <2>1, <4>3 DEF IsCurrent
      <4>5. QED
        BY <4>1, <4>2, <4>4 DEF Leases
    <3>8. OneSweep'
      BY <3>1, <3>2, <3>3, <3>4 DEF OneSweep
    <3>9. QED
      BY <2>1, <3>2, <3>3, <3>4, <3>5, <3>6, <3>7, <3>8 DEF SweepInv
  <2>4. QED
    BY <2>2, <2>3
<1>5. ASSUME NEW s \in SweepSlots, EndSweep(s)
      PROVE  SweepInv'
  <2>1. sweep' = [sweep EXCEPT ![s] = IdleSweep] /\ sslRenewalRunning' = FALSE
    BY <1>5 DEF EndSweep, EndSweepRun
  <2>2. \A t \in SweepSlots : sweep'[t].stage # "sweeping"
    BY <1>5, <2>1 DEF EndSweep, SweepInv, OneSweep, TypeOK, IdleSweep
  <2>3. \A lease \in Leases : ~Registered(SslKey(lease))'
    BY <1>5 DEF EndSweep, Complete, Registered, SweepInv, OneSweep
  <2>4. QED
    BY <2>1, <2>2, <2>3 DEF SweepInv, OneSweep
<1>6. CASE Restart
  <2>1. \A s \in SweepSlots : sweep'[s].stage = "idle"
    BY <1>6 DEF Restart, IdleSweep
  <2>2. \A lease : ~Registered(SslKey(lease))'
    BY <1>6 DEF Restart, Registered
  <2>3. QED
    BY <1>6, <2>1, <2>2 DEF Restart, SweepInv, OneSweep
<1>7. CASE /\ ~SaveAndActivate /\ ~Restart
           /\ \A s \in SweepSlots : ~(TickSweep(s) \/ SweepStep(s))
  <2>1. UNCHANGED <<sweep, sslRenewalRunning>>
    BY <1>7, SweepUntouched
  <2>2. QED
    BY <1>7, <2>1, SessionChanges, RenewalKeyKept, SweepFrame
<1>8. QED
  BY <1>1, <1>2, <1>3, <1>4, <1>5, <1>6, <1>7 DEF SweepStep

(* A second renewal or synchronization never runs beside the first, and the  *)
(* flags never lie: although the flag is tested before an await and raised   *)
(* after it, the key of the lease decides, and an activation that starts a   *)
(* run finds either no run or one whose lease is stale.                      *)
THEOREM OneRunAtATime == Spec => []SingleFlight
<1>1. Init => OneSync /\ SweepInv
  BY DEF Init, RegistryInit, IdleSweep, IdleSync, OneSync, SweepInv, OneSweep, Registered
<1>2. BaseInv /\ OneSync /\ SweepInv /\ [Next]_vars => OneSync' /\ SweepInv'
  BY NextOneSync, NextSweepInv DEF BaseInv
<1>3. OneSync /\ SweepInv => SingleFlight
  BY DEF OneSync, SweepInv, OneSweep, SingleFlight
<1>4. QED
  BY <1>1, <1>2, <1>3, BaseInvariant, PTL DEF Spec

------------------------------------------------------------------------------
(* Isolation.  When no teardown is overtaken by a new registration, no       *)
(* recovery fails and no crash leaves key files behind, the workspace        *)
(* session implements IsolatedWorkspace, for any number of projects, calls   *)
(* and scheduler runs.  SessionLateWork shows a teardown overtaken.          *)

Undisturbed ==
  Disturbances \cap {"lateRegistration", "recoveryFails", "cleanupFails"} = {}

------------------------------------------------------------------------------
(* The inductive invariant.                                                  *)

Blocks(key) == \E o \in operations : o.key = key /\ ~o.abortable

(* A scoped call works for the open project, and its registration blocks any *)
(* teardown until it is answered.                                            *)
CallsBlock ==
  \A r \in Requests : request[r].stage # "idle" =>
    Blocks(IpcKey(r)) /\ request[r].lease.project = active.project

(* So does the one synchronization that may be running.                      *)
SyncBlocks ==
  \A c \in SyncSlots : sync[c].stage = "reading" =>
    /\ Blocks(SyncKey(sync[c].lease))
    /\ cloudflareSyncRunning
    /\ \A d \in SyncSlots : sync[d].stage = "reading" => d = c

(* What each step of a teardown has already achieved.                        *)
TeardownInv ==
  /\ phase = "draining" =>
       \A o \in operations : o.abortable /\ o.key \in awaited
  /\ phase \in {"closing", "clearing"} => operations = {} /\ terminals = {}
  /\ phase = "clearing" => cloudflareSnapshot = NoProject /\ keyFiles = {}

IsolationInv ==
  /\ NoWorkSurvives
  /\ ResourcesBelong
  /\ CallsBlock
  /\ SyncBlocks
  /\ TeardownInv
------------------------------------------------------------------------------
(* What the parts of a step do to it.                                        *)

(* Without late registration, nothing is registered during a teardown.       *)
LEMMA NoLateRegistration ==
  ASSUME Undisturbed, MayRegister
  PROVE  phase \notin Teardown
BY DEF Undisturbed, MayRegister

(* In a teardown no scoped call is in flight and no synchronization runs.    *)
LEMMA QuietTeardown ==
  ASSUME IsolationInv, phase \in Teardown
  PROVE  /\ \A r \in Requests : request[r].stage = "idle"
         /\ \A c \in SyncSlots : sync[c].stage # "reading"
BY DEF IsolationInv, CallsBlock, SyncBlocks, TeardownInv, Teardown, Blocks

(* A closed session holds nothing at all.                                    *)
LEMMA NothingWhenClosed ==
  ASSUME TypeOK, IsolationInv, ~IsOpen
  PROVE  /\ operations = {} /\ terminals = {} /\ keyFiles = {}
         /\ cloudflareSnapshot = NoProject
         /\ \A r \in Requests : request[r].stage = "idle"
         /\ \A c \in SyncSlots : sync[c].stage # "reading"
<1>1. active.project = NoProject
  BY DEF IsOpen, NoLease
<1>2. operations = {}
  BY <1>1, ContextAssumption DEF TypeOK, OperationSet, IsolationInv, NoWorkSurvives
<1>3. terminals = {} /\ keyFiles = {} /\ cloudflareSnapshot = NoProject
  BY <1>1, ContextAssumption DEF TypeOK, IsolationInv, ResourcesBelong
<1>4. QED
  BY <1>2, <1>3 DEF IsolationInv, CallsBlock, SyncBlocks, Blocks

(* A step that touches neither the session, the registry nor the resources,  *)
(* and starts no teardown, no call and no synchronization, keeps isolation.  *)
LEMMA IsolationFrame ==
  ASSUME IsolationInv,
         UNCHANGED <<active, operations, awaited, resourceVars,
                     cloudflareSyncRunning>>,
         phase' = phase \/ phase' \notin Teardown,
         \A r \in Requests : request'[r].stage # "idle" =>
           request[r].stage # "idle" /\ request'[r].lease = request[r].lease,
         \A c \in SyncSlots : sync'[c].stage = "reading" => sync'[c] = sync[c]
  PROVE  IsolationInv'
<1> USE DEF resourceVars, IsolationInv
<1>1. NoWorkSurvives' /\ ResourcesBelong'
  BY DEF NoWorkSurvives, ResourcesBelong
<1>2. CallsBlock' /\ SyncBlocks'
  BY DEF CallsBlock, SyncBlocks, Blocks, SyncKey
<1>3. TeardownInv'
  BY DEF TeardownInv, Teardown
<1>4. QED
  BY <1>1, <1>2, <1>3

(* Registering work of the open project outside a teardown keeps everything  *)
(* but what is said of the new work itself.                                  *)
LEMMA BeginKeeps ==
  ASSUME IsolationInv, NEW new, Begin(new), phase \notin Teardown,
         \A o \in new : o.project = active.project,
         UNCHANGED <<active, phase, resourceVars>>
  PROVE  /\ NoWorkSurvives' /\ ResourcesBelong' /\ TeardownInv'
         /\ \A key : Blocks(key) => Blocks(key)'
BY DEF IsolationInv, Begin, NoWorkSurvives, ResourcesBelong, TeardownInv,
       Teardown, Blocks, resourceVars

(* Completing work keeps what blocks under the other keys.                   *)
LEMMA CompleteKeeps ==
  ASSUME IsolationInv, NEW keys, Complete(keys), UNCHANGED <<active, phase>>
  PROVE  /\ NoWorkSurvives'
         /\ phase = "draining" =>
              \A o \in operations' : o.abortable /\ o.key \in awaited'
         /\ operations = {} => operations' = {}
         /\ \A key : Blocks(key) /\ key \notin keys => Blocks(key)'
BY DEF IsolationInv, Complete, NoWorkSurvives, TeardownInv, Blocks

(* A synchronization that starts under the flag is the only one.             *)
LEMMA SyncBegins ==
  ASSUME IsolationInv, ~cloudflareSyncRunning, cloudflareSyncRunning',
         UNCHANGED active, NEW new, Begin(new),
         Operation(SyncKey(active), active.project, FALSE) \in new,
         NEW c \in SyncSlots, sync'[c].lease = active,
         \A d \in SyncSlots : d = c \/ sync'[d] = sync[d]
  PROVE  SyncBlocks'
<1>1. \A d \in SyncSlots : sync[d].stage # "reading"
  BY DEF IsolationInv, SyncBlocks
<1>2. \A d \in SyncSlots : sync'[d].stage = "reading" => d = c
  BY <1>1
<1>3. \E o \in operations' : o.key = SyncKey(active) /\ ~o.abortable
  BY DEF Begin, Operation
<1>4. \E o \in operations' : o.key = SyncKey(sync'[c].lease) /\ ~o.abortable
  BY <1>3
<1>5. QED
  BY <1>2, <1>4 DEF SyncBlocks, Blocks, SyncKey

------------------------------------------------------------------------------
(* One lemma per actor: the transitions.                                     *)

(* The steps of a transition, its teardown among them, keep isolation.       *)
LEMMA TransitionIsolation ==
  ASSUME Undisturbed, BaseInv, IsolationInv, Transition
  PROVE  IsolationInv'
<1> USE DEF contextVars, registryVars, serviceVars, runnerVars, resourceVars
<1>0. TypeOK /\ PhaseInv /\ LeaseInv
  BY DEF BaseInv
<1>1. ASSUME Settle
      PROVE  /\ phase' = "idle" /\ phase' \notin Teardown
             /\ \A r \in Requests : request'[r].stage # "idle" =>
                  request[r].stage # "idle" /\ request'[r].lease = request[r].lease
  BY <1>0, <1>1 DEF Settle, Teardown, TypeOK, RequestSet
<1>2. CASE Dequeue \/ VerifiedDelete \/ StartPasskey
  <2>1. /\ UNCHANGED <<active, operations, awaited, resourceVars, request, sync,
                       cloudflareSyncRunning>>
        /\ phase' \notin Teardown
    BY <1>2 DEF Dequeue, VerifiedDelete, StartPasskey, Teardown
  <2>2. QED
    BY <2>1, IsolationFrame
<1>3. CASE Reject \/ RemoveKeysFails \/ FinishUnlock \/ DeleteProject \/ SavePasskey
  <2>1. /\ UNCHANGED <<active, operations, awaited, resourceVars, sync,
                       cloudflareSyncRunning>>
        /\ Settle
    BY <1>3 DEF Reject, RemoveKeysFails, FinishUnlock, DeleteProject, SavePasskey
  <2>2. QED
    BY <1>1, <2>1, IsolationFrame
<1>4. ASSUME BeginTeardown, prior = active PROVE IsolationInv'
  <2>1. CASE Settle /\ UNCHANGED registryVars
    BY <1>1, <1>4, <2>1, IsolationFrame DEF BeginTeardown
  <2>2. CASE /\ AbortAndAwait(prior.project)
             /\ phase' = "draining"
             /\ UNCHANGED <<queue, running, prior, request>>
    <3>1. UNCHANGED <<active, operations, request, resourceVars, sync,
                      cloudflareSyncRunning>>
      BY <1>4, <2>2 DEF BeginTeardown, AbortAndAwait
    <3>2. \A o \in operations : o.project = active.project
      BY DEF IsolationInv, NoWorkSurvives
    <3>3. \A o \in operations : o.abortable /\ o.key \in awaited'
      BY <1>4, <2>2, <3>2 DEF AbortAndAwait, BlockersOf, OperationsOf
    <3>4. TeardownInv'
      BY <2>2, <3>1, <3>3 DEF TeardownInv
    <3>5. NoWorkSurvives' /\ ResourcesBelong' /\ CallsBlock' /\ SyncBlocks'
      BY <3>1 DEF IsolationInv, NoWorkSurvives, ResourcesBelong, CallsBlock,
         SyncBlocks, Blocks, SyncKey
    <3>6. QED
      BY <3>4, <3>5 DEF IsolationInv
  <2>3. QED
    BY <1>4, <2>1, <2>2 DEF BeginTeardown
<1>5. CASE VerifiedUnlock
  <2>1. CASE IsOpen /\ BeginTeardown
    BY <1>0, <1>4, <1>5, <2>1 DEF VerifiedUnlock, PhaseInv
  <2>2. CASE /\ ~IsOpen /\ phase' = "saving"
             /\ UNCHANGED <<contextVars, registryVars, stored, queue, running,
                            prior, request, runnerVars, resourceVars>>
    BY <2>2, IsolationFrame DEF Teardown
  <2>3. QED
    BY <1>5, <2>1, <2>2 DEF VerifiedUnlock
<1>6. CASE StartLock \/ PreparedDelete
  BY <1>0, <1>4, <1>6 DEF StartLock, PreparedDelete, PhaseInv
<1>7. CASE CloseTerminals
  <2>1. phase = "draining" /\ awaited = {}
    BY <1>7 DEF CloseTerminals, Drained
  <2>2. operations = {}
    BY <2>1 DEF IsolationInv, TeardownInv
  <2>3. /\ \A r \in Requests : request[r].stage = "idle"
        /\ \A c \in SyncSlots : sync[c].stage # "reading"
    BY <2>1, QuietTeardown DEF Teardown
  <2>4. QED
    BY <1>7, <2>2, <2>3
    DEF CloseTerminals, IsolationInv, NoWorkSurvives, ResourcesBelong, CallsBlock,
        SyncBlocks, TeardownInv
<1>8. CASE RemoveKeys
  <2>1. phase = "closing" /\ operations = {} /\ terminals = {}
    BY <1>8 DEF RemoveKeys, IsolationInv, TeardownInv
  <2>2. prior.project = active.project
    BY <1>0, <2>1 DEF PhaseInv, Teardown
  <2>3. keyFiles' = {} /\ cloudflareSnapshot' = NoProject
    BY <1>8, <2>2 DEF RemoveKeys, IsolationInv, ResourcesBelong
  <2>4. /\ \A r \in Requests : request[r].stage = "idle"
        /\ \A c \in SyncSlots : sync[c].stage # "reading"
    BY <2>1, QuietTeardown DEF Teardown
  <2>5. QED
    BY <1>8, <2>1, <2>3, <2>4
    DEF RemoveKeys, IsolationInv, NoWorkSurvives, ResourcesBelong, CallsBlock,
        SyncBlocks, TeardownInv
<1>9. CASE CloseSession
  <2>1. /\ operations = {} /\ terminals = {} /\ keyFiles = {}
        /\ cloudflareSnapshot = NoProject
        /\ \A r \in Requests : request[r].stage = "idle"
        /\ \A c \in SyncSlots : sync[c].stage # "reading"
    BY <1>9, QuietTeardown DEF CloseSession, IsolationInv, TeardownInv, Teardown
  <2>2. /\ \A r \in Requests : request'[r].stage = "idle"
        /\ phase' \in {"idle", "saving", "deleting"}
    BY <1>9, <2>1, <1>1 DEF CloseSession, Settle
  <2>3. QED
    BY <1>9, <2>1, <2>2
    DEF CloseSession, IsolationInv, NoWorkSurvives, ResourcesBelong, CallsBlock,
        SyncBlocks, TeardownInv
<1>10. CASE SaveAndActivate
  <2>1. ~IsOpen
    BY <1>0, <1>10 DEF SaveAndActivate, PhaseInv
  <2>2. /\ operations = {} /\ terminals = {} /\ keyFiles = {}
        /\ cloudflareSnapshot = NoProject
        /\ \A r \in Requests : request[r].stage = "idle"
        /\ \A c \in SyncSlots : sync[c].stage # "reading"
    BY <1>0, <2>1, NothingWhenClosed
  <2>3. \A c \in SyncSlots : sync'[c].stage # "reading"
    BY <1>0, <1>10, <2>2 DEF SaveAndActivate, StartSync, TypeOK
  <2>4. QED
    BY <1>10, <2>2, <2>3
    DEF SaveAndActivate, IsolationInv, NoWorkSurvives, ResourcesBelong,
        CallsBlock, SyncBlocks, TeardownInv
<1>11. CASE Recovered
  <2>1. /\ UNCHANGED <<active, request, resourceVars>>
        /\ phase = "recovering" /\ phase' = "synchronizing"
    BY <1>11 DEF Recovered
  <2>2. CASE UNCHANGED <<registryVars, sync, cloudflareSyncRunning>>
    BY <2>1, <2>2, IsolationFrame DEF Teardown
  <2>3. CASE /\ ~cloudflareSyncRunning
             /\ \E c \in SyncSlots : BeginSync(c, active, "activation")
             /\ Begin({Operation(SyncKey(active), active.project, FALSE)})
    <3>1. PICK c \in SyncSlots : BeginSync(c, active, "activation")
      BY <2>3
    <3>2. /\ \A o \in {Operation(SyncKey(active), active.project, FALSE)} :
               o.project = active.project
          /\ phase \notin Teardown
      BY <2>1 DEF Operation, Teardown
    <3>3. /\ NoWorkSurvives' /\ ResourcesBelong'
          /\ \A key : Blocks(key) => Blocks(key)'
      BY <2>1, <2>3, <3>2 DEF Begin, IsolationInv, NoWorkSurvives,
         ResourcesBelong, Blocks
    <3>4. CallsBlock' /\ TeardownInv'
      BY <2>1, <3>3 DEF IsolationInv, CallsBlock, TeardownInv
    <3>5. /\ sync'[c].lease = active /\ cloudflareSyncRunning'
          /\ \A d \in SyncSlots : d = c \/ sync'[d] = sync[d]
      BY <1>0, <3>1 DEF BeginSync, TypeOK
    <3>6. SyncBlocks'
      BY <2>1, <2>3, <3>5, SyncBegins
    <3>7. QED
      BY <3>3, <3>4, <3>6 DEF IsolationInv
  <2>4. QED
    BY <1>11, <2>2, <2>3 DEF Recovered
<1>12. CASE RecoveryFails
  BY <1>12 DEF RecoveryFails, Undisturbed
<1>13. QED
  BY <1>2, <1>3, <1>5, <1>6, <1>7, <1>8, <1>9, <1>10, <1>11, <1>12 DEF Transition

------------------------------------------------------------------------------
(* Scoped calls.                                                             *)

(* A call is accepted only while the session is open and no teardown runs,   *)
(* and registers itself, with whatever else it registers for that session.   *)
LEMMA AcceptIsolation ==
  ASSUME Undisturbed, BaseInv, IsolationInv, NEW r \in Requests,
         NEW kind, NEW stage, NEW stream, AcceptRequest(r, kind, stage, stream),
         NEW new, Begin(new), RequestOp(r) \in new,
         \A o \in new : o.project = active.project,
         UNCHANGED phase
  PROVE  /\ NoWorkSurvives' /\ ResourcesBelong' /\ CallsBlock' /\ TeardownInv'
         /\ \A key : Blocks(key) => Blocks(key)'
<1>1. phase \notin Teardown /\ UNCHANGED <<active, resourceVars>>
  BY NoLateRegistration DEF AcceptRequest, contextVars
<1>2. /\ NoWorkSurvives' /\ ResourcesBelong' /\ TeardownInv'
      /\ \A key : Blocks(key) => Blocks(key)'
  BY <1>1, BeginKeeps
<1>3. Blocks(IpcKey(r))'
  BY DEF Begin, RequestOp, Operation, Blocks, IpcKey
<1>4. \A q \in Requests : q # r => request'[q] = request[q]
  BY DEF AcceptRequest, BaseInv, TypeOK
<1>5. request'[r].lease = active
  BY DEF AcceptRequest, BaseInv, TypeOK
<1>6. \A q \in Requests : Blocks(IpcKey(q)) => Blocks(IpcKey(q))'
  BY <1>2 DEF Blocks, IpcKey
<1>7. CallsBlock'
  BY <1>1, <1>3, <1>4, <1>5, <1>6 DEF CallsBlock, IsolationInv
<1>8. QED
  BY <1>2, <1>7

(* Every new call keeps isolation.                                           *)
LEMMA NewRequestIsolation ==
  ASSUME Undisturbed, BaseInv, IsolationInv, NEW r \in Requests, NewRequest(r)
  PROVE  IsolationInv'
<1> USE DEF serviceVars, runnerVars
<1>0. TypeOK
  BY DEF BaseInv
<1>1. RequestOp(r).project = active.project
  BY DEF RequestOp, Operation
<1>2. ASSUME UNCHANGED <<sync, cloudflareSyncRunning>>,
             \A key : Blocks(key) => Blocks(key)'
      PROVE  SyncBlocks'
  BY <1>2 DEF IsolationInv, SyncBlocks, SyncKey
<1>3. CASE StartRequest(r)
  <2>1. PICK kind : AcceptRequest(r, kind, "running", NoStream)
    BY <1>3 DEF StartRequest
  <2>2. /\ Begin({RequestOp(r)}) /\ UNCHANGED phase
        /\ UNCHANGED <<sync, cloudflareSyncRunning>>
    BY <1>3 DEF StartRequest
  <2>3. QED
    BY <1>1, <1>2, <2>1, <2>2, AcceptIsolation DEF IsolationInv
<1>4. CASE StartPasskeyRequest(r)
  <2>1. /\ AcceptRequest(r, "passkey", "queued", NoStream)
        /\ Begin({RequestOp(r)}) /\ UNCHANGED phase
        /\ UNCHANGED <<sync, cloudflareSyncRunning>>
    BY <1>4 DEF StartPasskeyRequest
  <2>2. QED
    BY <1>1, <1>2, <2>1, AcceptIsolation DEF IsolationInv
<1>5. ASSUME NEW s \in Streams, StartDeploy(r, s) PROVE IsolationInv'
  <2> DEFINE new == {RequestOp(r), Operation(DeployKey(s), active.project, TRUE)}
  <2>1. /\ AcceptRequest(r, "deploy", "resolving", s)
        /\ Begin(new) /\ UNCHANGED phase
        /\ UNCHANGED <<sync, cloudflareSyncRunning>>
    BY <1>5 DEF StartDeploy
  <2>2. \A o \in new : o.project = active.project
    BY <1>1 DEF Operation
  <2>3. RequestOp(r) \in new
    OBVIOUS
  <2> HIDE DEF new
  <2>4. QED
    BY <1>2, <2>1, <2>2, <2>3, AcceptIsolation DEF IsolationInv
<1>6. CASE StartSynchronize(r)
  <2>1. /\ AcceptRequest(r, "synchronize", "running", NoStream)
        /\ UNCHANGED phase
    BY <1>6 DEF StartSynchronize
  <2>2. CASE /\ Begin({RequestOp(r)})
             /\ UNCHANGED <<sync, cloudflareSyncRunning>>
    BY <1>1, <1>2, <2>1, <2>2, AcceptIsolation DEF IsolationInv
  <2>3. ASSUME ~cloudflareSyncRunning,
               NEW c \in SyncSlots, BeginSync(c, active, r),
               Begin({RequestOp(r), Operation(SyncKey(active), active.project, FALSE)})
        PROVE  IsolationInv'
    <3> DEFINE new ==
          {RequestOp(r), Operation(SyncKey(active), active.project, FALSE)}
    <3>1. \A o \in new : o.project = active.project
      BY <1>1 DEF Operation
    <3>2. /\ RequestOp(r) \in new /\ Begin(new)
          /\ Operation(SyncKey(active), active.project, FALSE) \in new
      BY <2>3
    <3> HIDE DEF new
    <3>3. NoWorkSurvives' /\ ResourcesBelong' /\ CallsBlock' /\ TeardownInv'
      BY <2>1, <3>1, <3>2, AcceptIsolation
    <3>4. /\ sync'[c].lease = active /\ cloudflareSyncRunning'
          /\ \A d \in SyncSlots : d = c \/ sync'[d] = sync[d]
          /\ UNCHANGED active
      BY <1>0, <2>1, <2>3 DEF BeginSync, TypeOK, AcceptRequest, contextVars
    <3>5. SyncBlocks'
      BY <2>3, <3>2, <3>4, SyncBegins
    <3>6. QED
      BY <3>3, <3>5 DEF IsolationInv
  <2>4. QED
    BY <1>6, <2>2, <2>3 DEF StartSynchronize
<1>7. QED
  BY <1>3, <1>4, <1>5, <1>6 DEF NewRequest

(* What an answered call leaves: the other calls, and no trace of its own.   *)
LEMMA AnswerIsolation ==
  ASSUME BaseInv, IsolationInv, NEW r \in Requests, request[r].stage # "idle",
         NEW stream, NEW keys \in {{IpcKey(r)}, {IpcKey(r), DeployKey(stream)}},
         Answer(r, keys)
  PROVE  /\ NoWorkSurvives' /\ CallsBlock' /\ SyncBlocks'
         /\ phase \notin Teardown /\ UNCHANGED <<active, phase>>
         /\ request[r].lease.project = active.project
<1> USE DEF contextVars, serviceVars, runnerVars
<1>1. UNCHANGED <<active, phase, sync, cloudflareSyncRunning>> /\ Complete(keys)
  BY DEF Answer
<1>2. NoWorkSurvives' /\ \A key : Blocks(key) /\ key \notin keys => Blocks(key)'
  BY <1>1, CompleteKeeps
<1>3. \A q \in Requests : q # r => IpcKey(q) \notin keys
  BY DEF IpcKey, DeployKey
<1>4. /\ request'[r].stage = "idle"
      /\ \A q \in Requests : q # r => request'[q] = request[q]
  BY DEF Answer, IdleRequest, BaseInv, TypeOK
<1>5. \A q \in Requests : q # r /\ Blocks(IpcKey(q)) => Blocks(IpcKey(q))'
  BY <1>2, <1>3 DEF Blocks, IpcKey
<1>6. CallsBlock'
  BY <1>1, <1>4, <1>5 DEF IsolationInv, CallsBlock
<1>7. \A c \in SyncSlots : SyncKey(sync[c].lease) \notin keys
  BY DEF SyncKey, IpcKey, DeployKey
<1>8. SyncBlocks'
  BY <1>1, <1>2, <1>7 DEF IsolationInv, SyncBlocks, SyncKey
<1>9. phase \notin Teardown
  BY QuietTeardown
<1>10. QED
  BY <1>1, <1>2, <1>6, <1>8, <1>9 DEF IsolationInv, CallsBlock

(* Every step of a call in flight keeps isolation: what it opens or writes   *)
(* belongs to the open project, which cannot have changed under it.          *)
LEMMA RequestStepIsolation ==
  ASSUME BaseInv, IsolationInv, NEW r \in Requests, RequestStep(r)
  PROVE  IsolationInv'
<1> USE DEF resourceVars
<1>1. ASSUME request[r].stage # "idle", NEW stream,
             NEW keys \in {{IpcKey(r)}, {IpcKey(r), DeployKey(stream)}},
             Answer(r, keys),
             cloudflareSnapshot' = cloudflareSnapshot,
             terminals' \subseteq terminals \cup {request[r].lease.project},
             keyFiles' \subseteq keyFiles \cup {request[r].lease.project}
      PROVE  IsolationInv'
  <2>1. /\ NoWorkSurvives' /\ CallsBlock' /\ SyncBlocks'
        /\ phase \notin Teardown /\ UNCHANGED <<active, phase>>
        /\ request[r].lease.project = active.project
    BY <1>1, AnswerIsolation
  <2>2. ResourcesBelong' /\ TeardownInv'
    BY <1>1, <2>1 DEF IsolationInv, ResourcesBelong, TeardownInv, Teardown
  <2>3. QED
    BY <2>1, <2>2 DEF IsolationInv
<1>2. CASE LoadProject(r) \/ TargetResolved(r)
  <2>1. /\ UNCHANGED <<active, operations, awaited, resourceVars, phase, sync,
                       cloudflareSyncRunning>>
        /\ \A q \in Requests : request'[q].stage # "idle" =>
             request[q].stage # "idle" /\ request'[q].lease = request[q].lease
    BY <1>2 DEF LoadProject, TargetResolved, contextVars, registryVars,
       serviceVars, runnerVars, BaseInv, TypeOK, RequestSet
  <2>2. QED
    BY <2>1, IsolationFrame
<1>3. CASE EndRequest(r)
  BY <1>1, <1>3 DEF EndRequest
<1>4. CASE SaveProject(r)
  BY <1>1, <1>4 DEF SaveProject
<1>5. CASE OpenTerminal(r)
  BY <1>1, <1>5 DEF OpenTerminal
<1>6. CASE MaterializeKey(r)
  BY <1>1, <1>6 DEF MaterializeKey
<1>7. CASE TargetUnresolved(r)
  BY <1>1, <1>7 DEF TargetUnresolved
<1>8. CASE EndDeploy(r)
  BY <1>1, <1>8 DEF EndDeploy
<1>9. QED
  BY <1>2, <1>3, <1>4, <1>5, <1>6, <1>7, <1>8 DEF RequestStep

------------------------------------------------------------------------------
(* The schedulers.                                                           *)

(* A sweep registers itself for the open session, or finds it changed.       *)
LEMMA SweepIsolation ==
  ASSUME Undisturbed, BaseInv, IsolationInv, NEW s \in SweepSlots,
         TickSweep(s) \/ SweepStep(s)
  PROVE  IsolationInv'
<1> USE DEF contextVars, registryVars, serviceVars
<1>0. UNCHANGED <<active, phase, request, sync, cloudflareSyncRunning, resourceVars>>
  BY DEF SweepStep, TickSweep, SkipSweep, BeginSweep, EndSweep
<1>1. CASE UNCHANGED registryVars
  BY <1>0, <1>1, IsolationFrame
<1>2. ASSUME NoWorkSurvives', TeardownInv',
             \A key : Blocks(key) /\ key # SslKey(sweep[s].lease) => Blocks(key)'
      PROVE  IsolationInv'
  <2>1. ResourcesBelong'
    BY <1>0 DEF IsolationInv, ResourcesBelong, resourceVars
  <2>2. CallsBlock'
    BY <1>0, <1>2 DEF IsolationInv, CallsBlock, IpcKey, SslKey
  <2>3. SyncBlocks'
    BY <1>0, <1>2 DEF IsolationInv, SyncBlocks, SyncKey, SslKey
  <2>4. QED
    BY <1>2, <2>1, <2>2, <2>3 DEF IsolationInv
<1>3. ASSUME BeginSweep(s),
             Begin({Operation(SslKey(sweep[s].lease), sweep[s].lease.project, TRUE)})
      PROVE  IsolationInv'
  <2>1. phase \notin Teardown /\ sweep[s].lease.project = active.project
    BY <1>3, NoLateRegistration DEF BeginSweep, IsCurrent
  <2>2. \A o \in {Operation(SslKey(sweep[s].lease), sweep[s].lease.project, TRUE)} :
          o.project = active.project
    BY <2>1 DEF Operation
  <2>3. QED
    BY <1>0, <1>2, <1>3, <2>1, <2>2, BeginKeeps
<1>4. CASE EndSweep(s)
  <2>1. Complete({SslKey(sweep[s].lease)})
    BY <1>4 DEF EndSweep
  <2>2. TeardownInv'
    BY <1>0, <2>1, CompleteKeeps DEF IsolationInv, TeardownInv, resourceVars
  <2>3. QED
    BY <1>0, <1>2, <2>1, <2>2, CompleteKeeps
<1>5. QED
  BY <1>1, <1>3, <1>4 DEF SweepStep, TickSweep, SkipSweep, BeginSweep

(* A synchronization registers itself for the open session, and caches what  *)
(* it read only if that session is still open - which no teardown can have   *)
(* changed, since it blocks them all.                                        *)
LEMMA SyncIsolation ==
  ASSUME Undisturbed, BaseInv, IsolationInv, NEW c \in SyncSlots,
         TickSync(c) \/ SyncStep(c)
  PROVE  IsolationInv'
<1> USE DEF contextVars, registryVars, serviceVars
<1>0. /\ TypeOK
      /\ UNCHANGED <<active, phase, request, terminals, keyFiles>>
  BY DEF BaseInv, SyncStep, TickSync, SkipSync, BeginScheduledSync, EndSync,
     resourceVars
<1>1. CASE TickSync(c) \/ SkipSync(c)
  <2>1. \A d \in SyncSlots : sync'[d].stage = "reading" => sync'[d] = sync[d]
    BY <1>0, <1>1 DEF TickSync, StartSync, SkipSync, IdleSync, TypeOK
  <2>2. QED
    BY <1>0, <1>1, <2>1, IsolationFrame DEF TickSync, SkipSync, resourceVars
<1>2. CASE BeginScheduledSync(c)
  <2> DEFINE new == {Operation(SyncKey(active), active.project, FALSE)}
  <2>1. phase \notin Teardown /\ UNCHANGED resourceVars /\ Begin(new)
    BY <1>2, NoLateRegistration DEF BeginScheduledSync
  <2>2. \A o \in new : o.project = active.project
    BY DEF Operation
  <2>3. sync[c].lease = active
    BY <1>0, <1>2 DEF BeginScheduledSync, IsCurrent, TypeOK, SyncSet, LeaseOrNone,
       Leases, NoLease, ContextTypeOK
  <2>4. /\ sync'[c].lease = active /\ cloudflareSyncRunning'
        /\ \A d \in SyncSlots : d = c \/ sync'[d] = sync[d]
        /\ ~cloudflareSyncRunning
    BY <1>0, <1>2, <2>3 DEF BeginScheduledSync, TypeOK, SyncSet
  <2>5. Operation(SyncKey(active), active.project, FALSE) \in new
    OBVIOUS
  <2> HIDE DEF new
  <2>6. /\ NoWorkSurvives' /\ ResourcesBelong' /\ TeardownInv'
        /\ \A key : Blocks(key) => Blocks(key)'
    BY <1>0, <2>1, <2>2, BeginKeeps
  <2>7. SyncBlocks'
    BY <1>0, <2>1, <2>4, <2>5, SyncBegins
  <2>8. CallsBlock'
    BY <1>0, <2>6 DEF IsolationInv, CallsBlock, IpcKey
  <2>9. QED
    BY <2>6, <2>7, <2>8 DEF IsolationInv
<1>3. CASE EndSync(c)
  <2>1. Complete({SyncKey(sync[c].lease)}) /\ sync[c].stage = "reading"
    BY <1>3 DEF EndSync
  <2>2. phase \notin Teardown
    BY <2>1, QuietTeardown
  <2>3. cloudflareSnapshot' \in {cloudflareSnapshot, active.project}
    BY <1>3 DEF EndSync, IsCurrent
  <2>4. NoWorkSurvives' /\ ResourcesBelong' /\ TeardownInv'
    BY <1>0, <2>1, <2>2, <2>3, CompleteKeeps
    DEF IsolationInv, ResourcesBelong, TeardownInv, Teardown
  <2>5. \A key : Blocks(key) /\ key # SyncKey(sync[c].lease) => Blocks(key)'
    BY <1>0, <2>1, CompleteKeeps
  <2>6. CallsBlock'
    BY <1>0, <2>5 DEF IsolationInv, CallsBlock, IpcKey, SyncKey
  <2>7. \A d \in SyncSlots : sync[d].stage = "reading" => d = c
    BY <2>1 DEF IsolationInv, SyncBlocks
  <2>8. \A d \in SyncSlots : sync'[d].stage # "reading"
    BY <1>0, <1>3, <2>7 DEF EndSync, IdleSync, TypeOK
  <2>9. QED
    BY <2>4, <2>6, <2>8 DEF IsolationInv, SyncBlocks
<1>4. QED
  BY <1>1, <1>2, <1>3 DEF SyncStep

------------------------------------------------------------------------------
(* The theorems.                                                             *)

(* Every step keeps isolation.                                               *)
LEMMA NextIsolation ==
  ASSUME Undisturbed, BaseInv, IsolationInv, [Next]_vars
  PROVE  IsolationInv'
<1>1. CASE \/ \E p \in Projects : AskUnlock(p)
           \/ AskLock \/ AskDelete
           \/ UNCHANGED vars
  <2>1. UNCHANGED <<active, operations, awaited, resourceVars, phase, request,
                    sync, cloudflareSyncRunning>>
    BY <1>1 DEF AskUnlock, AskLock, AskDelete, Ask, vars, contextVars,
       registryVars, serviceVars, runnerVars
  <2>2. QED
    BY <2>1, IsolationFrame
<1>2. CASE Transition
  BY <1>2, TransitionIsolation
<1>3. ASSUME NEW r \in Requests, NewRequest(r) \/ RequestStep(r)
      PROVE  IsolationInv'
  BY <1>3, NewRequestIsolation, RequestStepIsolation
<1>4. ASSUME NEW s \in SweepSlots, TickSweep(s) \/ SweepStep(s)
      PROVE  IsolationInv'
  BY <1>4, SweepIsolation
<1>5. ASSUME NEW c \in SyncSlots, TickSync(c) \/ SyncStep(c)
      PROVE  IsolationInv'
  BY <1>5, SyncIsolation
<1>6. CASE Restart
  BY <1>6 DEF Restart, Undisturbed, IsolationInv, NoWorkSurvives, ResourcesBelong,
     CallsBlock, SyncBlocks, TeardownInv, IdleRequest, IdleSync
<1>7. QED
  BY <1>1, <1>2, <1>3, <1>4, <1>5, <1>6 DEF Next

(* The isolation invariant holds in every reachable state.                   *)
LEMMA IsolationInvariant ==
  ASSUME Undisturbed
  PROVE  Spec => [](BaseInv /\ IsolationInv)
<1>1. Init => IsolationInv
  BY DEF Init, ContextInit, RegistryInit, NoLease, IsolationInv, NoWorkSurvives,
     ResourcesBelong, CallsBlock, SyncBlocks, TeardownInv, IdleRequest, IdleSync
<1>2. BaseInv /\ IsolationInv /\ [Next]_vars => IsolationInv'
  BY NextIsolation
<1>3. QED
  BY <1>1, <1>2, BaseInvariant, PTL DEF Spec

(* No registered work outlives the session of its project, and caches,       *)
(* terminals and key files are those of the open project: beforeDeactivate() *)
(* refuses or awaits, and nothing is left when the context is cleared.       *)
THEOREM SessionIsolation ==
  ASSUME Undisturbed
  PROVE  Spec => []NothingOutlivesSession
<1>1. IsolationInv => NothingOutlivesSession
  BY DEF IsolationInv, NothingOutlivesSession
<1>2. QED
  BY <1>1, IsolationInvariant, PTL

(* A row removed by a deletion stays removed, as far as the late writers go: *)
(* what saves a project row does so while that project is open or about to   *)
(* be, so the row is there already.                                          *)
RowsKept ==
  /\ ActiveProjectStored
  /\ phase \in Teardown \cup {"saving"} /\ running.kind = "unlock"
       => running.project \in stored

(* The rows the session relies on are kept by every step.                    *)
LEMMA NextRowsKept ==
  ASSUME BaseInv, RowsKept, [Next]_vars
  PROVE  ActiveProjectStored' => RowsKept'
<1>1. TypeOK /\ PhaseInv
  BY DEF BaseInv
<1>2. ASSUME phase' \notin Teardown \cup {"saving"}, ActiveProjectStored'
      PROVE  RowsKept'
  BY <1>2 DEF RowsKept
<1>3. ASSUME UNCHANGED <<phase, running>>, ~ DeleteProject, ActiveProjectStored'
      PROVE  RowsKept'
  BY <1>3, OnlyDeletionRemoves DEF RowsKept
<1>4. ASSUME Settle PROVE phase' \notin Teardown \cup {"saving"}
  BY <1>4 DEF Settle, Teardown
<1>5. ASSUME BeginTeardown, ActiveProjectStored',
             running.kind = "unlock" => running.project \in stored
      PROVE  RowsKept'
  <2>1. CASE Settle
    BY <1>2, <1>4, <1>5, <2>1
  <2>2. CASE UNCHANGED <<queue, running, prior, request>>
    BY <1>5, <2>2 DEF BeginTeardown, RowsKept
  <2>3. QED
    BY <1>5, <2>1, <2>2 DEF BeginTeardown
<1>6. CASE Transition
  <2>1. CASE \/ Reject \/ RemoveKeysFails \/ RecoveryFails \/ FinishUnlock
             \/ DeleteProject \/ SavePasskey
    BY <1>2, <1>4, <2>1 DEF Reject, RemoveKeysFails, RecoveryFails, FinishUnlock,
       DeleteProject, SavePasskey
  <2>2. CASE Dequeue \/ VerifiedDelete \/ SaveAndActivate \/ Recovered \/ StartPasskey
    <3>1. phase' \notin Teardown \cup {"saving"}
      BY <2>2 DEF Dequeue, VerifiedDelete, SaveAndActivate, Recovered,
         StartPasskey, Teardown
    <3>2. QED
      BY <1>2, <3>1
  <2>3. CASE VerifiedUnlock
    <3>1. running.project \in stored
      BY <2>3 DEF VerifiedUnlock
    <3>2. CASE BeginTeardown
      BY <1>5, <3>1, <3>2
    <3>3. CASE UNCHANGED <<stored, running>>
      BY <3>1, <3>3 DEF RowsKept
    <3>4. QED
      BY <2>3, <3>2, <3>3 DEF VerifiedUnlock
  <2>4. CASE StartLock \/ PreparedDelete
    <3>1. BeginTeardown /\ running.kind # "unlock"
      BY <2>4, <1>1 DEF StartLock, PreparedDelete, PhaseInv
    <3>2. QED
      BY <1>5, <3>1
  <2>5. CASE CloseTerminals \/ RemoveKeys
    BY <2>5 DEF CloseTerminals, RemoveKeys, RowsKept, Teardown
  <2>6. CASE CloseSession
    <3>1. CASE Settle
      BY <1>2, <1>4, <3>1
    <3>2. CASE UNCHANGED <<queue, running, prior, request>>
      BY <2>6, <3>2 DEF CloseSession, RowsKept, Teardown
    <3>3. QED
      BY <2>6, <3>1, <3>2 DEF CloseSession
  <2>7. QED
    BY <1>6, <2>1, <2>2, <2>3, <2>4, <2>5, <2>6 DEF Transition
<1>7. CASE Restart
  BY <1>2, <1>7 DEF Restart, Teardown
<1>8. CASE ~ Transition /\ ~ Restart
  <2>1. UNCHANGED <<phase, running>>
    <3>1. CASE \/ \E p \in Projects : AskUnlock(p)
               \/ AskLock \/ AskDelete
               \/ UNCHANGED vars
      BY <3>1 DEF AskUnlock, AskLock, AskDelete, Ask, vars, serviceVars
    <3>2. ASSUME NEW r \in Requests, NewRequest(r) \/ RequestStep(r)
          PROVE  UNCHANGED <<phase, running>>
      BY <3>2 DEF NewRequest, StartRequest, StartDeploy, StartPasskeyRequest,
         StartSynchronize, RequestStep, EndRequest, LoadProject, SaveProject,
         OpenTerminal, MaterializeKey, TargetResolved, TargetUnresolved,
         EndDeploy, Answer, serviceVars
    <3>3. ASSUME NEW s \in SweepSlots, TickSweep(s) \/ SweepStep(s)
          PROVE  UNCHANGED <<phase, running>>
      BY <3>3 DEF SweepStep, TickSweep, SkipSweep, BeginSweep, EndSweep, serviceVars
    <3>4. ASSUME NEW c \in SyncSlots, TickSync(c) \/ SyncStep(c)
          PROVE  UNCHANGED <<phase, running>>
      BY <3>4 DEF SyncStep, TickSync, SkipSync, BeginScheduledSync, EndSync,
         serviceVars
    <3>5. QED
      BY <1>8, <3>1, <3>2, <3>3, <3>4 DEF Next
  <2>2. ~ DeleteProject
    BY <1>8 DEF Transition
  <2>3. QED
    BY <1>3, <2>1, <2>2
<1>9. QED
  BY <1>6, <1>7, <1>8

(* No late upsert brings a deleted row back while nothing is registered      *)
(* during a teardown.                                                        *)
THEOREM DeletionIsFinal ==
  ASSUME Undisturbed
  PROVE  Spec => DeletedStaysDeleted
<1>1. Init => RowsKept
  BY DEF Init, ContextInit, RowsKept, ActiveProjectStored, IsOpen, Teardown
<1>2. BaseInv /\ RowsKept /\ ActiveProjectStored' /\ [Next]_vars => RowsKept'
  BY NextRowsKept
<1>3. ASSUME BaseInv, IsolationInv, RowsKept, [Next]_vars
      PROVE  stored' \subseteq stored
  <2>1. CASE Transition
    <3>1. CASE SaveAndActivate
      BY <1>3, <3>1 DEF SaveAndActivate, RowsKept, BaseInv, PhaseInv
    <3>2. CASE SavePasskey
      BY <1>3, <3>2 DEF SavePasskey, RowsKept, BaseInv, PhaseInv, ActiveProjectStored
    <3>3. CASE ~ SaveAndActivate /\ ~ SavePasskey
      BY <2>1, <3>3 DEF Transition, Dequeue, Reject, VerifiedUnlock, StartLock,
         VerifiedDelete, PreparedDelete, BeginTeardown, CloseTerminals, RemoveKeys,
         RemoveKeysFails, CloseSession, Recovered, RecoveryFails, FinishUnlock,
         DeleteProject, StartPasskey
    <3>4. QED
      BY <3>1, <3>2, <3>3
  <2>2. ASSUME NEW r \in Requests, NewRequest(r) \/ RequestStep(r)
        PROVE  stored' \subseteq stored
    <3>1. CASE SaveProject(r)
      <4>1. request[r].lease.project = active.project /\ operations # {}
        BY <1>3, <3>1 DEF SaveProject, IsolationInv, CallsBlock, Blocks
      <4>2. IsOpen
        BY <1>3, <4>1, NothingWhenClosed DEF BaseInv
      <4>3. QED
        BY <1>3, <3>1, <4>1, <4>2 DEF SaveProject, RowsKept, ActiveProjectStored
    <3>2. CASE ~ SaveProject(r)
      BY <2>2, <3>2 DEF NewRequest, StartRequest, StartDeploy,
         StartPasskeyRequest, StartSynchronize, AcceptRequest, RequestStep,
         EndRequest, LoadProject, OpenTerminal, MaterializeKey, TargetResolved,
         TargetUnresolved, EndDeploy
    <3>3. QED
      BY <3>1, <3>2
  <2>3. ASSUME NEW s \in SweepSlots, TickSweep(s) \/ SweepStep(s)
        PROVE  stored' \subseteq stored
    BY <2>3 DEF SweepStep, TickSweep, SkipSweep, BeginSweep, EndSweep
  <2>4. ASSUME NEW c \in SyncSlots, TickSync(c) \/ SyncStep(c)
        PROVE  stored' \subseteq stored
    BY <2>4 DEF SyncStep, TickSync, SkipSync, BeginScheduledSync, EndSync
  <2>5. CASE \/ \E p \in Projects : AskUnlock(p)
             \/ AskLock \/ AskDelete \/ Restart
             \/ UNCHANGED vars
    BY <2>5 DEF AskUnlock, AskLock, AskDelete, Ask, Restart, vars
  <2>6. QED
    BY <1>3, <2>1, <2>2, <2>3, <2>4, <2>5 DEF Next
<1>4. BaseInv /\ IsolationInv /\ RowsKept /\ [Next]_vars =>
        [stored' \subseteq stored]_vars
  BY <1>3
<1>5. QED
  BY <1>1, <1>2, <1>4, OpenProjectExists, IsolationInvariant, PTL
  DEF Spec, DeletedStaysDeleted

(* The workspace session implements the abstract workspace: switching is     *)
(* closing with nothing held, then opening with nothing held.                *)
THEOREM SessionRefinesIsolatedWorkspace ==
  ASSUME Undisturbed
  PROVE  Spec => ImplementsIsolated
<1>1. Init => Isolated!Init
  BY DEF Init, ContextInit, RegistryInit, NoLease, Isolated!Init, Held
<1>2. ASSUME TypeOK, IsolationInv
      PROVE  /\ Held \subseteq {active.project}
             /\ ~IsOpen => Held = {}
  <2>1. Held \subseteq {active.project}
    BY <1>2 DEF Held, IsolationInv, NoWorkSurvives, ResourcesBelong
  <2>2. ~IsOpen => Held = {}
    BY <1>2, NothingWhenClosed DEF Held
  <2>3. QED
    BY <2>1, <2>2
<1>3. ASSUME TypeOK, IsOpen PROVE active.project # NoProject
  BY <1>3, OperationTypes, ContextAssumption
<1>4. ASSUME BaseInv, IsolationInv, BaseInv', IsolationInv', [Next]_vars
      PROVE  [Isolated!Next]_(Isolated!abstractVars)
  <2>1. /\ Held \subseteq {active.project}
        /\ ~IsOpen => Held = {} /\ active.project = NoProject
        /\ IsOpen => active.project # NoProject
    BY <1>2, <1>3, <1>4 DEF BaseInv, IsOpen, NoLease
  <2>2. Held' \subseteq {active'.project} /\ (~IsOpen' => Held' = {})
    <3>1. Held' \subseteq {active'.project}
      BY <1>4 DEF Held, IsolationInv, NoWorkSurvives, ResourcesBelong
    <3>2. Held' \subseteq Projects
      BY <1>4 DEF Held, BaseInv, TypeOK, OperationSet
    <3>3. QED
      BY <3>1, <3>2, ContextAssumption DEF IsOpen, NoLease
  <2>3. CASE SaveAndActivate
    <3>1. ~IsOpen /\ running.project \in Projects
      BY <1>4, <2>3 DEF BaseInv, SaveAndActivate, PhaseInv, Calls
    <3>2. Held' = Held
      BY <2>3 DEF SaveAndActivate, Held, registryVars, resourceVars
    <3>3. QED
      BY <2>1, <2>3, <3>1, <3>2
      DEF SaveAndActivate, Activate, Isolated!Next, Isolated!Open
  <2>4. CASE Restart
    BY <1>4, <2>2, <2>4 DEF Restart, IsOpen, NoLease, Isolated!Next, Isolated!Exit
  <2>5. CASE CloseSession
    <3>1. Held = {}
      BY <1>4, <2>5 DEF CloseSession, IsolationInv, TeardownInv, Held
    <3>2. Held' = {} /\ active'.project = NoProject
      BY <2>2, <2>5 DEF CloseSession, Clear, IsOpen, NoLease
    <3>3. IsOpen
      BY <1>4, <2>5 DEF BaseInv, CloseSession, PhaseInv, Teardown
    <3>4. QED
      BY <2>1, <3>1, <3>2, <3>3 DEF Isolated!Next, Isolated!Close
  <2>6. CASE active' = active
    <3>1. CASE IsOpen
      BY <2>1, <2>2, <2>6, <3>1 DEF Isolated!Next, Isolated!Work
    <3>2. CASE ~IsOpen
      BY <2>1, <2>2, <2>6, <3>2 DEF IsOpen, Isolated!abstractVars
    <3>3. QED
      BY <3>1, <3>2
  <2>7. ~ RecoveryFails
    BY DEF RecoveryFails, Undisturbed
  <2>8. QED
    BY <1>4, <2>3, <2>4, <2>5, <2>6, <2>7, SessionChanges
<1>5. QED
  BY <1>1, <1>4, IsolationInvariant, PTL DEF Spec, ImplementsIsolated, Isolated!Spec
===============================================================================
