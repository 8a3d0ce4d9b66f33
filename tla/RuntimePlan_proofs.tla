----------------------- MODULE RuntimePlan_proofs -----------------------
(***************************************************************************)
(* Theorems about runtime plans, for any number of targets, calls, names   *)
(* and items, whatever the bounds.                                         *)
(***************************************************************************)
EXTENDS RuntimePlan, TLAPS

------------------------------------------------------------------------------
(* Types: what the proofs need of TypeOK.  What executableOperations()       *)
(* returns is HostComponents_proofs' subject and plays no part in these.     *)

CallFields ==
  {"stage", "kind", "target", "base", "next", "seen", "attempt", "arg",
   "remove", "confirmations", "token", "change", "pending"}

(* Calls are records whose plans are plans; a call that is not answered has a *)
(* target, and a change of a plan has an argument that fits it.              *)
CallOK(r) ==
  /\ DOMAIN r = CallFields
  /\ r.base \in Plans /\ r.next \in Plans /\ r.seen \in Plans
  /\ r.stage \in Stages
  /\ r.stage \notin AnsweredStages => r.target \in Targets
  /\ r.kind \in {"adopt", "release"} => r.arg \in Names
  /\ r.kind \in SyncKinds => r.arg \in Items
  /\ r.stage = "retrying" => r.kind \in SyncKinds

StoreOK ==
  /\ targets \subseteq Targets
  /\ plans \in [Targets -> Plans]
  /\ DOMAIN previews = Targets
  /\ \A approval \in shown : approval.target \in Targets

TypeInv ==
  /\ StoreOK
  /\ DOMAIN call = Callers
  /\ \A c \in Callers : CallOK(call[c])

(* A plan without a row is a plan.                                           *)
LEMMA EmptyPlan == emptyRuntimePlan \in Plans
BY DEF emptyRuntimePlan, Plans, Modes

(* The empty call is in order, and so is an answered one.                    *)
LEMMA NoCallOK ==
  /\ CallOK(NoCall)
  /\ CallOK([NoCall EXCEPT !.stage = "conflict"])
BY EmptyPlan DEF NoCall, CallOK, CallFields, NoName, SyncKinds, Stages, AnsweredStages

(* So is a call that has just started.                                       *)
LEMMA StartedOK ==
  ASSUME NEW kind, NEW t \in Targets
  PROVE  /\ DOMAIN Started(kind, t) = CallFields
         /\ Started(kind, t).kind = kind /\ Started(kind, t).target = t
         /\ Started(kind, t).base \in Plans
         /\ Started(kind, t).next \in Plans
         /\ Started(kind, t).seen \in Plans
BY EmptyPlan DEF Started, NoCall, CallFields

(* One edit of the user makes a plan of a plan.                              *)
LEMMA EditsType == ASSUME NEW plan \in Plans PROVE Edits(plan) \subseteq Plans
<1>1. OtherMode(plan.mode) \in Modes
  BY DEF OtherMode, Modes, Plans
<1>2. \A q \in Plans : Tidy(q) \in Plans
  BY DEF Tidy, Plans
<1>3. [plan EXCEPT !.mode = OtherMode(@)] \in Plans
  BY <1>1 DEF Plans
<1>4. \A n \in Networks : Tidy([plan EXCEPT !.networks = Toggle(@, n)]) \in Plans
  <2>1. \A n \in Networks : [plan EXCEPT !.networks = Toggle(@, n)] \in Plans
    BY DEF Toggle, Plans
  <2>2. QED
    BY <1>2, <2>1
<1>5. \A c \in Containers : Tidy([plan EXCEPT !.services = Toggle(@, c)]) \in Plans
  <2>1. \A c \in Containers : [plan EXCEPT !.services = Toggle(@, c)] \in Plans
    BY DEF Toggle, Plans
  <2>2. QED
    BY <1>2, <2>1
<1>6. \A m \in plan.services \X plan.networks :
        [plan EXCEPT !.members = Toggle(@, m)] \in Plans
  BY DEF Toggle, Plans
<1>7. \A i \in Items : [plan EXCEPT !.topology = Toggle(@, i)] \in Plans
  BY DEF Toggle, Plans
<1>8. QED
  BY ZenonT(60), <1>3, <1>4, <1>5, <1>6, <1>7 DEF Edits

(* So does every change a service derives.                                   *)
LEMMA MutatedType ==
  ASSUME NEW plan \in Plans, NEW kind \in WriteKinds \ {"edit"}, NEW arg,
         kind \in {"adopt", "release"} => arg \in Names,
         kind \in SyncKinds => arg \in Items
  PROVE  Mutated(kind, plan, arg) \in Plans
<1>1. OtherMode(plan.mode) \in Modes
  BY DEF OtherMode, Modes, Plans
<1>2. CASE kind = "setMode"
  BY <1>1, <1>2 DEF Mutated, Plans
<1>3. CASE kind \in {"adopt", "release"}
  BY <1>3 DEF Mutated, Plans
<1>4. CASE kind \in SyncKinds
  BY <1>4 DEF Mutated, Plans, SyncKinds
<1>5. QED
  BY <1>2, <1>3, <1>4 DEF WriteKinds

(* A step that gives one call a record in order keeps the types.             *)
LEMMA CallUpdated ==
  ASSUME TypeInv, NEW c \in Callers, NEW r, CallOK(r),
         call' = [call EXCEPT ![c] = r],
         StoreOK'
  PROVE  TypeInv'
BY DEF TypeInv

(* A step that answers a call keeps the types.                               *)
LEMMA CallAnswered ==
  ASSUME TypeInv, NEW c \in Callers, Answer(c) \/ Answered(c, "conflict"),
         StoreOK'
  PROVE  TypeInv'
BY CallUpdated, NoCallOK DEF Answer, Answered

(* A change derived from the stored plan keeps the types.                    *)
LEMMA DeriveType ==
  ASSUME TypeInv, NEW c \in Callers, NEW kind \in WriteKinds \ {"edit"},
         NEW t \in Targets, NEW arg, NEW attempt,
         kind \in {"adopt", "release"} => arg \in Names,
         kind \in SyncKinds => arg \in Items,
         Derive(c, kind, t, arg, attempt), StoreOK'
  PROVE  TypeInv'
<1> DEFINE next == Mutated(kind, plans[t], arg)
           r == [Started(kind, t) EXCEPT
                   !.stage = IF kind = "adopt" THEN "inspecting" ELSE "checking",
                   !.base = plans[t], !.next = next, !.arg = arg, !.attempt = attempt]
<1>1. plans[t] \in Plans /\ next \in Plans
  BY MutatedType DEF TypeInv, StoreOK
<1>2. CallOK(r)
  BY <1>1, StartedOK DEF CallOK, CallFields, Stages, WriteStages
<1>3. CASE Answer(c)
  BY <1>3, CallAnswered DEF TypeInv
<1>4. CASE call' = [call EXCEPT ![c] = r]
  BY <1>2, <1>4, CallUpdated DEF TypeInv
<1>5. QED
  BY <1>3, <1>4 DEF Derive

(* The first state.                                                          *)
LEMMA InitTypeInv == Init => TypeInv
BY InitialAssumption, NoCallOK DEF Init, TypeInv, StoreOK

(* Starting a call.                                                          *)
LEMMA StartType ==
  ASSUME TypeInv, NEW c \in Callers, Start(c)
  PROVE  TypeInv'
<1> USE DEF StoreOK
<1>1. ASSUME NEW t \in Targets, View(c, t) PROVE TypeInv'
  <2> DEFINE r == [Started("edit", t) EXCEPT !.stage = "viewing", !.base = plans[t]]
  <2>1. CallOK(r)
    BY StartedOK DEF CallOK, CallFields, Stages, WriteStages, SyncKinds, TypeInv
  <2>2. QED
    BY <1>1, <2>1, CallUpdated DEF View, TypeInv
<1>2. ASSUME NEW t \in Targets, RemoveTarget(c, t) PROVE TypeInv'
  <2> DEFINE r == [Started("remove", t) EXCEPT !.stage = "forgetting"]
  <2>1. CallOK(r)
    BY StartedOK DEF CallOK, CallFields, Stages, SyncKinds
  <2>2. QED
    BY <1>2, <2>1, CallUpdated DEF RemoveTarget, TypeInv
<1>3. ASSUME NEW t \in Targets, StartPreview(c, t) PROVE TypeInv'
  <2>1. PICK remove \in SUBSET Networks :
          call' = [call EXCEPT ![c] =
            [Started("preview", t) EXCEPT
               !.stage = "inspecting", !.base = plans[t], !.remove = remove]]
    BY <1>3 DEF StartPreview
  <2> DEFINE r == [Started("preview", t) EXCEPT
                     !.stage = "inspecting", !.base = plans[t], !.remove = remove]
  <2>2. CallOK(r)
    BY StartedOK DEF CallOK, CallFields, Stages, WriteStages, SyncKinds, TypeInv
  <2>3. QED
    BY <1>3, <2>1, <2>2, CallUpdated DEF StartPreview, TypeInv
<1>4. ASSUME NEW t \in Targets, NEW kind \in Kinds, Ask(c, kind, t) PROVE TypeInv'
  <2>1. PICK arg \in Arguments(kind) : Derive(c, kind, t, arg, 0)
    BY <1>4 DEF Ask
  <2>2. /\ kind \in {"adopt", "release"} => arg \in Names
        /\ kind \in SyncKinds => arg \in Items
    BY <2>1 DEF Arguments, SyncKinds
  <2>3. StoreOK' /\ kind \in WriteKinds \ {"edit"}
    BY <1>4 DEF Ask, TypeInv
  <2>4. QED
    BY <2>1, <2>2, <2>3, DeriveType
<1>5. CASE Submit(c)
  <2>1. PICK plan \in Edits(call[c].base) :
          call' = [call EXCEPT ![c].stage = "checking", ![c].next = plan]
    BY <1>5 DEF Submit
  <2>2. plan \in Plans
    BY <2>1, EditsType DEF TypeInv, CallOK
  <2> DEFINE r == [call[c] EXCEPT !.stage = "checking", !.next = plan]
  <2>3. call' = [call EXCEPT ![c] = r]
    BY <2>1 DEF TypeInv
  <2>4. CallOK(r)
    BY <1>5, <2>2 DEF Submit, TypeInv, CallOK, CallFields, Stages, WriteStages, AnsweredStages
  <2>5. QED
    BY <1>5, <2>3, <2>4, CallUpdated DEF Submit, TypeInv
<1>6. CASE StartApply(c)
  <2>1. PICK approval \in shown, remove \in SUBSET Networks :
          \E confirmations \in SUBSET remove :
            /\ approval.target \notin applyingTargets
            /\ call' = [call EXCEPT ![c] =
                 [Started("apply", approval.target) EXCEPT
                    !.stage = "deriving", !.token = approval.token,
                    !.remove = remove, !.confirmations = confirmations]]
    BY <1>6 DEF StartApply
  <2>2. PICK confirmations \in SUBSET remove :
          call' = [call EXCEPT ![c] =
            [Started("apply", approval.target) EXCEPT
               !.stage = "deriving", !.token = approval.token,
               !.remove = remove, !.confirmations = confirmations]]
    BY <2>1
  <2> DEFINE r == [Started("apply", approval.target) EXCEPT
                     !.stage = "deriving", !.token = approval.token,
                     !.remove = remove, !.confirmations = confirmations]
  <2>3. approval.target \in Targets
    BY DEF TypeInv
  <2>4. CallOK(r)
    BY <2>3, StartedOK DEF CallOK, CallFields, Stages, SyncKinds
  <2>5. QED
    BY <1>6, <2>2, <2>4, CallUpdated DEF StartApply, TypeInv
<1>7. QED
  BY <1>1, <1>2, <1>3, <1>4, <1>5, <1>6 DEF Start

(* A conflict is retried, or answered.                                       *)
LEMMA ConflictType ==
  ASSUME TypeInv, NEW c \in Callers, call[c].stage \in {"checking", "storing", "writing"},
         Conflict(c), StoreOK'
  PROVE  TypeInv'
<1>1. CASE Answered(c, "conflict")
  BY <1>1, CallAnswered
<1>2. CASE call[c].kind \in SyncKinds /\ call' = [call EXCEPT ![c].stage = "retrying"]
  <2> DEFINE r == [call[c] EXCEPT !.stage = "retrying"]
  <2>1. call' = [call EXCEPT ![c] = r]
    BY <1>2 DEF TypeInv
  <2>2. CallOK(r)
    BY <1>2 DEF TypeInv, CallOK, CallFields, Stages, WriteStages, AnsweredStages
  <2>3. QED
    BY <2>1, <2>2, CallUpdated
<1>3. QED
  BY <1>1, <1>2 DEF Conflict

(* The steps of a write.                                                     *)
LEMMA WriteType ==
  ASSUME TypeInv, NEW c \in Callers, Write(c)
  PROVE  TypeInv'
<1> USE DEF StoreOK
<1>1. CASE InspectForAdopt(c)
  <2>1. CASE call' = [call EXCEPT ![c].stage = "checking"]
    <3> DEFINE r == [call[c] EXCEPT !.stage = "checking"]
    <3>1. call' = [call EXCEPT ![c] = r]
      BY <2>1 DEF TypeInv
    <3>2. CallOK(r)
      BY <1>1 DEF InspectForAdopt, TypeInv, CallOK, CallFields, Stages, WriteStages, AnsweredStages
    <3>3. QED
      BY <1>1, <3>1, <3>2, CallUpdated DEF InspectForAdopt, TypeInv
  <2>2. QED
    BY <1>1, <2>1, CallAnswered DEF InspectForAdopt, TypeInv
<1>2. CASE Retry(c)
  <2>1. CallOK(call[c]) /\ call[c].kind \in SyncKinds /\ call[c].target \in Targets
    BY <1>2 DEF Retry, TypeInv, CallOK, AnsweredStages
  <2>2. call[c].arg \in Items /\ call[c].kind \in WriteKinds \ {"edit"}
    BY <2>1 DEF CallOK, SyncKinds, WriteKinds
  <2>3. call[c].kind \notin {"adopt", "release"}
    BY <2>1 DEF SyncKinds
  <2>4. StoreOK'
    BY <1>2 DEF Retry, TypeInv
  <2>5. QED
    BY <1>2, <2>1, <2>2, <2>3, <2>4, DeriveType DEF Retry
<1>3. CASE CheckVersion(c)
  <2>1. CASE call' = [call EXCEPT ![c].stage = "storing"]
    <3> DEFINE r == [call[c] EXCEPT !.stage = "storing"]
    <3>1. call' = [call EXCEPT ![c] = r]
      BY <2>1 DEF TypeInv
    <3>2. CallOK(r)
      BY <1>3 DEF CheckVersion, TypeInv, CallOK, CallFields, Stages, WriteStages, AnsweredStages
    <3>3. QED
      BY <1>3, <3>1, <3>2, CallUpdated DEF CheckVersion, TypeInv
  <2>2. QED
    BY <1>3, <2>1, ConflictType DEF CheckVersion, TypeInv
<1>4. CASE ReadRow(c)
  <2>1. CASE call' = [call EXCEPT ![c].stage = "writing",
                                  ![c].seen = plans[call[c].target]]
    <3> DEFINE r == [call[c] EXCEPT !.stage = "writing", !.seen = plans[call[c].target]]
    <3>1. call' = [call EXCEPT ![c] = r]
      BY <2>1 DEF TypeInv
    <3>2. CallOK(r)
      BY <1>4 DEF ReadRow, TypeInv, CallOK, CallFields, Stages, WriteStages, AnsweredStages
    <3>3. QED
      BY <1>4, <3>1, <3>2, CallUpdated DEF ReadRow, TypeInv
  <2>2. QED
    BY <1>4, <2>1, ConflictType DEF ReadRow, TypeInv
<1>5. CASE WriteRow(c)
  <2>1. CallOK(call[c]) /\ call[c].target \in Targets
    BY <1>5 DEF WriteRow, TypeInv, CallOK, AnsweredStages
  <2>2. Saved(c) \in Plans
    BY <2>1 DEF Saved, CallOK, Plans
  <2>3. CASE plans' = [plans EXCEPT ![call[c].target] = Saved(c)] /\ Answer(c)
    BY <1>5, <2>1, <2>2, <2>3, CallAnswered DEF WriteRow, TypeInv
  <2>4. CASE UNCHANGED plans /\ Conflict(c)
    BY <1>5, <2>4, ConflictType DEF WriteRow, TypeInv
  <2>5. QED
    BY <1>5, <2>3, <2>4 DEF WriteRow
<1>6. QED
  BY <1>1, <1>2, <1>3, <1>4, <1>5 DEF Write

(* The steps of a preview, of an apply and of the removal of a target.       *)
LEMMA ApplyType ==
  ASSUME TypeInv, NEW c \in Callers,
         \/ Apply(c) \/ InspectForPreview(c) \/ DeletePlan(c)
         \/ Fail(c) \/ ConnectionLost(c)
  PROVE  TypeInv'
<1> USE DEF StoreOK
<1>1. CASE LoadForApply(c)
  <2> DEFINE r == [call[c] EXCEPT !.stage = "inspecting", !.base = plans[call[c].target]]
  <2>1. call' = [call EXCEPT ![c] = r]
    BY <1>1 DEF LoadForApply, TypeInv
  <2>2. CallOK(r)
    BY <1>1 DEF LoadForApply, TypeInv, CallOK, CallFields, Stages, WriteStages, AnsweredStages
  <2>3. QED
    BY <1>1, <2>1, <2>2, CallUpdated DEF LoadForApply, TypeInv
<1>2. CASE InspectForApply(c)
  <2>1. StoreOK'
    BY <1>2 DEF InspectForApply, TypeInv, Spend
  <2>2. CASE Answer(c)
    BY <2>1, <2>2, CallAnswered
  <2>3. CASE call' = [call EXCEPT ![c].stage = "resolving", ![c].change = Derived(c)]
    <3> DEFINE r == [call[c] EXCEPT !.stage = "resolving", !.change = Derived(c)]
    <3>1. call' = [call EXCEPT ![c] = r]
      BY <2>3 DEF TypeInv
    <3>2. CallOK(r)
      BY <1>2 DEF InspectForApply, TypeInv, CallOK, CallFields, Stages, WriteStages, AnsweredStages
    <3>3. QED
      BY <2>1, <3>1, <3>2, CallUpdated
  <2>4. QED
    BY <1>2, <2>2, <2>3 DEF InspectForApply
<1>3. CASE ResolveTarget(c)
  <2>1. StoreOK'
    BY <1>3 DEF ResolveTarget, TypeInv
  <2>2. CASE call' = [call EXCEPT ![c].stage = "applying",
                        ![c].pending = executableOperations(call[c].change)]
    <3> DEFINE r == [call[c] EXCEPT !.stage = "applying",
                                    !.pending = executableOperations(call[c].change)]
    <3>1. call' = [call EXCEPT ![c] = r]
      BY <2>2 DEF TypeInv
    <3>2. CallOK(r)
      BY <1>3 DEF ResolveTarget, TypeInv, CallOK, CallFields, Stages, AnsweredStages
    <3>3. QED
      BY <2>1, <3>1, <3>2, CallUpdated
  <2>3. QED
    BY <1>3, <2>1, <2>2, CallAnswered DEF ResolveTarget
<1>4. ASSUME NEW pending, call[c].stage = "applying", StoreOK',
             call' = [call EXCEPT ![c].pending = pending]
      PROVE  TypeInv'
  <2> DEFINE r == [call[c] EXCEPT !.pending = pending]
  <2>1. call' = [call EXCEPT ![c] = r]
    BY <1>4 DEF TypeInv
  <2>2. CallOK(r)
    BY <1>4 DEF TypeInv, CallOK, CallFields
  <2>3. QED
    BY <1>4, <2>1, <2>2, CallUpdated
<1>5. CASE RunOperation(c)
  <2>1. StoreOK' /\ call[c].stage = "applying"
    BY <1>5 DEF RunOperation, TypeInv
  <2>2. CASE call' = [call EXCEPT ![c].pending = Tail(@)]
    <3>1. call' = [call EXCEPT ![c].pending = Tail(call[c].pending)]
      BY <2>2 DEF TypeInv, CallOK, CallFields
    <3>2. QED
      BY <1>4, <2>1, <3>1
  <2>3. CASE call' = [call EXCEPT ![c].pending = <<>>]
    BY <1>4, <2>1, <2>3
  <2>4. QED
    BY <1>5, <2>2, <2>3 DEF RunOperation
<1>6. CASE ConnectionLost(c)
  <2>1. StoreOK' /\ call[c].stage = "applying"
    BY <1>6 DEF ConnectionLost, TypeInv
  <2>2. QED
    BY <1>4, <1>6, <2>1 DEF ConnectionLost
<1>7. CASE EndApply(c)
  BY <1>7, CallAnswered DEF EndApply, TypeInv
<1>8. CASE InspectForPreview(c)
  <2>1. StoreOK'
    BY <1>8 DEF InspectForPreview, TypeInv
  <2>2. QED
    BY <1>8, <2>1, CallAnswered DEF InspectForPreview
<1>9. CASE DeletePlan(c)
  <2>1. StoreOK'
    BY <1>9, EmptyPlan DEF DeletePlan, TypeInv
  <2>2. QED
    BY <1>9, <2>1, CallAnswered DEF DeletePlan
<1>10. CASE Fail(c)
  BY <1>10, CallAnswered DEF Fail, TypeInv
<1>11. QED
  BY <1>1, <1>2, <1>3, <1>5, <1>6, <1>7, <1>8, <1>9, <1>10 DEF Apply

(* Every step keeps the types.                                               *)
LEMMA NextType == ASSUME TypeInv, [Next]_vars PROVE TypeInv'
<1>1. ASSUME NEW c \in Callers, Start(c) \/ Proceed(c) \/ Fail(c) \/ ConnectionLost(c)
      PROVE  TypeInv'
  BY <1>1, StartType, WriteType, ApplyType DEF Proceed
<1>2. ASSUME NEW t \in Targets, Drift(t) PROVE TypeInv'
  BY <1>2 DEF Drift, TypeInv, StoreOK
<1>3. CASE Restart
  BY <1>3, NoCallOK DEF Restart, TypeInv, StoreOK
<1>4. CASE UNCHANGED vars
  BY <1>4 DEF vars, TypeInv, StoreOK
<1>5. QED
  BY <1>1, <1>2, <1>3, <1>4 DEF Next

------------------------------------------------------------------------------
(* Lost updates. *)

(* A call that works on a stored target's plan holds the plan as it is, or an *)
(* older version of it; the row its update is conditional on has the version *)
(* it read first, and a target whose plan is about to be deleted is gone.    *)
WriteOK(r) ==
  /\ r.stage \in WriteStages /\ r.target \in targets =>
       /\ r.base.version <= plans[r.target].version
       /\ r.base.version = plans[r.target].version => r.base = plans[r.target]
  /\ r.stage = "writing" => r.seen.version = r.base.version
  /\ r.stage = "writing" /\ r.target \in targets =>
       (r.seen.version = plans[r.target].version => r.seen = plans[r.target])
  /\ r.stage = "forgetting" => r.target \notin targets

WriteInv == \A c \in Callers : WriteOK(call[c])

(* A step that changes one call and neither a plan nor the targets.          *)
LEMMA WriteCallUpdated ==
  ASSUME TypeInv, WriteInv, NEW c \in Callers, NEW r, WriteOK(r),
         call' = [call EXCEPT ![c] = r], UNCHANGED <<targets, plans>>
  PROVE  WriteInv'
BY DEF TypeInv, WriteInv, WriteOK

LEMMA WriteCallAnswered ==
  ASSUME TypeInv, WriteInv, NEW c \in Callers,
         Answer(c) \/ Answered(c, "conflict"), UNCHANGED <<targets, plans>>
  PROVE  WriteInv'
<1>1. WriteOK(NoCall) /\ WriteOK([NoCall EXCEPT !.stage = "conflict"])
  BY DEF WriteOK, NoCall, WriteStages
<1>2. QED
  BY <1>1, WriteCallUpdated DEF Answer, Answered

(* A plan that was just read is the plan.                                    *)
LEMMA WriteDerived ==
  ASSUME TypeInv, WriteInv, NEW c \in Callers, NEW kind, NEW t \in Targets,
         NEW arg, NEW attempt, Derive(c, kind, t, arg, attempt),
         UNCHANGED <<targets, plans>>
  PROVE  WriteInv'
<1> DEFINE next == Mutated(kind, plans[t], arg)
           r == [Started(kind, t) EXCEPT
                   !.stage = IF kind = "adopt" THEN "inspecting" ELSE "checking",
                   !.base = plans[t], !.next = next, !.arg = arg, !.attempt = attempt]
<1>1. WriteOK(r)
  BY StartedOK DEF WriteOK, CallFields, TypeInv, StoreOK, Plans
<1>2. QED
  BY <1>1, WriteCallUpdated, WriteCallAnswered DEF Derive

LEMMA InitWriteInv == Init => WriteInv
BY DEF Init, WriteInv, WriteOK, NoCall, WriteStages

(* Nothing is written when a call starts.                                    *)
LEMMA StartWrite ==
  ASSUME TypeInv, WriteInv, NEW c \in Callers, Start(c)
  PROVE  WriteInv'
<1>1. ASSUME NEW t \in Targets, View(c, t) PROVE WriteInv'
  <2> DEFINE r == [Started("edit", t) EXCEPT !.stage = "viewing", !.base = plans[t]]
  <2>1. WriteOK(r)
    BY StartedOK DEF WriteOK, CallFields, TypeInv, StoreOK, Plans
  <2>2. QED
    BY <1>1, <2>1, WriteCallUpdated DEF View
<1>2. ASSUME NEW t \in Targets, RemoveTarget(c, t) PROVE WriteInv'
  <2> DEFINE r == [Started("remove", t) EXCEPT !.stage = "forgetting"]
  <2>1. targets' = targets \ {t} /\ plans' = plans /\ call' = [call EXCEPT ![c] = r]
    BY <1>2 DEF RemoveTarget
  <2>2. r.stage = "forgetting" /\ r.target = t
    BY StartedOK DEF CallFields
  <2>3. \A d \in Callers \ {c} : WriteOK(call[d])'
    BY <2>1 DEF TypeInv, WriteInv, WriteOK
  <2>4. WriteOK(call[c])'
    BY <2>1, <2>2 DEF TypeInv, WriteOK, WriteStages
  <2>5. QED
    BY <2>3, <2>4 DEF WriteInv
<1>3. ASSUME NEW t \in Targets, StartPreview(c, t) PROVE WriteInv'
  <2>1. PICK remove \in SUBSET Networks :
          call' = [call EXCEPT ![c] =
            [Started("preview", t) EXCEPT
               !.stage = "inspecting", !.base = plans[t], !.remove = remove]]
    BY <1>3 DEF StartPreview
  <2> DEFINE r == [Started("preview", t) EXCEPT
                     !.stage = "inspecting", !.base = plans[t], !.remove = remove]
  <2>2. WriteOK(r)
    BY StartedOK DEF WriteOK, CallFields, TypeInv, StoreOK, Plans
  <2>3. QED
    BY <1>3, <2>1, <2>2, WriteCallUpdated DEF StartPreview
<1>4. ASSUME NEW t \in Targets, NEW kind \in Kinds, Ask(c, kind, t) PROVE WriteInv'
  BY <1>4, WriteDerived DEF Ask
<1>5. CASE Submit(c)
  <2>1. PICK plan \in Edits(call[c].base) :
          call' = [call EXCEPT ![c].stage = "checking", ![c].next = plan]
    BY <1>5 DEF Submit
  <2> DEFINE r == [call[c] EXCEPT !.stage = "checking", !.next = plan]
  <2>2. call' = [call EXCEPT ![c] = r]
    BY <2>1 DEF TypeInv
  <2>3. WriteOK(r)
    BY <1>5 DEF Submit, TypeInv, CallOK, CallFields, WriteInv, WriteOK, WriteStages
  <2>4. QED
    BY <1>5, <2>2, <2>3, WriteCallUpdated DEF Submit
<1>6. CASE StartApply(c)
  <2>1. PICK approval \in shown, remove \in SUBSET Networks :
          \E confirmations \in SUBSET remove :
            /\ approval.target \notin applyingTargets
            /\ call' = [call EXCEPT ![c] =
                 [Started("apply", approval.target) EXCEPT
                    !.stage = "deriving", !.token = approval.token,
                    !.remove = remove, !.confirmations = confirmations]]
    BY <1>6 DEF StartApply
  <2>2. PICK confirmations \in SUBSET remove :
          call' = [call EXCEPT ![c] =
            [Started("apply", approval.target) EXCEPT
               !.stage = "deriving", !.token = approval.token,
               !.remove = remove, !.confirmations = confirmations]]
    BY <2>1
  <2> DEFINE r == [Started("apply", approval.target) EXCEPT
                     !.stage = "deriving", !.token = approval.token,
                     !.remove = remove, !.confirmations = confirmations]
  <2>3. r.stage = "deriving"
    BY <2>2, StartedOK DEF CallFields, TypeInv, StoreOK
  <2>4. WriteOK(r)
    BY <2>3 DEF WriteOK, WriteStages
  <2>5. QED
    BY <1>6, <2>2, <2>4, WriteCallUpdated DEF StartApply
<1>7. QED
  BY <1>1, <1>2, <1>3, <1>4, <1>5, <1>6 DEF Start

(* A call that only moves on, with the same plans, stays in order.           *)
LEMMA WriteMovedOn ==
  ASSUME TypeInv, WriteInv, NEW c \in Callers, NEW stage,
         call[c].stage \in WriteStages, stage # "writing", stage # "forgetting",
         call' = [call EXCEPT ![c].stage = stage], UNCHANGED <<targets, plans>>
  PROVE  WriteInv'
<1> DEFINE r == [call[c] EXCEPT !.stage = stage]
<1>1. call' = [call EXCEPT ![c] = r]
  BY DEF TypeInv
<1>2. WriteOK(r)
  BY DEF TypeInv, CallOK, CallFields, WriteInv, WriteOK
<1>3. QED
  BY <1>1, <1>2, WriteCallUpdated

LEMMA WriteConflict ==
  ASSUME TypeInv, WriteInv, NEW c \in Callers, call[c].stage \in WriteStages,
         Conflict(c), UNCHANGED <<targets, plans>>
  PROVE  WriteInv'
BY WriteCallAnswered, WriteMovedOn DEF Conflict

(* A row that is written has a newer version than every plan that was read.  *)
LEMMA WriteRowWrite ==
  ASSUME TypeInv, WriteInv, NEW c \in Callers, WriteRow(c), RowUnchanged(c)
  PROVE  WriteInv'
<1> DEFINE t == call[c].target
<1>1. t \in Targets /\ call[c].base \in Plans /\ call[c].seen \in Plans /\ call[c].next \in Plans
  BY DEF WriteRow, TypeInv, CallOK, AnsweredStages
<1>2. /\ plans' = [plans EXCEPT ![t] = Saved(c)]
      /\ call' = [call EXCEPT ![c] = NoCall]
      /\ targets' = targets
  BY DEF WriteRow, Answer
<1>3. plans[t].version = call[c].base.version
  BY DEF WriteRow, RowUnchanged, WriteInv, WriteOK
<1>4. plans'[t].version = plans[t].version + 1 /\ plans[t].version \in Nat
  BY <1>1, <1>2, <1>3 DEF TypeInv, StoreOK, Saved, Plans
<1>5. WriteOK(call[c])'
  BY <1>2 DEF TypeInv, WriteOK, NoCall, WriteStages
<1>6. ASSUME NEW d \in Callers \ {c} PROVE WriteOK(call[d])'
  <2>1. call'[d] = call[d] /\ CallOK(call[d]) /\ WriteOK(call[d])
    BY <1>2 DEF TypeInv, WriteInv
  <2>2. CASE call[d].target # t
    BY <1>1, <1>2, <2>1, <2>2 DEF WriteOK, TypeInv, StoreOK
  <2>3. CASE call[d].target = t
    <3>1. call[d].base.version \in Nat /\ call[d].seen.version \in Nat
      BY <2>1 DEF CallOK, Plans
    <3>2. QED
      BY <1>2, <1>4, <2>1, <2>3, <3>1 DEF WriteOK, WriteStages
  <2>4. QED
    BY <2>2, <2>3
<1>7. QED
  BY <1>5, <1>6 DEF WriteInv

(* The other steps of a write.                                               *)
LEMMA ProceedWrite ==
  ASSUME TypeInv, WriteInv, NEW c \in Callers, Write(c)
  PROVE  WriteInv'
<1>1. CASE InspectForAdopt(c)
  BY <1>1, WriteMovedOn, WriteCallAnswered DEF InspectForAdopt, WriteStages
<1>2. CASE Retry(c)
  <2>1. call[c].target \in Targets
    BY <1>2 DEF Retry, TypeInv, CallOK, AnsweredStages
  <2>2. QED
    BY <1>2, <2>1, WriteDerived DEF Retry
<1>3. CASE CheckVersion(c)
  BY <1>3, WriteMovedOn, WriteConflict DEF CheckVersion, WriteStages
<1>4. CASE ReadRow(c)
  <2>1. CASE /\ call[c].base.version = plans[call[c].target].version
             /\ call' = [call EXCEPT ![c].stage = "writing",
                                     ![c].seen = plans[call[c].target]]
    <3> DEFINE r == [call[c] EXCEPT !.stage = "writing", !.seen = plans[call[c].target]]
    <3>1. call' = [call EXCEPT ![c] = r]
      BY <2>1 DEF TypeInv
    <3>2. WriteOK(r)
      BY <1>4, <2>1 DEF ReadRow, TypeInv, CallOK, CallFields, WriteInv, WriteOK, WriteStages
    <3>3. QED
      BY <1>4, <3>1, <3>2, WriteCallUpdated DEF ReadRow
  <2>2. QED
    BY <1>4, <2>1, WriteConflict DEF ReadRow, WriteStages
<1>5. CASE WriteRow(c)
  <2>1. CASE RowUnchanged(c)
    BY <1>5, <2>1, WriteRowWrite
  <2>2. CASE ~RowUnchanged(c)
    BY <1>5, <2>2, WriteConflict DEF WriteRow, WriteStages
  <2>3. QED
    BY <2>1, <2>2
<1>6. QED
  BY <1>1, <1>2, <1>3, <1>4, <1>5 DEF Write

(* The steps of a preview and of an apply write no plan.                     *)
LEMMA ApplyWrite ==
  ASSUME TypeInv, WriteInv, NEW c \in Callers,
         Apply(c) \/ InspectForPreview(c) \/ Fail(c) \/ ConnectionLost(c)
  PROVE  WriteInv'
<1>1. CASE LoadForApply(c)
  <2> DEFINE r == [call[c] EXCEPT !.stage = "inspecting", !.base = plans[call[c].target]]
  <2>1. call' = [call EXCEPT ![c] = r]
    BY <1>1 DEF LoadForApply, TypeInv
  <2>2. WriteOK(r)
    BY <1>1 DEF LoadForApply, TypeInv, StoreOK, CallOK, CallFields, WriteOK, AnsweredStages, Plans
  <2>3. QED
    BY <1>1, <2>1, <2>2, WriteCallUpdated DEF LoadForApply
<1>2. CASE InspectForApply(c)
  <2>1. CASE call' = [call EXCEPT ![c].stage = "resolving", ![c].change = Derived(c)]
    <3> DEFINE r == [call[c] EXCEPT !.stage = "resolving", !.change = Derived(c)]
    <3>1. call' = [call EXCEPT ![c] = r] /\ r.stage = "resolving"
      BY <2>1 DEF TypeInv, CallOK, CallFields
    <3>2. WriteOK(r)
      BY <3>1 DEF WriteOK, WriteStages
    <3>3. QED
      BY <1>2, <3>1, <3>2, WriteCallUpdated DEF InspectForApply
  <2>2. QED
    BY <1>2, <2>1, WriteCallAnswered DEF InspectForApply
<1>3. CASE ResolveTarget(c)
  <2>1. CASE call' = [call EXCEPT ![c].stage = "applying",
                        ![c].pending = executableOperations(call[c].change)]
    <3> DEFINE r == [call[c] EXCEPT !.stage = "applying",
                                    !.pending = executableOperations(call[c].change)]
    <3>1. call' = [call EXCEPT ![c] = r] /\ r.stage = "applying"
      BY <2>1 DEF TypeInv, CallOK, CallFields
    <3>2. WriteOK(r)
      BY <3>1 DEF WriteOK, WriteStages
    <3>3. QED
      BY <1>3, <3>1, <3>2, WriteCallUpdated DEF ResolveTarget
  <2>2. QED
    BY <1>3, <2>1, WriteCallAnswered DEF ResolveTarget
<1>4. ASSUME NEW pending, call[c].stage = "applying", UNCHANGED <<targets, plans>>,
             call' = [call EXCEPT ![c].pending = pending]
      PROVE  WriteInv'
  <2> DEFINE r == [call[c] EXCEPT !.pending = pending]
  <2>1. call' = [call EXCEPT ![c] = r] /\ r.stage = "applying"
    BY <1>4 DEF TypeInv, CallOK, CallFields
  <2>2. WriteOK(r)
    BY <2>1 DEF WriteOK, WriteStages
  <2>3. QED
    BY <1>4, <2>1, <2>2, WriteCallUpdated
<1>5. CASE RunOperation(c)
  <2>1. CASE call' = [call EXCEPT ![c].pending = Tail(@)]
    <3>1. call' = [call EXCEPT ![c].pending = Tail(call[c].pending)]
      BY <2>1 DEF TypeInv, CallOK, CallFields
    <3>2. QED
      BY <1>4, <1>5, <3>1 DEF RunOperation
  <2>2. CASE call' = [call EXCEPT ![c].pending = <<>>]
    BY <1>4, <1>5, <2>2 DEF RunOperation
  <2>3. QED
    BY <1>5, <2>1, <2>2 DEF RunOperation
<1>6. CASE ConnectionLost(c)
  BY <1>4, <1>6 DEF ConnectionLost
<1>7. QED
  BY <1>1, <1>2, <1>3, <1>5, <1>6, WriteCallAnswered
     DEF Apply, EndApply, InspectForPreview, Fail

(* A plan is deleted only when its target is gone.                           *)
LEMMA DeleteWrite ==
  ASSUME TypeInv, WriteInv, NEW c \in Callers, DeletePlan(c)
  PROVE  WriteInv' /\ \A t \in targets : plans'[t] = plans[t]
<1>1. /\ plans' = [plans EXCEPT ![call[c].target] = emptyRuntimePlan]
      /\ call' = [call EXCEPT ![c] = NoCall]
      /\ targets' = targets
      /\ call[c].target \notin targets
  BY DEF DeletePlan, Answer, WriteInv, WriteOK
<1>2. \A t \in targets : plans'[t] = plans[t]
  BY <1>1 DEF TypeInv, StoreOK
<1>3. \A d \in Callers \ {c} : WriteOK(call[d])'
  BY <1>1, <1>2 DEF TypeInv, WriteInv, WriteOK
<1>4. WriteOK(call[c])'
  BY <1>1 DEF TypeInv, WriteOK, NoCall, WriteStages
<1>5. QED
  BY <1>2, <1>3, <1>4 DEF WriteInv

LEMMA NextWrite == ASSUME TypeInv, WriteInv, [Next]_vars PROVE WriteInv'
<1>1. ASSUME NEW c \in Callers, Start(c) \/ Proceed(c) \/ Fail(c) \/ ConnectionLost(c)
      PROVE  WriteInv'
  BY <1>1, StartWrite, ProceedWrite, ApplyWrite, DeleteWrite DEF Proceed
<1>2. ASSUME NEW t \in Targets, Drift(t) PROVE WriteInv'
  BY <1>2 DEF Drift, WriteInv, WriteOK
<1>3. CASE Restart
  BY <1>3 DEF Restart, WriteInv, WriteOK, NoCall, WriteStages
<1>4. CASE UNCHANGED vars
  BY <1>4 DEF vars, WriteInv, WriteOK
<1>5. QED
  BY <1>1, <1>2, <1>3, <1>4 DEF Next

(* Both invariants together.                                                 *)
LEMMA SpecWrite == Spec => [](TypeInv /\ WriteInv)
<1>1. Init => TypeInv /\ WriteInv
  BY InitTypeInv, InitWriteInv
<1>2. TypeInv /\ WriteInv /\ [Next]_vars => (TypeInv /\ WriteInv)'
  BY NextType, NextWrite
<1>3. QED
  BY <1>1, <1>2, PTL DEF Spec

(* No edit is lost: whoever replaces the plan of a stored target made its    *)
(* change from that very plan, for any number of windows and synchronizers   *)
(* and whatever is deleted in between (RuntimePlanService.save and the       *)
(* compare-and-set of PrismaRuntimePlanStore).                               *)
THEOREM NothingLost == Spec => NoLostUpdate
<1>1. ASSUME TypeInv, WriteInv, [Next]_vars, NEW t \in targets,
             plans'[t] # plans[t], plans'[t] # emptyRuntimePlan
      PROVE  \E c \in Callers :
               /\ call[c].target = t
               /\ call[c].base = plans[t]
               /\ plans'[t] = Saved(c)
  <2>1. PICK c \in Callers : WriteRow(c) \/ DeletePlan(c)
    BY ZenonT(60), <1>1 DEF Next, Start, View, RemoveTarget, StartPreview, Ask, Submit,
       StartApply, Proceed, Write, Apply, InspectForAdopt, Retry, CheckVersion,
       ReadRow, LoadForApply, InspectForApply, ResolveTarget, RunOperation,
       EndApply, InspectForPreview, Fail, ConnectionLost, Drift, Restart, vars
  <2>2. WriteRow(c) /\ RowUnchanged(c)
    BY <1>1, <2>1, DeleteWrite DEF WriteRow
  <2>3. call[c].target = t /\ plans'[t] = Saved(c)
    BY <1>1, <2>2 DEF WriteRow, TypeInv, StoreOK
  <2>4. call[c].base = plans[t]
    BY <1>1, <2>2, <2>3 DEF WriteRow, RowUnchanged, WriteInv, WriteOK, WriteStages
  <2>5. QED
    BY <2>3, <2>4
<1>2. TypeInv /\ WriteInv /\ [Next]_vars =>
        [\A t \in targets : plans'[t] # plans[t] /\ plans'[t] # emptyRuntimePlan =>
           \E c \in Callers :
             /\ call[c].target = t
             /\ call[c].base = plans[t]
             /\ plans'[t] = Saved(c)]_vars
  BY <1>1
<1>3. QED
  BY <1>2, SpecWrite, PTL DEF Spec, NoLostUpdate

------------------------------------------------------------------------------
(* The register. *)

(* What a call wants to store is a change of the plan it works from.         *)
MadeOK(r) ==
  /\ \/ r.stage \in {"checking", "storing", "writing"}
     \/ r.stage = "inspecting" /\ r.kind = "adopt"
     => r.next \in ChangesOf(r.base)
  /\ r.stage = "deriving" => r.kind = "apply"

MadeInv == \A c \in Callers : MadeOK(call[c])

(* A step that changes one call.                                             *)
LEMMA MadeCallUpdated ==
  ASSUME TypeInv, MadeInv, NEW c \in Callers, NEW r, MadeOK(r),
         call' = [call EXCEPT ![c] = r]
  PROVE  MadeInv'
BY DEF TypeInv, MadeInv

LEMMA MadeCallAnswered ==
  ASSUME TypeInv, MadeInv, NEW c \in Callers, Answer(c) \/ Answered(c, "conflict")
  PROVE  MadeInv'
<1>1. MadeOK(NoCall) /\ MadeOK([NoCall EXCEPT !.stage = "conflict"])
  BY DEF MadeOK, NoCall
<1>2. QED
  BY <1>1, MadeCallUpdated DEF Answer, Answered

(* What a call of a feature derives is a change of the stored plan.          *)
LEMMA MadeDerived ==
  ASSUME TypeInv, MadeInv, NEW c \in Callers, NEW kind \in WriteKinds \ {"edit"},
         NEW t \in Targets, NEW arg \in Arguments(kind), NEW attempt,
         Derive(c, kind, t, arg, attempt)
  PROVE  MadeInv'
<1> DEFINE next == Mutated(kind, plans[t], arg)
           r == [Started(kind, t) EXCEPT
                   !.stage = IF kind = "adopt" THEN "inspecting" ELSE "checking",
                   !.base = plans[t], !.next = next, !.arg = arg, !.attempt = attempt]
<1>1. next \in ChangesOf(plans[t])
  BY DEF ChangesOf
<1>2. r.base = plans[t] /\ r.next = next /\ r.stage \in {"inspecting", "checking"}
  BY StartedOK DEF CallFields
<1> HIDE DEF next
<1>3. MadeOK(r)
  BY <1>1, <1>2 DEF MadeOK
<1>4. QED
  BY <1>3, MadeCallUpdated, MadeCallAnswered DEF Derive, next

(* A call that moves on, or lost a race, wants what it wanted.               *)
LEMMA MadeMovedOn ==
  ASSUME TypeInv, MadeInv, NEW c \in Callers, NEW stage,
         \/ call[c].stage \in {"checking", "storing", "writing"}
         \/ call[c].stage = "inspecting" /\ call[c].kind = "adopt",
         stage # "deriving", call' = [call EXCEPT ![c].stage = stage]
  PROVE  MadeInv'
<1> DEFINE r == [call[c] EXCEPT !.stage = stage]
<1>1. call' = [call EXCEPT ![c] = r]
  BY DEF TypeInv
<1>2. MadeOK(r)
  BY DEF TypeInv, CallOK, CallFields, MadeInv, MadeOK
<1>3. QED
  BY <1>1, <1>2, MadeCallUpdated

LEMMA MadeConflict ==
  ASSUME TypeInv, MadeInv, NEW c \in Callers,
         call[c].stage \in {"checking", "storing", "writing"}, Conflict(c)
  PROVE  MadeInv'
BY MadeCallAnswered, MadeMovedOn DEF Conflict

(* A call that starts.                                                       *)
LEMMA StartMade ==
  ASSUME TypeInv, MadeInv, NEW c \in Callers, Start(c)
  PROVE  MadeInv'
<1>1. ASSUME NEW t \in Targets, View(c, t) PROVE MadeInv'
  <2> DEFINE r == [Started("edit", t) EXCEPT !.stage = "viewing", !.base = plans[t]]
  <2>1. MadeOK(r)
    BY StartedOK DEF MadeOK, CallFields
  <2>2. QED
    BY <1>1, <2>1, MadeCallUpdated DEF View
<1>2. ASSUME NEW t \in Targets, RemoveTarget(c, t) PROVE MadeInv'
  <2> DEFINE r == [Started("remove", t) EXCEPT !.stage = "forgetting"]
  <2>1. MadeOK(r)
    BY StartedOK DEF MadeOK, CallFields
  <2>2. QED
    BY <1>2, <2>1, MadeCallUpdated DEF RemoveTarget
<1>3. ASSUME NEW t \in Targets, StartPreview(c, t) PROVE MadeInv'
  <2>1. PICK remove \in SUBSET Networks :
          call' = [call EXCEPT ![c] =
            [Started("preview", t) EXCEPT
               !.stage = "inspecting", !.base = plans[t], !.remove = remove]]
    BY <1>3 DEF StartPreview
  <2> DEFINE r == [Started("preview", t) EXCEPT
                     !.stage = "inspecting", !.base = plans[t], !.remove = remove]
  <2>2. MadeOK(r)
    BY StartedOK DEF MadeOK, CallFields
  <2>3. QED
    BY <2>1, <2>2, MadeCallUpdated
<1>4. ASSUME NEW t \in Targets, NEW kind \in Kinds, Ask(c, kind, t) PROVE MadeInv'
  BY <1>4, MadeDerived DEF Ask
<1>5. CASE Submit(c)
  <2>1. PICK plan \in Edits(call[c].base) :
          call' = [call EXCEPT ![c].stage = "checking", ![c].next = plan]
    BY <1>5 DEF Submit
  <2> DEFINE r == [call[c] EXCEPT !.stage = "checking", !.next = plan]
  <2>2. call' = [call EXCEPT ![c] = r]
    BY <2>1 DEF TypeInv
  <2>3. r.stage = "checking" /\ r.next = plan /\ r.base = call[c].base
    BY DEF TypeInv, CallOK, CallFields
  <2>4. MadeOK(r)
    BY <2>1, <2>3 DEF MadeOK, ChangesOf
  <2>5. QED
    BY <2>2, <2>4, MadeCallUpdated
<1>6. CASE StartApply(c)
  <2>1. PICK approval \in shown, remove \in SUBSET Networks :
          \E confirmations \in SUBSET remove :
            call' = [call EXCEPT ![c] =
              [Started("apply", approval.target) EXCEPT
                 !.stage = "deriving", !.token = approval.token,
                 !.remove = remove, !.confirmations = confirmations]]
    BY <1>6 DEF StartApply
  <2>2. PICK confirmations \in SUBSET remove :
          call' = [call EXCEPT ![c] =
            [Started("apply", approval.target) EXCEPT
               !.stage = "deriving", !.token = approval.token,
               !.remove = remove, !.confirmations = confirmations]]
    BY <2>1
  <2> DEFINE r == [Started("apply", approval.target) EXCEPT
                     !.stage = "deriving", !.token = approval.token,
                     !.remove = remove, !.confirmations = confirmations]
  <2>3. r.stage = "deriving" /\ r.kind = "apply"
    BY StartedOK DEF CallFields, TypeInv, StoreOK
  <2>4. MadeOK(r)
    BY <2>3 DEF MadeOK
  <2>5. QED
    BY <2>2, <2>4, MadeCallUpdated
<1>7. QED
  BY <1>1, <1>2, <1>3, <1>4, <1>5, <1>6 DEF Start

(* The steps of a write.                                                     *)
LEMMA WriteMade ==
  ASSUME TypeInv, MadeInv, NEW c \in Callers, Write(c)
  PROVE  MadeInv'
<1>1. CASE InspectForAdopt(c)
  BY <1>1, MadeMovedOn, MadeCallAnswered DEF InspectForAdopt
<1>2. CASE Retry(c)
  <2>1. /\ call[c].target \in Targets /\ call[c].kind \in WriteKinds \ {"edit"}
        /\ call[c].arg \in Arguments(call[c].kind)
    BY <1>2 DEF Retry, TypeInv, CallOK, AnsweredStages, SyncKinds, WriteKinds, Arguments
  <2>2. QED
    BY <1>2, <2>1, MadeDerived DEF Retry
<1>3. CASE CheckVersion(c)
  BY <1>3, MadeMovedOn, MadeConflict DEF CheckVersion
<1>4. CASE ReadRow(c)
  <2>1. CASE call' = [call EXCEPT ![c].stage = "writing", ![c].seen = plans[call[c].target]]
    <3> DEFINE r == [call[c] EXCEPT !.stage = "writing", !.seen = plans[call[c].target]]
    <3>1. call' = [call EXCEPT ![c] = r]
      BY <2>1 DEF TypeInv
    <3>2. MadeOK(r)
      BY <1>4 DEF ReadRow, TypeInv, CallOK, CallFields, MadeInv, MadeOK
    <3>3. QED
      BY <3>1, <3>2, MadeCallUpdated
  <2>2. QED
    BY <1>4, <2>1, MadeConflict DEF ReadRow
<1>5. CASE WriteRow(c)
  BY <1>5, MadeConflict, MadeCallAnswered DEF WriteRow
<1>6. QED
  BY <1>1, <1>2, <1>3, <1>4, <1>5 DEF Write

(* The steps of the other calls, and those that end one.                     *)
LEMMA ApplyMade ==
  ASSUME TypeInv, MadeInv, NEW c \in Callers,
         \/ Apply(c) \/ InspectForPreview(c) \/ DeletePlan(c) \/ Fail(c) \/ ConnectionLost(c)
  PROVE  MadeInv'
<1>1. CASE LoadForApply(c)
  <2> DEFINE r == [call[c] EXCEPT !.stage = "inspecting", !.base = plans[call[c].target]]
  <2>1. call' = [call EXCEPT ![c] = r]
    BY <1>1 DEF LoadForApply, TypeInv
  <2>2. r.kind = "apply" /\ r.stage = "inspecting"
    BY <1>1 DEF LoadForApply, TypeInv, CallOK, CallFields, MadeInv, MadeOK
  <2>3. MadeOK(r)
    BY <2>2 DEF MadeOK
  <2>4. QED
    BY <2>1, <2>3, MadeCallUpdated
<1>2. CASE InspectForApply(c)
  <2>1. CASE call' = [call EXCEPT ![c].stage = "resolving", ![c].change = Derived(c)]
    <3> DEFINE r == [call[c] EXCEPT !.stage = "resolving", !.change = Derived(c)]
    <3>1. call' = [call EXCEPT ![c] = r] /\ r.stage = "resolving"
      BY <2>1 DEF TypeInv, CallOK, CallFields
    <3>2. MadeOK(r)
      BY <3>1 DEF MadeOK
    <3>3. QED
      BY <3>1, <3>2, MadeCallUpdated
  <2>2. QED
    BY <1>2, <2>1, MadeCallAnswered DEF InspectForApply
<1>3. CASE ResolveTarget(c)
  <2>1. CASE call' = [call EXCEPT ![c].stage = "applying",
                        ![c].pending = executableOperations(call[c].change)]
    <3> DEFINE r == [call[c] EXCEPT !.stage = "applying",
                                    !.pending = executableOperations(call[c].change)]
    <3>1. call' = [call EXCEPT ![c] = r] /\ r.stage = "applying"
      BY <2>1 DEF TypeInv, CallOK, CallFields
    <3>2. MadeOK(r)
      BY <3>1 DEF MadeOK
    <3>3. QED
      BY <3>1, <3>2, MadeCallUpdated
  <2>2. QED
    BY <1>3, <2>1, MadeCallAnswered DEF ResolveTarget
<1>4. ASSUME NEW pending, call[c].stage = "applying",
             call' = [call EXCEPT ![c].pending = pending]
      PROVE  MadeInv'
  <2> DEFINE r == [call[c] EXCEPT !.pending = pending]
  <2>1. call' = [call EXCEPT ![c] = r] /\ r.stage = "applying"
    BY <1>4 DEF TypeInv, CallOK, CallFields
  <2>2. MadeOK(r)
    BY <2>1 DEF MadeOK
  <2>3. QED
    BY <2>1, <2>2, MadeCallUpdated
<1>5. CASE RunOperation(c)
  <2>1. CASE call' = [call EXCEPT ![c].pending = Tail(@)]
    <3>1. call' = [call EXCEPT ![c].pending = Tail(call[c].pending)]
      BY <2>1 DEF TypeInv, CallOK, CallFields
    <3>2. QED
      BY <1>4, <1>5, <3>1 DEF RunOperation
  <2>2. QED
    BY <1>4, <1>5, <2>1 DEF RunOperation
<1>6. CASE ConnectionLost(c)
  BY <1>4, <1>6 DEF ConnectionLost
<1>7. QED
  BY <1>1, <1>2, <1>3, <1>5, <1>6, MadeCallAnswered
     DEF Apply, EndApply, InspectForPreview, DeletePlan, Fail

LEMMA NextMade == ASSUME TypeInv, MadeInv, [Next]_vars PROVE MadeInv'
<1>1. ASSUME NEW c \in Callers, Start(c) \/ Proceed(c) \/ Fail(c) \/ ConnectionLost(c)
      PROVE  MadeInv'
  BY <1>1, StartMade, WriteMade, ApplyMade DEF Proceed
<1>2. ASSUME NEW t \in Targets, Drift(t) PROVE MadeInv'
  BY <1>2 DEF Drift, MadeInv
<1>3. CASE Restart
  BY <1>3 DEF Restart, MadeInv, MadeOK, NoCall
<1>4. CASE UNCHANGED vars
  BY <1>4 DEF vars, MadeInv
<1>5. QED
  BY <1>1, <1>2, <1>3, <1>4 DEF Next

(* Only three steps touch what the register shows.                           *)
LEMMA StoredChanges ==
  ASSUME [Next]_vars
  PROVE  \/ UNCHANGED <<targets, plans>>
         \/ \E c \in Callers : \/ WriteRow(c) \/ DeletePlan(c)
                               \/ \E t \in Targets : RemoveTarget(c, t)
BY ZenonT(60) DEF Next, Start, View, StartPreview, Ask, Submit,
   StartApply, Proceed, Write, Apply, InspectForAdopt, Retry, CheckVersion,
   ReadRow, LoadForApply, InspectForApply, ResolveTarget, RunOperation,
   EndApply, InspectForPreview, Fail, ConnectionLost, Drift, Restart, vars

(* A step is one change of the register, or none.                            *)
LEMMA RegisterStep ==
  ASSUME TypeInv, WriteInv, MadeInv, TypeInv', [Next]_vars
  PROVE  [Register!Next]_(Register!registerVars)
<1>1. ASSUME NEW c \in Callers, NEW t \in Targets, RemoveTarget(c, t) PROVE Register!Next
  BY <1>1 DEF RemoveTarget, Register!Next, Register!Remove
<1>2. ASSUME NEW c \in Callers, DeletePlan(c) PROVE Register!Next
  <2>1. call[c].target \in Targets \ targets
    BY <1>2 DEF DeletePlan, TypeInv, CallOK, AnsweredStages, WriteInv, WriteOK
  <2>2. plans' = [plans EXCEPT ![call[c].target] = emptyRuntimePlan] /\ targets' = targets
    BY <1>2 DEF DeletePlan
  <2>3. plans'[call[c].target] = emptyRuntimePlan /\ emptyRuntimePlan \in Plans
    BY <2>1, <2>2, EmptyPlan DEF TypeInv, StoreOK
  <2>4. Register!Forget(call[c].target)
    BY <2>1, <2>2, <2>3 DEF Register!Forget
  <2>5. QED
    BY <2>1, <2>4 DEF Register!Next
<1>3. ASSUME NEW c \in Callers, WriteRow(c)
      PROVE  Register!Next \/ UNCHANGED <<targets, plans>>
  <2>1. call[c].target \in Targets /\ call[c].next \in ChangesOf(call[c].base)
    BY <1>3 DEF WriteRow, TypeInv, CallOK, AnsweredStages, MadeInv, MadeOK
  <2>2. CASE ~RowUnchanged(c)
    BY <1>3, <2>2 DEF WriteRow
  <2>3. CASE RowUnchanged(c)
    <3>1. plans' = [plans EXCEPT ![call[c].target] = Saved(c)] /\ targets' = targets
      BY <1>3, <2>3 DEF WriteRow
    <3>2. CASE call[c].target \in targets
      <4>1. call[c].base = plans[call[c].target]
        BY <1>3, <2>3, <3>2 DEF WriteRow, RowUnchanged, WriteInv, WriteOK, WriteStages
      <4>2. Register!Change(call[c].target)
        BY <2>1, <3>1, <3>2, <4>1 DEF Register!Change, Saved
      <4>3. QED
        BY <2>1, <4>2 DEF Register!Next
    <3>3. CASE call[c].target \notin targets
      <4>1. plans'[call[c].target] \in Plans /\ plans'[call[c].target] = Saved(c)
        BY <2>1, <3>1 DEF TypeInv, StoreOK
      <4>2. Register!Forget(call[c].target)
        BY <2>1, <3>1, <3>3, <4>1 DEF Register!Forget
      <4>3. QED
        BY <2>1, <4>2 DEF Register!Next
    <3>4. QED
      BY <3>2, <3>3
  <2>4. QED
    BY <2>2, <2>3
<1>4. QED
  BY <1>1, <1>2, <1>3, StoredChanges DEF Register!registerVars

(* The stored plans are a register per target that changes in one step, for  *)
(* any number of windows and synchronizers: each change is one that a user   *)
(* or a feature may make of the plan it replaces, and has the next version   *)
(* (RuntimePlanService.save, mutateTopology and PrismaRuntimePlanStore).     *)
THEOREM PlansAreARegister == Spec => ImplementsRegister
<1>1. Init => Register!Init /\ MadeInv
  BY InitialAssumption DEF Init, Register!Init, MadeInv, MadeOK, NoCall
<1>2. TypeInv /\ MadeInv /\ [Next]_vars => MadeInv'
  BY NextMade
<1>3. /\ TypeInv /\ WriteInv /\ MadeInv /\ TypeInv' /\ [Next]_vars
      => [Register!Next]_(Register!registerVars)
  BY RegisterStep
<1>4. QED
  BY <1>1, <1>2, <1>3, SpecWrite, PTL DEF Spec, ImplementsRegister, Register!Spec

------------------------------------------------------------------------------
(* False conflicts. *)

(* A step of a call that ends in a conflict failed one of three comparisons. *)
LEMMA ConflictCauses ==
  ASSUME TypeInv, NEW c \in Callers, NEW d \in Callers,
         Start(d) \/ Proceed(d) \/ Fail(d) \/ ConnectionLost(d),
         call[c].stage # "conflict", call'[c].stage = "conflict"
  PROVE  /\ c = d
         /\ \/ CheckVersion(c) /\ call[c].base.version # plans[call[c].target].version
            \/ ReadRow(c) /\ call[c].base.version # plans[call[c].target].version
            \/ WriteRow(c) /\ ~RowUnchanged(c)
<1> USE DEF TypeInv, CallOK, CallFields
<1>1. ASSUME NEW r, call' = [call EXCEPT ![d] = r] PROVE c = d /\ r.stage = "conflict"
  BY <1>1
<1>2. ASSUME NEW r, r.stage # "conflict" PROVE call' # [call EXCEPT ![d] = r]
  BY <1>1, <1>2
<1>3. ~Answer(d)
  BY <1>2 DEF Answer, NoCall
<1>4. ~\E stage \in Stages \ {"conflict"} : call' = [call EXCEPT ![d].stage = stage]
  OBVIOUS
<1>5. ASSUME Answered(d, "conflict") PROVE c = d
  BY <1>1, <1>5 DEF Answered
<1>6. ASSUME NEW kind, NEW t \in Targets, NEW arg, NEW attempt
      PROVE  ~Derive(d, kind, t, arg, attempt)
  <2> DEFINE r == [Started(kind, t) EXCEPT
                     !.stage = IF kind = "adopt" THEN "inspecting" ELSE "checking",
                     !.base = plans[t], !.next = Mutated(kind, plans[t], arg),
                     !.arg = arg, !.attempt = attempt]
  <2>1. r.stage # "conflict"
    BY StartedOK
  <2>2. QED
    BY <1>2, <1>3, <2>1 DEF Derive
<1>7. ~Start(d)
  <2>1. ASSUME NEW t \in Targets PROVE ~View(d, t)
    <3>1. [Started("edit", t) EXCEPT !.stage = "viewing", !.base = plans[t]].stage # "conflict"
      BY StartedOK
    <3>2. QED
      BY <1>2, <3>1 DEF View
  <2>2. ASSUME NEW t \in Targets PROVE ~RemoveTarget(d, t)
    <3>1. [Started("remove", t) EXCEPT !.stage = "forgetting"].stage # "conflict"
      BY StartedOK
    <3>2. QED
      BY <1>2, <3>1 DEF RemoveTarget
  <2>3. ASSUME NEW t \in Targets PROVE ~StartPreview(d, t)
    <3>1. \A remove : [Started("preview", t) EXCEPT !.stage = "inspecting",
                         !.base = plans[t], !.remove = remove].stage # "conflict"
      BY StartedOK
    <3>2. QED
      BY <1>2, <3>1 DEF StartPreview
  <2>4. ASSUME NEW t \in Targets, NEW kind \in Kinds PROVE ~Ask(d, kind, t)
    BY <1>6 DEF Ask
  <2>5. ~Submit(d)
    BY DEF Submit
  <2>6. ~StartApply(d)
    <3>1. ASSUME NEW approval \in shown, NEW remove \in SUBSET Networks,
                 NEW confirmations \in SUBSET remove
          PROVE  call' # [call EXCEPT ![d] =
                   [Started("apply", approval.target) EXCEPT
                      !.stage = "deriving", !.token = approval.token,
                      !.remove = remove, !.confirmations = confirmations]]
      <4>1. [Started("apply", approval.target) EXCEPT
               !.stage = "deriving", !.token = approval.token,
               !.remove = remove, !.confirmations = confirmations].stage # "conflict"
        BY StartedOK DEF StoreOK
      <4>2. QED
        BY <1>2, <4>1
    <3>2. QED
      BY <3>1 DEF StartApply
  <2>7. QED
    BY <2>1, <2>2, <2>3, <2>4, <2>5, <2>6 DEF Start
<1>8. ~InspectForAdopt(d)
  BY <1>3, <1>4 DEF InspectForAdopt, Stages, WriteStages
<1>9. ~Retry(d)
  BY <1>6 DEF Retry, AnsweredStages
<1>10. ~Apply(d)
  <2>1. ~LoadForApply(d) /\ ~EndApply(d)
    BY <1>3 DEF LoadForApply, EndApply
  <2>2. ~InspectForApply(d)
    BY <1>3 DEF InspectForApply
  <2>3. ~ResolveTarget(d)
    BY <1>3 DEF ResolveTarget
  <2>4. ~RunOperation(d)
    BY DEF RunOperation
  <2>5. QED
    BY <2>1, <2>2, <2>3, <2>4 DEF Apply
<1>11. ~ConnectionLost(d)
  BY DEF ConnectionLost
<1>12. ~InspectForPreview(d) /\ ~DeletePlan(d) /\ ~Fail(d)
  BY <1>3 DEF InspectForPreview, DeletePlan, Fail
<1>13. ASSUME Conflict(d) PROVE c = d
  BY <1>5, <1>13 DEF Conflict
<1>14. CASE CheckVersion(d)
  <2>1. ~(call' = [call EXCEPT ![d].stage = "storing"])
    OBVIOUS
  <2>2. QED
    BY <1>13, <1>14, <2>1 DEF CheckVersion
<1>15. CASE ReadRow(d)
  <2>1. ~(call' = [call EXCEPT ![d].stage = "writing",
                               ![d].seen = plans[call[d].target]])
    OBVIOUS
  <2>2. QED
    BY <1>13, <1>15, <2>1 DEF ReadRow
<1>16. CASE WriteRow(d)
  BY <1>3, <1>13, <1>16 DEF WriteRow
<1>17. QED
  BY <1>7, <1>8, <1>9, <1>10, <1>11, <1>12, <1>14, <1>15, <1>16 DEF Proceed, Write

(* Nobody is told of a conflict on a stored target's plan unless the plan is *)
(* another one than the call read (RuntimePlanService.save, the store, and   *)
(* mutateTopology when its attempts are used up).                            *)
THEOREM ConflictsAreReal == Spec => NoFalseConflict
<1>1. ASSUME TypeInv, WriteInv, [Next]_vars, NEW c \in Callers,
             call[c].target \in targets,
             call[c].stage # "conflict", call'[c].stage = "conflict"
      PROVE  plans[call[c].target] # call[c].base
  <2>1. ~(UNCHANGED vars)
    BY <1>1 DEF vars
  <2>2. ~Restart
    BY <1>1 DEF Restart, NoCall
  <2>3. ~\E t \in Targets : Drift(t)
    BY <1>1 DEF Drift
  <2>4. PICK d \in Callers : Start(d) \/ Proceed(d) \/ Fail(d) \/ ConnectionLost(d)
    BY <1>1, <2>1, <2>2, <2>3 DEF Next
  <2>5. \/ call[c].base.version # plans[call[c].target].version
        \/ WriteRow(c) /\ ~RowUnchanged(c)
    BY <1>1, <2>4, ConflictCauses
  <2>6. CASE WriteRow(c) /\ ~RowUnchanged(c)
    BY <1>1, <2>6 DEF WriteRow, RowUnchanged, WriteInv, WriteOK
  <2>7. QED
    BY <2>5, <2>6
<1>2. TypeInv /\ WriteInv /\ [Next]_vars =>
        [\A c \in Callers :
           /\ call[c].target \in targets
           /\ call[c].stage # "conflict"
           /\ call'[c].stage = "conflict"
           => plans[call[c].target] # call[c].base]_vars
  BY <1>1
<1>3. QED
  BY <1>2, SpecWrite, PTL DEF Spec, NoFalseConflict

------------------------------------------------------------------------------
(* Approvals. *)

(* Tokens are never reused, and the approval in force on a target was shown.  *)
ApprovalsInv ==
  /\ lastToken \in Nat
  /\ \A a \in shown :
       /\ a = [token |-> a.token, target |-> a.target, change |-> a.change]
       /\ a.token \in 1..lastToken
  /\ \A a, b \in shown : a.token = b.token => a = b
  /\ \A t \in Targets : \/ previews[t].token = 0
                        \/ previews[t] \in shown /\ previews[t].target = t

(* A call that executes a change was authorized to, and its token is spent.  *)
ApprovedOK(r) ==
  /\ r.kind = "apply" => r.token \in 1..lastToken
  /\ r.stage \in {"deriving", "resolving", "applying"} => r.kind = "apply"
  /\ r.stage \in {"resolving", "applying"} =>
       /\ [token |-> r.token, target |-> r.target, change |-> r.change] \in shown
       /\ ~r.change.blocked
       /\ destructiveNames(r.change) \subseteq r.confirmations
       /\ previews[r.target].token # r.token

SingleUse ==
  \A c, d \in Callers : c # d /\ Executing(c) /\ Executing(d) =>
    call[c].token # call[d].token

ApprovalInv ==
  ApprovalsInv /\ (\A c \in Callers : ApprovedOK(call[c])) /\ SingleUse

LEMMA InitApproval == Init => ApprovalInv
BY DEF Init, ApprovalInv, ApprovalsInv, ApprovedOK, SingleUse, Executing, NoCall,
       NoApproval, NoName

(* A step that changes a call and no approval.                               *)
LEMMA ApprovalCallUpdated ==
  ASSUME TypeInv, ApprovalInv, NEW c \in Callers, NEW r, ApprovedOK(r),
         \/ r.stage \notin {"resolving", "applying"}
         \/ Executing(c) /\ r.token = call[c].token,
         call' = [call EXCEPT ![c] = r], UNCHANGED <<previews, shown, lastToken>>
  PROVE  ApprovalInv'
<1>1. ApprovalsInv'
  BY DEF ApprovalInv, ApprovalsInv
<1>2. \A d \in Callers : ApprovedOK(call[d])'
  BY DEF TypeInv, ApprovalInv, ApprovedOK
<1>3. SingleUse'
  BY DEF TypeInv, ApprovalInv, SingleUse, Executing
<1>4. QED
  BY <1>1, <1>2, <1>3 DEF ApprovalInv

LEMMA ApprovalCallAnswered ==
  ASSUME TypeInv, ApprovalInv, NEW c \in Callers,
         Answer(c) \/ Answered(c, "conflict"), UNCHANGED <<previews, shown, lastToken>>
  PROVE  ApprovalInv'
<1>1. /\ ApprovedOK(NoCall) /\ NoCall.stage = "idle"
      /\ ApprovedOK([NoCall EXCEPT !.stage = "conflict"])
      /\ [NoCall EXCEPT !.stage = "conflict"].stage = "conflict"
  BY DEF ApprovedOK, NoCall, NoName
<1>2. QED
  BY <1>1, ApprovalCallUpdated DEF Answer, Answered

(* A step that begins or moves on anything but an apply.                     *)
LEMMA ApprovalElsewhere ==
  ASSUME TypeInv, ApprovalInv, NEW c \in Callers, NEW r,
         r.kind # "apply", r.stage \notin {"deriving", "resolving", "applying"},
         call' = [call EXCEPT ![c] = r], UNCHANGED <<previews, shown, lastToken>>
  PROVE  ApprovalInv'
<1>1. ApprovedOK(r)
  BY DEF ApprovedOK
<1>2. QED
  BY <1>1, ApprovalCallUpdated

LEMMA ApprovalDerived ==
  ASSUME TypeInv, ApprovalInv, NEW c \in Callers, NEW kind \in WriteKinds,
         NEW t \in Targets, NEW arg, NEW attempt,
         Derive(c, kind, t, arg, attempt), UNCHANGED <<previews, shown, lastToken>>
  PROVE  ApprovalInv'
<1> DEFINE r == [Started(kind, t) EXCEPT
                   !.stage = IF kind = "adopt" THEN "inspecting" ELSE "checking",
                   !.base = plans[t], !.next = Mutated(kind, plans[t], arg),
                   !.arg = arg, !.attempt = attempt]
<1>1. r.kind # "apply" /\ r.stage \notin {"deriving", "resolving", "applying"}
  BY StartedOK DEF CallFields, WriteKinds, SyncKinds
<1>2. QED
  BY <1>1, ApprovalElsewhere, ApprovalCallAnswered DEF Derive

(* The token an apply presents is one that was shown.                        *)
LEMMA StartApproval ==
  ASSUME TypeInv, ApprovalInv, NEW c \in Callers, Start(c)
  PROVE  ApprovalInv'
<1>1. ASSUME NEW t \in Targets, View(c, t) PROVE ApprovalInv'
  <2> DEFINE r == [Started("edit", t) EXCEPT !.stage = "viewing", !.base = plans[t]]
  <2>1. r.kind = "edit" /\ r.stage = "viewing"
    BY StartedOK DEF CallFields
  <2>2. QED
    BY <1>1, <2>1, ApprovalElsewhere DEF View
<1>2. ASSUME NEW t \in Targets, RemoveTarget(c, t) PROVE ApprovalInv'
  <2> DEFINE r == [Started("remove", t) EXCEPT !.stage = "forgetting"]
  <2>1. r.kind = "remove" /\ r.stage = "forgetting"
    BY StartedOK DEF CallFields
  <2>2. QED
    BY <1>2, <2>1, ApprovalElsewhere DEF RemoveTarget
<1>3. ASSUME NEW t \in Targets, StartPreview(c, t) PROVE ApprovalInv'
  <2>1. PICK remove \in SUBSET Networks :
          call' = [call EXCEPT ![c] =
            [Started("preview", t) EXCEPT
               !.stage = "inspecting", !.base = plans[t], !.remove = remove]]
    BY <1>3 DEF StartPreview
  <2> DEFINE r == [Started("preview", t) EXCEPT
                     !.stage = "inspecting", !.base = plans[t], !.remove = remove]
  <2>2. r.kind = "preview" /\ r.stage = "inspecting"
    BY StartedOK DEF CallFields
  <2>3. QED
    BY <1>3, <2>1, <2>2, ApprovalElsewhere DEF StartPreview
<1>4. ASSUME NEW t \in Targets, NEW kind \in Kinds, Ask(c, kind, t) PROVE ApprovalInv'
  BY <1>4, ApprovalDerived DEF Ask
<1>5. CASE Submit(c)
  <2>1. PICK plan \in Edits(call[c].base) :
          call' = [call EXCEPT ![c].stage = "checking", ![c].next = plan]
    BY <1>5 DEF Submit
  <2> DEFINE r == [call[c] EXCEPT !.stage = "checking", !.next = plan]
  <2>2. call' = [call EXCEPT ![c] = r]
    BY <2>1 DEF TypeInv
  <2>3. r.stage = "checking" /\ r.kind = call[c].kind /\ r.token = call[c].token
    BY DEF TypeInv, CallOK, CallFields
  <2>4. ApprovedOK(r)
    BY <2>3 DEF ApprovalInv, ApprovedOK
  <2>5. QED
    BY <1>5, <2>2, <2>3, <2>4, ApprovalCallUpdated DEF Submit
<1>6. CASE StartApply(c)
  <2>1. PICK approval \in shown, remove \in SUBSET Networks :
          \E confirmations \in SUBSET remove :
            /\ approval.target \notin applyingTargets
            /\ call' = [call EXCEPT ![c] =
                 [Started("apply", approval.target) EXCEPT
                    !.stage = "deriving", !.token = approval.token,
                    !.remove = remove, !.confirmations = confirmations]]
    BY <1>6 DEF StartApply
  <2>2. PICK confirmations \in SUBSET remove :
          call' = [call EXCEPT ![c] =
            [Started("apply", approval.target) EXCEPT
               !.stage = "deriving", !.token = approval.token,
               !.remove = remove, !.confirmations = confirmations]]
    BY <2>1
  <2> DEFINE r == [Started("apply", approval.target) EXCEPT
                     !.stage = "deriving", !.token = approval.token,
                     !.remove = remove, !.confirmations = confirmations]
  <2>3. r.stage = "deriving" /\ r.kind = "apply" /\ r.token = approval.token
    BY StartedOK DEF CallFields, TypeInv, StoreOK
  <2>4. ApprovedOK(r)
    BY <2>3 DEF ApprovalInv, ApprovalsInv, ApprovedOK
  <2>5. QED
    BY <1>6, <2>2, <2>3, <2>4, ApprovalCallUpdated DEF StartApply
<1>7. QED
  BY <1>1, <1>2, <1>3, <1>4, <1>5, <1>6 DEF Start

(* A call that only moves on to a stage that executes nothing.               *)
LEMMA ApprovalMovedOn ==
  ASSUME TypeInv, ApprovalInv, NEW c \in Callers, NEW stage,
         stage \notin {"deriving", "resolving", "applying"},
         call' = [call EXCEPT ![c].stage = stage],
         UNCHANGED <<previews, shown, lastToken>>
  PROVE  ApprovalInv'
<1> DEFINE r == [call[c] EXCEPT !.stage = stage]
<1>1. call' = [call EXCEPT ![c] = r]
  BY DEF TypeInv
<1>2. r.stage = stage /\ r.kind = call[c].kind /\ r.token = call[c].token
  BY DEF TypeInv, CallOK, CallFields
<1>3. ApprovedOK(r)
  BY <1>2 DEF ApprovalInv, ApprovedOK
<1>4. QED
  BY <1>1, <1>2, <1>3, ApprovalCallUpdated

(* Writes have nothing to do with approvals.                                 *)
LEMMA WriteApproval ==
  ASSUME TypeInv, ApprovalInv, NEW c \in Callers, Write(c)
  PROVE  ApprovalInv'
<1>1. ASSUME Conflict(c), UNCHANGED <<previews, shown, lastToken>> PROVE ApprovalInv'
  BY <1>1, ApprovalMovedOn, ApprovalCallAnswered DEF Conflict
<1>2. CASE InspectForAdopt(c)
  BY <1>2, ApprovalMovedOn, ApprovalCallAnswered DEF InspectForAdopt
<1>3. CASE Retry(c)
  <2>1. call[c].target \in Targets /\ call[c].kind \in WriteKinds
    BY <1>3 DEF Retry, TypeInv, CallOK, AnsweredStages, WriteKinds
  <2>2. QED
    BY <1>3, <2>1, ApprovalDerived DEF Retry
<1>4. CASE CheckVersion(c)
  BY <1>1, <1>4, ApprovalMovedOn DEF CheckVersion
<1>5. CASE ReadRow(c)
  <2>1. CASE call' = [call EXCEPT ![c].stage = "writing",
                                  ![c].seen = plans[call[c].target]]
    <3> DEFINE r == [call[c] EXCEPT !.stage = "writing", !.seen = plans[call[c].target]]
    <3>1. call' = [call EXCEPT ![c] = r]
      BY <2>1 DEF TypeInv
    <3>2. r.stage = "writing" /\ r.kind = call[c].kind /\ r.token = call[c].token
      BY DEF TypeInv, CallOK, CallFields
    <3>3. ApprovedOK(r)
      BY <3>2 DEF ApprovalInv, ApprovedOK
    <3>4. QED
      BY <1>5, <3>1, <3>2, <3>3, ApprovalCallUpdated DEF ReadRow
  <2>2. QED
    BY <1>1, <1>5, <2>1 DEF ReadRow
<1>6. CASE WriteRow(c)
  BY <1>1, <1>6, ApprovalCallAnswered DEF WriteRow
<1>7. QED
  BY <1>2, <1>3, <1>4, <1>5, <1>6 DEF Write

(* An authorized call spends the only approval with its token.               *)
LEMMA AuthorizeApproval ==
  ASSUME TypeInv, ApprovalInv, NEW c \in Callers, InspectForApply(c),
         call[c].target \in targets, Authorized(c, Derived(c))
  PROVE  ApprovalInv'
<1> DEFINE t == call[c].target
           change == Derived(c)
           r == [call[c] EXCEPT !.stage = "resolving", !.change = change]
<1>1. /\ call[c].kind = "apply"
      /\ t \in Targets
      /\ previews' = [previews EXCEPT ![t] = NoApproval(t)]
      /\ UNCHANGED <<shown, lastToken>>
  BY DEF InspectForApply, TypeInv, StoreOK, Spend
<1>2. call[c].token \in 1..lastToken /\ lastToken \in Nat
  BY <1>1 DEF ApprovalInv, ApprovalsInv, ApprovedOK
<1>3. previews[t].token = call[c].token /\ previews[t].change = change
  BY DEF Authorized
<1>4. previews[t] \in shown /\ previews[t].target = t
  BY <1>1, <1>2, <1>3 DEF ApprovalInv, ApprovalsInv
<1>5. [token |-> call[c].token, target |-> t, change |-> change] \in shown
  BY <1>3, <1>4 DEF ApprovalInv, ApprovalsInv
<1>6. previews'[t].token = 0 /\ \A u \in Targets \ {t} : previews'[u] = previews[u]
  BY <1>1 DEF TypeInv, StoreOK, NoApproval
<1>7. ApprovalsInv'
  BY <1>1, <1>6 DEF ApprovalInv, ApprovalsInv
<1>8. \A d \in Callers : ApprovedOK(call[d]) /\ (Executing(d) => call[d].token # call[c].token)
  <2>1. ASSUME NEW d \in Callers, Executing(d) PROVE call[d].token # call[c].token
    <3>1. /\ [token |-> call[d].token, target |-> call[d].target,
              change |-> call[d].change] \in shown
          /\ previews[call[d].target].token # call[d].token
      BY <2>1 DEF ApprovalInv, ApprovedOK, Executing
    <3>2. SUFFICES ASSUME call[d].token = call[c].token PROVE FALSE
      OBVIOUS
    <3>3. [token |-> call[d].token, target |-> call[d].target, change |-> call[d].change]
            = [token |-> call[c].token, target |-> t, change |-> change]
      BY <1>5, <3>1, <3>2 DEF ApprovalInv, ApprovalsInv
    <3>4. call[d].target = t
      BY <3>3
    <3>5. QED
      BY <1>3, <3>1, <3>2, <3>4
  <2>2. QED
    BY <2>1 DEF ApprovalInv
<1>9. \A d \in Callers : Executing(d) => call[d].target \in Targets /\ call[d].token \in 1..lastToken
  BY DEF TypeInv, CallOK, AnsweredStages, ApprovalInv, ApprovedOK, Executing
<1>10. \A d \in Callers : Executing(d) => previews'[call[d].target].token # call[d].token
  <2>1. SUFFICES ASSUME NEW d \in Callers, Executing(d)
                 PROVE  previews'[call[d].target].token # call[d].token
    OBVIOUS
  <2>2. call[d].target \in Targets /\ call[d].token # 0
    BY <1>2, <1>9, <2>1
  <2>3. previews[call[d].target].token # call[d].token
    BY <1>8, <2>1 DEF ApprovedOK, Executing
  <2>4. QED
    BY <1>6, <2>2, <2>3
<1>11. CASE Answer(c)
  <2>1. call' = [call EXCEPT ![c] = NoCall] /\ NoCall.stage = "idle" /\ NoCall.kind = NoName
    BY <1>11 DEF Answer, NoCall
  <2>2. \A d \in Callers : ApprovedOK(call[d])'
    BY <1>1, <1>8, <1>10, <2>1 DEF TypeInv, ApprovedOK, Executing, NoName
  <2>3. SingleUse'
    BY <2>1 DEF TypeInv, ApprovalInv, SingleUse, Executing
  <2>4. QED
    BY <1>7, <2>2, <2>3 DEF ApprovalInv
<1>12. CASE call' = [call EXCEPT ![c].stage = "resolving", ![c].change = change]
  <2>1. call' = [call EXCEPT ![c] = r]
    BY <1>12 DEF TypeInv
  <2>2. /\ r.stage = "resolving" /\ r.kind = "apply" /\ r.target = t
        /\ r.token = call[c].token /\ r.change = change
        /\ r.confirmations = call[c].confirmations
    BY <1>1 DEF TypeInv, CallOK, CallFields
  <2>3. ~change.blocked /\ destructiveNames(change) \subseteq call[c].confirmations
    BY DEF Authorized
  <2> HIDE DEF r, change
  <2>4. call'[c] = r /\ \A d \in Callers \ {c} : call'[d] = call[d]
    BY <2>1 DEF TypeInv
  <2>5. ApprovedOK(call[c])'
    BY <1>1, <1>2, <1>5, <1>6, <2>2, <2>3, <2>4 DEF ApprovedOK
  <2>6. \A d \in Callers \ {c} : ApprovedOK(call[d])'
    BY <1>1, <1>8, <1>10, <2>4 DEF ApprovedOK, Executing
  <2>7. SingleUse'
    BY <1>8, <2>2, <2>4 DEF ApprovalInv, SingleUse, Executing
  <2>8. QED
    BY <1>7, <2>5, <2>6, <2>7 DEF ApprovalInv
<1>13. QED
  BY <1>11, <1>12 DEF InspectForApply

(* The steps of an apply.                                                    *)
LEMMA ApplyApproval ==
  ASSUME TypeInv, ApprovalInv, NEW c \in Callers,
         Apply(c) \/ Fail(c) \/ ConnectionLost(c) \/ DeletePlan(c)
  PROVE  ApprovalInv'
<1>1. CASE LoadForApply(c)
  <2> DEFINE r == [call[c] EXCEPT !.stage = "inspecting", !.base = plans[call[c].target]]
  <2>1. call' = [call EXCEPT ![c] = r]
    BY <1>1 DEF LoadForApply, TypeInv
  <2>2. r.stage = "inspecting" /\ r.kind = call[c].kind /\ r.token = call[c].token
    BY DEF TypeInv, CallOK, CallFields
  <2>3. ApprovedOK(r)
    BY <2>2 DEF ApprovalInv, ApprovedOK
  <2>4. QED
    BY <1>1, <2>1, <2>2, <2>3, ApprovalCallUpdated DEF LoadForApply
<1>2. CASE InspectForApply(c)
  <2>1. CASE call[c].target \in targets /\ Authorized(c, Derived(c))
    BY <1>2, <2>1, AuthorizeApproval
  <2>2. CASE ~(call[c].target \in targets /\ Authorized(c, Derived(c)))
    BY <1>2, <2>2, ApprovalCallAnswered DEF InspectForApply
  <2>3. QED
    BY <2>1, <2>2
<1>3. CASE ResolveTarget(c)
  <2>1. CASE call' = [call EXCEPT ![c].stage = "applying",
                        ![c].pending = executableOperations(call[c].change)]
    <3> DEFINE r == [call[c] EXCEPT !.stage = "applying",
                                    !.pending = executableOperations(call[c].change)]
    <3>1. call' = [call EXCEPT ![c] = r]
      BY <2>1 DEF TypeInv
    <3>2. /\ r.stage = "applying" /\ r.kind = call[c].kind /\ r.token = call[c].token
          /\ r.target = call[c].target /\ r.change = call[c].change
          /\ r.confirmations = call[c].confirmations
      BY DEF TypeInv, CallOK, CallFields
    <3>3. Executing(c)
      BY <1>3 DEF ResolveTarget, Executing
    <3>4. ApprovedOK(r)
      BY <3>2, <3>3 DEF ApprovalInv, ApprovedOK, Executing
    <3>5. QED
      BY <1>3, <3>1, <3>2, <3>3, <3>4, ApprovalCallUpdated DEF ResolveTarget
  <2>2. QED
    BY <1>3, <2>1, ApprovalCallAnswered DEF ResolveTarget
<1>4. ASSUME NEW pending, call[c].stage = "applying",
             UNCHANGED <<previews, shown, lastToken>>,
             call' = [call EXCEPT ![c].pending = pending]
      PROVE  ApprovalInv'
  <2> DEFINE r == [call[c] EXCEPT !.pending = pending]
  <2>1. call' = [call EXCEPT ![c] = r]
    BY <1>4 DEF TypeInv
  <2>2. /\ r.stage = "applying" /\ r.kind = call[c].kind /\ r.token = call[c].token
        /\ r.target = call[c].target /\ r.change = call[c].change
        /\ r.confirmations = call[c].confirmations
    BY <1>4 DEF TypeInv, CallOK, CallFields
  <2>3. Executing(c)
    BY <1>4 DEF Executing
  <2>4. ApprovedOK(r)
    BY <2>2, <2>3 DEF ApprovalInv, ApprovedOK, Executing
  <2>5. QED
    BY <1>4, <2>1, <2>2, <2>3, <2>4, ApprovalCallUpdated
<1>5. CASE RunOperation(c)
  <2>1. CASE call' = [call EXCEPT ![c].pending = Tail(@)]
    <3>1. call' = [call EXCEPT ![c].pending = Tail(call[c].pending)]
      BY <2>1 DEF TypeInv, CallOK, CallFields
    <3>2. QED
      BY <1>4, <1>5, <3>1 DEF RunOperation
  <2>2. CASE call' = [call EXCEPT ![c].pending = <<>>]
    BY <1>4, <1>5, <2>2 DEF RunOperation
  <2>3. QED
    BY <1>5, <2>1, <2>2 DEF RunOperation
<1>6. CASE ConnectionLost(c)
  BY <1>4, <1>6 DEF ConnectionLost
<1>7. QED
  BY <1>1, <1>2, <1>3, <1>5, <1>6, ApprovalCallAnswered
     DEF Apply, EndApply, Fail, DeletePlan

(* A preview mints a token nobody has.                                       *)
LEMMA PreviewApproval ==
  ASSUME TypeInv, ApprovalInv, NEW c \in Callers, InspectForPreview(c)
  PROVE  ApprovalInv'
<1> DEFINE t == call[c].target
           approval == [token |-> lastToken + 1, target |-> t, change |-> Derived(c)]
<1>1. CASE t \notin targets
  BY <1>1, ApprovalCallAnswered DEF InspectForPreview
<1>2. CASE t \in targets
  <2>1. /\ previews' = [previews EXCEPT ![t] = approval]
        /\ shown' = shown \cup {approval}
        /\ lastToken' = lastToken + 1
        /\ call' = [call EXCEPT ![c] = NoCall]
    BY <1>2 DEF InspectForPreview, Answer
  <2>2. t \in Targets /\ lastToken \in Nat
    BY <1>2 DEF TypeInv, StoreOK, ApprovalInv, ApprovalsInv
  <2>3. approval.token = lastToken + 1 /\ approval.target = t /\ approval.change = Derived(c)
    OBVIOUS
  <2> HIDE DEF approval
  <2>4. approval = [token |-> approval.token, target |-> approval.target, change |-> approval.change]
    BY <2>3 DEF approval
  <2>5. ApprovalsInv'
    <3>1. \A a \in shown' :
            /\ a = [token |-> a.token, target |-> a.target, change |-> a.change]
            /\ a.token \in 1..lastToken'
      BY <2>1, <2>2, <2>3, <2>4 DEF ApprovalInv, ApprovalsInv
    <3>2. \A a, b \in shown' : a.token = b.token => a = b
      BY <2>1, <2>2, <2>3 DEF ApprovalInv, ApprovalsInv
    <3>3. \A u \in Targets : \/ previews'[u].token = 0
                             \/ previews'[u] \in shown' /\ previews'[u].target = u
      BY <2>1, <2>2, <2>3 DEF TypeInv, StoreOK, ApprovalInv, ApprovalsInv
    <3>4. QED
      BY <2>1, <2>2, <3>1, <3>2, <3>3 DEF ApprovalsInv
  <2>6. call'[c] = NoCall /\ \A d \in Callers \ {c} : call'[d] = call[d]
    BY <2>1 DEF TypeInv
  <2>7. ApprovedOK(call[c])'
    BY <2>6 DEF ApprovedOK, NoCall, NoName
  <2>8. ASSUME NEW d \in Callers \ {c} PROVE ApprovedOK(call[d])'
    <3>1. ApprovedOK(call[d])
      BY DEF ApprovalInv
    <3>2. call[d].kind = "apply" => call[d].token \in 1..lastToken'
      BY <2>1, <2>2, <3>1 DEF ApprovedOK
    <3>3. ASSUME call[d].stage \in {"resolving", "applying"}
          PROVE  previews'[call[d].target].token # call[d].token
      <4>1. call[d].token \in 1..lastToken /\ call[d].target \in Targets
        BY <3>1, <3>3 DEF ApprovedOK, TypeInv, CallOK, AnsweredStages
      <4>2. QED
        BY <2>1, <2>2, <2>3, <3>1, <3>3, <4>1 DEF ApprovedOK, TypeInv, StoreOK
    <3>4. QED
      BY <2>1, <2>6, <3>1, <3>2, <3>3 DEF ApprovedOK
  <2>9. SingleUse'
    <3>1. call'[c].stage = "idle"
      BY <2>6 DEF NoCall
    <3>2. QED
      BY <2>6, <3>1 DEF ApprovalInv, SingleUse, Executing
  <2>10. QED
    BY <2>5, <2>7, <2>8, <2>9 DEF ApprovalInv
<1>3. QED
  BY <1>1, <1>2

LEMMA NextApproval == ASSUME TypeInv, ApprovalInv, [Next]_vars PROVE ApprovalInv'
<1>1. ASSUME NEW c \in Callers, Start(c) \/ Proceed(c) \/ Fail(c) \/ ConnectionLost(c)
      PROVE  ApprovalInv'
  BY <1>1, StartApproval, WriteApproval, ApplyApproval, PreviewApproval DEF Proceed
<1>2. ASSUME NEW t \in Targets, Drift(t) PROVE ApprovalInv'
  BY <1>2 DEF Drift, ApprovalInv, ApprovalsInv, ApprovedOK, SingleUse, Executing
<1>3. CASE Restart
  BY <1>3 DEF Restart, ApprovalInv, ApprovalsInv, ApprovedOK, SingleUse, Executing,
     NoCall, NoName, NoApproval
<1>4. CASE UNCHANGED vars
  BY <1>4 DEF vars, ApprovalInv, ApprovalsInv, ApprovedOK, SingleUse, Executing
<1>5. QED
  BY <1>1, <1>2, <1>3, <1>4 DEF Next

LEMMA SpecApproval == Spec => [](TypeInv /\ ApprovalInv)
<1>1. Init => TypeInv /\ ApprovalInv
  BY InitTypeInv, InitApproval
<1>2. TypeInv /\ ApprovalInv /\ [Next]_vars => (TypeInv /\ ApprovalInv)'
  BY NextType, NextApproval
<1>3. QED
  BY <1>1, <1>2, PTL DEF Spec

(* Whatever an apply executes was shown to the user under the token it       *)
(* presented, is not blocked, and deletes only what was typed: the gates of  *)
(* RuntimePlanService.apply() hold however long the host takes to answer.    *)
THEOREM OnlyApprovedChangesRun == Spec => []OnlyApprovedRuns
<1>1. ApprovalInv => OnlyApprovedRuns
  BY DEF ApprovalInv, ApprovedOK, OnlyApprovedRuns, Executing
<1>2. QED
  BY <1>1, SpecApproval, PTL

(* A token authorizes one apply: no two applies run under one token, and the *)
(* token of one that runs is not accepted any more.                          *)
THEOREM TokensAreSingleUse == Spec => []OneApplyPerApproval
<1>1. ApprovalInv => OneApplyPerApproval
  BY DEF ApprovalInv, ApprovedOK, SingleUse, OneApplyPerApproval, Executing
<1>2. QED
  BY <1>1, SpecApproval, PTL

(* A token that was replaced by a later preview, or spent, never comes back.  *)
THEOREM SpentForever == Spec => SpentStaysSpent
<1>1. ASSUME TypeInv, ApprovalInv, [Next]_vars, NEW approval \in shown,
             previews[approval.target].token # approval.token
      PROVE  previews'[approval.target].token # approval.token
  <2>1. approval.token \in 1..lastToken /\ lastToken \in Nat /\ approval.target \in Targets
    BY <1>1 DEF TypeInv, StoreOK, ApprovalInv, ApprovalsInv
  <2>2. \/ UNCHANGED previews
        \/ \E t \in Targets : previews' = [previews EXCEPT ![t] = NoApproval(t)]
        \/ \E c \in Callers : previews' = [previews EXCEPT ![call[c].target] =
             [token |-> lastToken + 1, target |-> call[c].target, change |-> Derived(c)]]
        \/ previews' = [t \in Targets |-> NoApproval(t)]
    <3>1. ASSUME NEW c \in Callers, InspectForApply(c)
          PROVE  \/ UNCHANGED previews
                 \/ \E t \in Targets : previews' = [previews EXCEPT ![t] = NoApproval(t)]
      BY <1>1, <3>1 DEF InspectForApply, Spend, TypeInv, StoreOK
    <3>2. ASSUME NEW c \in Callers, InspectForPreview(c)
          PROVE  \/ UNCHANGED previews
                 \/ previews' = [previews EXCEPT ![call[c].target] =
                      [token |-> lastToken + 1, target |-> call[c].target,
                       change |-> Derived(c)]]
      BY <3>2 DEF InspectForPreview
    <3>3. ASSUME NEW c \in Callers, Start(c) PROVE UNCHANGED previews
      BY <3>3 DEF Start, View, RemoveTarget, StartPreview, Ask, Submit, StartApply
    <3>4. ASSUME NEW c \in Callers, Write(c) PROVE UNCHANGED previews
      BY <3>4 DEF Write, InspectForAdopt, Retry, CheckVersion, ReadRow, WriteRow
    <3>5. ASSUME NEW c \in Callers,
                 \/ LoadForApply(c) \/ ResolveTarget(c) \/ RunOperation(c)
                 \/ EndApply(c) \/ DeletePlan(c) \/ Fail(c) \/ ConnectionLost(c)
          PROVE  UNCHANGED previews
      BY <3>5 DEF LoadForApply, ResolveTarget, RunOperation, EndApply, DeletePlan,
         Fail, ConnectionLost
    <3>6. QED
      BY <1>1, <3>1, <3>2, <3>3, <3>4, <3>5
         DEF Next, Proceed, Apply, Drift, Restart, vars
  <2>3. approval.token # 0 /\ approval.token # lastToken + 1
    BY <2>1
  <2>4. DOMAIN previews = Targets
    BY <1>1 DEF TypeInv, StoreOK
  <2>5. ASSUME NEW t \in Targets, NEW a, a.token # approval.token,
               previews' = [previews EXCEPT ![t] = a]
        PROVE  previews'[approval.target].token # approval.token
    BY <1>1, <2>1, <2>4, <2>5
  <2>6. ASSUME NEW t \in Targets PROVE NoApproval(t).token # approval.token
    BY <2>3 DEF NoApproval
  <2>7. CASE previews' = [t \in Targets |-> NoApproval(t)]
    BY <2>1, <2>6, <2>7
  <2>8. CASE \E t \in Targets : previews' = [previews EXCEPT ![t] = NoApproval(t)]
    BY <2>5, <2>6, <2>8
  <2>9. ASSUME NEW c \in Callers,
               previews' = [previews EXCEPT ![call[c].target] =
                 [token |-> lastToken + 1, target |-> call[c].target, change |-> Derived(c)]]
        PROVE  previews'[approval.target].token # approval.token
    BY <1>1, <2>1, <2>3, <2>4, <2>9
  <2>10. QED
    BY <1>1, <2>2, <2>7, <2>8, <2>9
<1>2. TypeInv /\ ApprovalInv /\ [Next]_vars =>
        [\A approval \in shown :
           previews[approval.target].token # approval.token =>
             previews'[approval.target].token # approval.token]_vars
  BY <1>1
<1>3. QED
  BY <1>2, SpecApproval, PTL DEF Spec, SpentStaysSpent
==============================================================================
