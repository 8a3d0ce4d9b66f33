------------------------ MODULE ProjectStores_proofs ------------------------
(***************************************************************************)
(* Theorems about what keeps a project in several stores: its backup and   *)
(* restore, the form that moves it to another region, its copy, and the    *)
(* upgrade of the database all of them are in.  For any credentials,       *)
(* forms, calls, rows, changes and failures.                               *)
(***************************************************************************)
EXTENDS ProjectBackup, ProjectAggregate, ProjectDuplication, DatabaseUpgrade,
        WellFoundedInduction, TLAPS

------------------------------------------------------------------------------
(* Backup, restore and import.                                               *)

SavedRows == [version : Nat, key : [Credentials -> Keys]]
Folders ==
  [made : BOOLEAN, rows : SavedRows, secrets : SUBSET Credentials, checkpoint : Nat,
   sound : BOOLEAN]
Answers == {"none", "failed", "done"}
BackupStages ==
  {"idle", "start", "snapshot", "checkpoint", "write", "safety", "rows", "rewrap",
   "remove checkpoint", "copy checkpoint", "undo rows", "undo removal", "undo checkpoint",
   "remove rows", "remove file"}
BackupCalls ==
  [op : {"none", "create", "restore", "import"}, stage : BackupStages, faults : Nat,
   answer : Answers, undisturbed : BOOLEAN,
   draft : Folders, rowsBefore : SavedRows, checkpointBefore : Nat]

BackupTypeOK ==
  /\ database \in SavedRows /\ checkpoint \in Nat /\ folder \in Folders
  /\ call \in BackupCalls /\ edits \in Nat

\* The project is there all the while a call needs it, and is in what was saved of it.
ProjectIsThere ==
  /\ database.version = 0 => database = NoRows
  /\ folder.made => folder.rows.version > 0
  /\ call.stage # "idle" =>
       /\ call.op \in {"create", "restore"} => database.version > 0
       /\ call.op \in {"restore", "import"} => folder.made
       /\ \/ CallAt("create", "checkpoint") \/ CallAt("create", "write")
          \/ call.op = "restore" /\ call.stage # "start"
          => call.draft.rows.version > 0

\* A backup that was made undisturbed has every secret.
SecretsAreComplete ==
  /\ folder.sound => folder.secrets = Present(folder.rows)
  /\ call.undisturbed =>
       /\ CallAt("create", "snapshot") => call.draft.secrets = Present(database)
       /\ call.op = "create" /\ call.stage \in {"checkpoint", "write"} =>
            call.draft.secrets = Present(call.draft.rows)

Faults == call.faults + (IF folder.sound THEN 0 ELSE 1)
Undoing == {"undo rows", "undo removal", "undo checkpoint"}
Replacing == {"remove checkpoint", "copy checkpoint"}

\* How far a restore has come that nothing else disturbs.
RestoreIsAt ==
  call.op = "restore" /\ call.undisturbed =>
    /\ call.stage \in {"start", "safety", "rows", "undo removal", "undo checkpoint"} =>
         database = call.rowsBefore
    /\ call.stage \in {"start", "safety", "rows"} => checkpoint = call.checkpointBefore
    /\ call.stage \in {"safety", "rows", "rewrap"} \cup Replacing \cup Undoing =>
         call.draft.rows = call.rowsBefore
    /\ call.stage \in {"rows", "rewrap"} \cup Replacing \cup Undoing =>
         call.draft.checkpoint = call.checkpointBefore
    /\ call.stage = "rewrap" => database = folder.rows
    /\ call.stage \in Replacing =>
         /\ folder.secrets \subseteq Present(folder.rows)
         /\ database = Wrapped(folder.rows, folder.secrets)
    /\ call.stage \in Undoing => Faults >= 1

\* How far an import has come that nothing else disturbs.
ImportIsAt ==
  call.op = "import" /\ call.undisturbed =>
    /\ call.stage # "idle" => call.rowsBefore = NoRows /\ call.checkpointBefore = NoCheckpoint
    /\ call.stage = "start" => database = NoRows /\ checkpoint = NoCheckpoint
    /\ call.stage \in Replacing => database = Wrapped(folder.rows, Present(folder.rows))
    /\ call.stage \in {"remove rows", "remove file"} => call.faults >= 1
    /\ call.stage = "remove file" => database = NoRows

BackupIInv ==
  BackupTypeOK /\ ProjectIsThere /\ SecretsAreComplete /\ RestoreIsAt /\ ImportIsAt

\* What a step of restore or import may answer.
AllOrNothing ==
  call.op \in {"restore", "import"} =>
    /\ Answered("failed") /\ call'.faults + (IF folder.sound THEN 0 ELSE 1) <= 1 =>
         database' = call.rowsBefore /\ checkpoint' = call.checkpointBefore
    /\ Answered("done") =>
         /\ checkpoint' = folder.checkpoint
         /\ database'.version = folder.rows.version
         /\ folder.sound => ReadableHere(database', Present(database'))

\* The call goes on, and keeps what it knows.
Continues(where) ==
  /\ call' \in BackupCalls /\ call'.op = call.op /\ call'.stage = where
  /\ call'.undisturbed = call.undisturbed /\ call'.draft = call.draft
  /\ call'.rowsBefore = call.rowsBefore /\ call'.checkpointBefore = call.checkpointBefore

\* The steps of a restore, and those of an import.
RestoreStep ==
  \/ CopyForSafety \/ CopyCheckpointForSafety \/ RestoreRows \/ RewrapSecrets
  \/ UndoRows \/ UndoRemoval \/ UndoCheckpoint
  \/ RemoveCheckpoint("restore", "undo rows") \/ RestoreCheckpoint("restore", "undo rows")

ImportStep ==
  \/ ImportRows \/ RemoveImported \/ RemoveImportedFile
  \/ RemoveCheckpoint("import", "remove rows") \/ RestoreCheckpoint("import", "remove rows")

------------------------------------------------------------------------------

(* The three ways in which a call goes on.                                   *)
LEMMA Continuations ==
  ASSUME call \in BackupCalls, NEW where \in BackupStages, NEW answer \in Answers
  PROVE  /\ CallGoes(where) =>
              Continues(where) /\ call'.faults = call.faults /\ call'.answer = call.answer
         /\ CallFails(where) => Continues(where) /\ call'.faults = call.faults + 1
         /\ CallFails("idle") =>
              /\ Continues("idle") /\ call'.faults = call.faults + 1
              /\ call'.answer = "failed"
         /\ CallAnswers(answer) =>
              Continues("idle") /\ call'.faults = call.faults /\ call'.answer = answer
<1>1. CallGoes(where) =>
        Continues(where) /\ call'.faults = call.faults /\ call'.answer = call.answer
  BY DEF CallGoes, Continues, BackupCalls
<1>2. ASSUME NEW next \in BackupStages, CallFails(next)
      PROVE  /\ Continues(next) /\ call'.faults = call.faults + 1
             /\ next = "idle" => call'.answer = "failed"
  <2> DEFINE said == IF next = "idle" THEN "failed" ELSE call.answer
  <2>1. said \in Answers
    BY DEF BackupCalls, Answers
  <2>2. call' = [call EXCEPT !.stage = next, !.faults = call.faults + 1, !.answer = said]
    BY <1>2 DEF CallFails
  <2>3. next = "idle" => said = "failed"
    OBVIOUS
  <2>4. call.faults + 1 \in Nat
    BY DEF BackupCalls
  <2> HIDE DEF said
  <2>5. call' \in BackupCalls
    BY <1>2, <2>1, <2>2, <2>4 DEF BackupCalls
  <2>6. call'.stage = next /\ call'.faults = call.faults + 1 /\ call'.answer = said
    BY <2>2 DEF BackupCalls
  <2>7. QED
    BY <2>2, <2>3, <2>5, <2>6 DEF Continues, BackupCalls
<1>3. CallAnswers(answer) =>
        Continues("idle") /\ call'.faults = call.faults /\ call'.answer = answer
  BY DEF CallAnswers, Continues, BackupCalls, BackupStages
<1>4. "idle" \in BackupStages
  BY DEF BackupStages
<1>5. QED
  BY <1>1, <1>2, <1>3, <1>4

(* No project, no backup and no call.                                        *)
LEMMA NothingSaved ==
  /\ NoRows \in SavedRows /\ NoRows.version = 0 /\ Present(NoRows) = {}
  /\ NoFolder \in Folders /\ ~NoFolder.made /\ ~NoFolder.sound
  /\ NoCall \in BackupCalls /\ NoCall.op = "none" /\ NoCall.stage = "idle"
  /\ NoCall.answer = "none"
<1>1. NoRows \in SavedRows /\ NoRows.version = 0 /\ Present(NoRows) = {}
  BY DEF NoRows, SavedRows, Keys, Present
<1>2. NoFolder \in Folders /\ ~NoFolder.made /\ ~NoFolder.sound
  BY <1>1 DEF NoFolder, Folders, NoCheckpoint
<1>3. NoCall \in BackupCalls /\ NoCall.op = "none" /\ NoCall.stage = "idle"
      /\ NoCall.answer = "none"
  BY <1>1, <1>2 DEF NoCall, BackupCalls, BackupStages, Answers, NoCheckpoint
<1>4. QED
  BY <1>1, <1>2, <1>3

(* Secrets that are encrypted again can be read here.                        *)
LEMMA WrappedRows ==
  ASSUME NEW r \in SavedRows, NEW ids \in SUBSET Present(r)
  PROVE  /\ Wrapped(r, ids) \in SavedRows /\ Wrapped(r, ids).version = r.version
         /\ ids = Present(r) => ReadableHere(Wrapped(r, ids), Present(Wrapped(r, ids)))
<1> DEFINE key == [id \in Credentials |-> IF id \in ids THEN "here" ELSE r.key[id]]
<1>1. Wrapped(r, ids) = [r EXCEPT !.key = key]
  BY DEF Wrapped
<1>2. key \in [Credentials -> Keys]
  BY DEF SavedRows, Keys
<1>3. /\ Wrapped(r, ids) \in SavedRows /\ Wrapped(r, ids).version = r.version
      /\ Wrapped(r, ids).key = key
  BY <1>1, <1>2 DEF SavedRows
<1>4. QED
  BY <1>3 DEF Present, ReadableHere

(* A step that leaves the rows, or gives them a version, keeps the types.     *)
LEMMA StepIsTyped ==
  ASSUME BackupTypeOK, database' \in SavedRows, checkpoint' \in Nat, folder' \in Folders,
         call' \in BackupCalls, edits' \in Nat
  PROVE  BackupTypeOK'
BY DEF BackupTypeOK

(* A call starts.                                                            *)
LEMMA StartIInv ==
  ASSUME BackupIInv, StartCreate \/ StartRestore \/ StartImport
  PROVE  BackupIInv' /\ AllOrNothing
<1>1. PICK op \in {"create", "restore", "import"} :
        /\ StartCall(op)
        /\ op \in {"create", "restore"} => database.version > 0
        /\ op \in {"restore", "import"} => folder.made
        /\ op = "import" => database.version = 0 /\ checkpoint = NoCheckpoint
  BY DEF StartCreate, StartRestore, StartImport
<1>2. /\ call.stage = "idle" /\ UNCHANGED <<database, checkpoint, folder, edits>>
      /\ call' = [NoCall EXCEPT !.op = op, !.stage = "start", !.rowsBefore = database,
                                !.checkpointBefore = checkpoint]
  BY <1>1 DEF StartCall
<1>3. /\ call' \in BackupCalls /\ call'.op = op /\ call'.stage = "start"
      /\ call'.rowsBefore = database /\ call'.checkpointBefore = checkpoint
  BY <1>2, NothingSaved DEF BackupCalls, BackupStages, BackupIInv, BackupTypeOK
<1>4. BackupTypeOK'
  BY <1>2, <1>3 DEF BackupIInv, BackupTypeOK
<1>5. ProjectIsThere' /\ SecretsAreComplete'
  BY <1>1, <1>2, <1>3 DEF BackupIInv, ProjectIsThere, SecretsAreComplete, CallAt, Present
<1>6. RestoreIsAt' /\ ImportIsAt'
  BY <1>1, <1>2, <1>3 DEF BackupIInv, ProjectIsThere, RestoreIsAt, ImportIsAt, Replacing, Undoing
<1>7. AllOrNothing
  BY <1>2 DEF AllOrNothing, Answered
<1>8. QED
  BY <1>4, <1>5, <1>6, <1>7 DEF BackupIInv

(* Something else works on the project, or the application ends.             *)
LEMMA OthersIInv ==
  ASSUME BackupIInv,
         \/ \E id \in Credentials : SaveCredential(id) \/ RemoveCredential(id)
         \/ RunEngine \/ CrashDuringCall
         \/ \E elsewhere \in BOOLEAN : LeaveProject(elsewhere)
  PROVE  BackupIInv' /\ AllOrNothing
<1>1. CASE \/ \E id \in Credentials : SaveCredential(id) \/ RemoveCredential(id)
           \/ RunEngine
  <2>1. /\ database.version > 0 /\ UNCHANGED folder /\ edits' = edits + 1
        /\ call' = [call EXCEPT !.undisturbed = FALSE]
    BY <1>1 DEF SaveCredential, RemoveCredential, RunEngine, Edit
  <2>2. database' \in SavedRows /\ database'.version > 0 /\ checkpoint' \in Nat
    <3>1. ASSUME NEW id \in Credentials, NEW key \in Keys,
                 database' = [database EXCEPT !.version = edits + 2, !.key[id] = key]
          PROVE  database' \in SavedRows /\ database'.version > 0
      <4>1. [database.key EXCEPT ![id] = key] \in [Credentials -> Keys] /\ edits + 2 \in Nat
        BY <3>1 DEF BackupIInv, BackupTypeOK, SavedRows
      <4>2. database' = [database EXCEPT !.version = edits + 2,
                                         !.key = [database.key EXCEPT ![id] = key]]
        BY <3>1 DEF BackupIInv, BackupTypeOK, SavedRows
      <4>3. edits + 2 > 0
        BY DEF BackupIInv, BackupTypeOK
      <4>4. QED
        BY <4>1, <4>2, <4>3 DEF BackupIInv, BackupTypeOK, SavedRows
    <3>2. ASSUME NEW id \in Credentials, SaveCredential(id) \/ RemoveCredential(id)
          PROVE  database' \in SavedRows /\ database'.version > 0 /\ checkpoint' \in Nat
      BY <3>1, <3>2 DEF SaveCredential, RemoveCredential, Keys, BackupIInv, BackupTypeOK
    <3>3. CASE RunEngine
      BY <2>1, <3>3 DEF RunEngine, BackupIInv, BackupTypeOK
    <3>4. QED
      BY <1>1, <3>2, <3>3
  <2>3. /\ call' \in BackupCalls /\ ~call'.undisturbed /\ call'.op = call.op
        /\ call'.stage = call.stage /\ call'.draft = call.draft
    BY <2>1 DEF BackupIInv, BackupTypeOK, BackupCalls
  <2>4. BackupTypeOK'
    BY <2>1, <2>2, <2>3 DEF BackupIInv, BackupTypeOK
  <2>5. SecretsAreComplete' /\ RestoreIsAt' /\ ImportIsAt'
    BY <2>1, <2>3 DEF BackupIInv, SecretsAreComplete, RestoreIsAt, ImportIsAt, Present
  <2>8. ProjectIsThere'
    <3>1. database'.version # 0
      BY <2>2 DEF SavedRows
    <3>2. QED
      BY <2>1, <2>2, <2>3, <3>1 DEF BackupIInv, ProjectIsThere, CallAt
  <2>6. AllOrNothing
    BY <2>3 DEF AllOrNothing, Answered
  <2>7. QED
    BY <2>4, <2>5, <2>6, <2>8 DEF BackupIInv
<1>2. CASE CrashDuringCall
  <2>1. call' = NoCall /\ UNCHANGED <<database, checkpoint, folder, edits>>
    BY <1>2 DEF CrashDuringCall
  <2>2. BackupTypeOK' /\ ProjectIsThere' /\ SecretsAreComplete' /\ RestoreIsAt' /\ ImportIsAt'
    BY <2>1, NothingSaved
    DEF BackupIInv, BackupTypeOK, ProjectIsThere, SecretsAreComplete, RestoreIsAt, ImportIsAt,
        CallAt, Present
  <2>3. AllOrNothing
    BY <2>1, NothingSaved DEF AllOrNothing, Answered
  <2>4. QED
    BY <2>2, <2>3 DEF BackupIInv
<1>3. ASSUME NEW elsewhere \in BOOLEAN, LeaveProject(elsewhere)
      PROVE  BackupIInv' /\ AllOrNothing
  <2> DEFINE key == [id \in Credentials |->
                       IF folder.rows.key[id] = "absent" THEN "absent" ELSE "elsewhere"]
  <2>1. /\ call.stage = "idle" /\ folder.made /\ database' = NoRows
        /\ checkpoint' = NoCheckpoint /\ call' = NoCall /\ UNCHANGED edits
        /\ folder' = IF elsewhere THEN [folder EXCEPT !.rows.key = key] ELSE folder
    BY <1>3 DEF LeaveProject, BackupIInv, BackupTypeOK, Folders, SavedRows
  <2>2. key \in [Credentials -> Keys]
    BY DEF Keys
  <2>3. /\ folder' \in Folders /\ folder'.made = folder.made /\ folder'.sound = folder.sound
        /\ folder'.secrets = folder.secrets
        /\ folder'.rows.version = folder.rows.version
        /\ folder'.rows.key \in {key, folder.rows.key}
    BY <2>1, <2>2 DEF BackupIInv, BackupTypeOK, Folders, SavedRows
  <2>4. Present(folder'.rows) = Present(folder.rows)
    BY <2>3 DEF Present
  <2>5. BackupTypeOK'
    BY <2>1, <2>3, NothingSaved DEF BackupIInv, BackupTypeOK, NoCheckpoint
  <2>6. SecretsAreComplete'
    BY <2>1, <2>3, <2>4, NothingSaved DEF BackupIInv, SecretsAreComplete, CallAt, Present
  <2>7. ProjectIsThere' /\ RestoreIsAt' /\ ImportIsAt'
    BY <2>1, <2>3, NothingSaved DEF BackupIInv, ProjectIsThere, RestoreIsAt, ImportIsAt, CallAt
  <2>8. AllOrNothing
    BY <2>1 DEF AllOrNothing, Answered
  <2>9. QED
    BY <2>5, <2>6, <2>7, <2>8 DEF BackupIInv
<1>4. QED
  BY <1>1, <1>2, <1>3

(* A backup is made.                                                         *)
LEMMA CreateIInv ==
  ASSUME BackupIInv, ExportSecrets \/ SnapshotRows \/ CopyCheckpoint \/ WriteManifest
  PROVE  BackupIInv' /\ AllOrNothing
<1>1. /\ call.op = "create" /\ call.stage # "idle"
      /\ UNCHANGED <<database, checkpoint, edits>>
      /\ call \in BackupCalls /\ folder \in Folders /\ database \in SavedRows
  BY DEF ExportSecrets, SnapshotRows, CopyCheckpoint, WriteManifest, CallAt, BackupIInv,
         BackupTypeOK
<1>2. AllOrNothing
  BY <1>1 DEF AllOrNothing
<1>3. ASSUME Continues("idle"), UNCHANGED folder PROVE BackupIInv'
  <2>1. BackupTypeOK'
    BY <1>1, <1>3 DEF BackupIInv, BackupTypeOK, Continues
  <2>2. ProjectIsThere' /\ SecretsAreComplete' /\ RestoreIsAt' /\ ImportIsAt'
    BY <1>1, <1>3
    DEF BackupIInv, ProjectIsThere, SecretsAreComplete, RestoreIsAt, ImportIsAt, CallAt,
        Continues, Present
  <2>3. QED
    BY <2>1, <2>2 DEF BackupIInv
<1>4. ASSUME CallFails("idle") \/ CallAnswers("failed"), UNCHANGED folder PROVE BackupIInv'
  <2>1. Continues("idle")
    BY <1>1, <1>4, Continuations DEF BackupStages, Answers
  <2>2. QED
    BY <1>3, <1>4, <2>1
<1>5. ASSUME CallAt("create", "start"), UNCHANGED folder,
             call' = [call EXCEPT !.draft.secrets = Present(database), !.stage = "snapshot"]
      PROVE  BackupIInv'
  <2>1. /\ call' \in BackupCalls /\ call'.op = "create" /\ call'.stage = "snapshot"
        /\ call'.undisturbed = call.undisturbed /\ call'.draft.secrets = Present(database)
    BY <1>1, <1>5 DEF BackupCalls, BackupStages, Folders, Present
  <2>2. BackupTypeOK'
    BY <1>1, <1>5, <2>1 DEF BackupIInv, BackupTypeOK
  <2>3. ProjectIsThere' /\ SecretsAreComplete' /\ RestoreIsAt' /\ ImportIsAt'
    BY <1>1, <1>5, <2>1
    DEF BackupIInv, ProjectIsThere, SecretsAreComplete, RestoreIsAt, ImportIsAt, CallAt, Present
  <2>4. QED
    BY <2>2, <2>3 DEF BackupIInv
<1>6. ASSUME CallAt("create", "snapshot"), UNCHANGED folder,
             call' = [call EXCEPT !.draft.rows = database, !.stage = "checkpoint"]
      PROVE  BackupIInv'
  <2>1. /\ call' \in BackupCalls /\ call'.op = "create" /\ call'.stage = "checkpoint"
        /\ call'.undisturbed = call.undisturbed /\ call'.draft.rows = database
        /\ call'.draft.secrets = call.draft.secrets
    BY <1>1, <1>6 DEF BackupCalls, BackupStages, Folders
  <2>2. BackupTypeOK'
    BY <1>1, <1>6, <2>1 DEF BackupIInv, BackupTypeOK
  <2>3. ProjectIsThere' /\ SecretsAreComplete' /\ RestoreIsAt' /\ ImportIsAt'
    BY <1>1, <1>6, <2>1
    DEF BackupIInv, ProjectIsThere, SecretsAreComplete, RestoreIsAt, ImportIsAt, CallAt, Present
  <2>4. QED
    BY <2>2, <2>3 DEF BackupIInv
<1>7. ASSUME CallAt("create", "checkpoint"), UNCHANGED folder,
             call' = [call EXCEPT !.draft.checkpoint = checkpoint, !.stage = "write"]
      PROVE  BackupIInv'
  <2>1. /\ call' \in BackupCalls /\ call'.op = "create" /\ call'.stage = "write"
        /\ call'.undisturbed = call.undisturbed /\ call'.draft.rows = call.draft.rows
        /\ call'.draft.secrets = call.draft.secrets
    BY <1>1, <1>7 DEF BackupCalls, BackupStages, Folders, BackupIInv, BackupTypeOK
  <2>2. BackupTypeOK'
    BY <1>1, <1>7, <2>1 DEF BackupIInv, BackupTypeOK
  <2>3. ProjectIsThere' /\ SecretsAreComplete' /\ RestoreIsAt' /\ ImportIsAt'
    BY <1>1, <1>7, <2>1
    DEF BackupIInv, ProjectIsThere, SecretsAreComplete, RestoreIsAt, ImportIsAt, CallAt, Present
  <2>4. QED
    BY <2>2, <2>3 DEF BackupIInv
<1>8. ASSUME CallAt("create", "write"), CallAnswers("done"),
             folder' = [call.draft EXCEPT !.made = TRUE, !.sound = call.undisturbed]
      PROVE  BackupIInv'
  <2>1. Continues("idle")
    BY <1>1, <1>8, Continuations DEF BackupStages, Answers
  <2>2. /\ folder' \in Folders /\ folder'.sound = call.undisturbed
        /\ folder'.rows = call.draft.rows /\ folder'.secrets = call.draft.secrets
    BY <1>1, <1>8 DEF BackupCalls, Folders
  <2>3. BackupTypeOK'
    BY <1>1, <2>1, <2>2 DEF BackupIInv, BackupTypeOK, Continues
  <2>4. ProjectIsThere' /\ SecretsAreComplete' /\ RestoreIsAt' /\ ImportIsAt'
    BY <1>1, <1>8, <2>1, <2>2
    DEF BackupIInv, ProjectIsThere, SecretsAreComplete, RestoreIsAt, ImportIsAt, CallAt,
        Continues, Present
  <2>5. QED
    BY <2>3, <2>4 DEF BackupIInv
<1>9. QED
  BY <1>2, <1>4, <1>5, <1>6, <1>7, <1>8
  DEF ExportSecrets, SnapshotRows, CopyCheckpoint, WriteManifest

(* Whatever a call writes, it goes on with what it knows.                    *)
LEMMA CallContinues ==
  ASSUME BackupIInv, NEW where \in BackupStages, Continues(where),
         database' \in SavedRows, database'.version = 0 => database' = NoRows,
         call.stage # "idle", checkpoint' \in Nat, UNCHANGED <<folder, edits>>,
         call.op \in {"restore", "import"}, call.op = "restore" => database'.version > 0,
         call.op = "restore" /\ where # "idle" => call.draft.rows.version > 0
  PROVE  BackupTypeOK' /\ ProjectIsThere' /\ SecretsAreComplete'
<1>1. BackupTypeOK'
  BY DEF BackupIInv, BackupTypeOK, Continues
<1>2. ProjectIsThere' /\ SecretsAreComplete'
  BY DEF BackupIInv, ProjectIsThere, SecretsAreComplete, CallAt, Continues, Present
<1>3. QED
  BY <1>1, <1>2

(* A failure is counted, and so is a backup that is not sound.               *)
LEMMA OneFault ==
  ASSUME call.faults \in Nat, folder' = folder,
         \/ call'.faults = call.faults + 1
         \/ call'.faults = call.faults /\ ~folder.sound
  PROVE  Faults' >= 1
<1>1. CASE call'.faults = call.faults + 1
  <2>1. Faults' = call.faults + 1 \/ Faults' = call.faults + 1 + 1
    BY <1>1 DEF Faults
  <2>2. QED
    BY <2>1
<1>2. CASE call'.faults = call.faults /\ ~folder.sound
  <2>1. Faults' = call.faults + 1
    BY <1>2 DEF Faults
  <2>2. QED
    BY <2>1
<1>3. QED
  BY <1>1, <1>2

(* What is undone has failed once.                                           *)
LEMMA UndoIsCounted ==
  ASSUME BackupIInv, Continues("undo rows"), UNCHANGED folder,
         call.stage \in {"rows", "rewrap"} \cup Replacing, call.op = "restore",
         \/ call'.faults = call.faults + 1
         \/ call'.faults = call.faults /\ (call.undisturbed => ~folder.sound)
  PROVE  RestoreIsAt'
<1>1. call.undisturbed => Faults' >= 1
  <2>1. call.faults \in Nat
    BY DEF BackupIInv, BackupTypeOK, BackupCalls
  <2>2. QED
    BY <2>1, OneFault
<1>2. QED
  BY <1>1 DEF BackupIInv, RestoreIsAt, Continues, Replacing, Undoing

(* A project is put back from a backup.                                      *)
LEMMA RestoreIInv ==
  ASSUME BackupIInv, RestoreStep
  PROVE  BackupIInv' /\ AllOrNothing
<1>1. /\ call.op = "restore" /\ call.stage # "idle" /\ UNCHANGED <<folder, edits>>
      /\ call \in BackupCalls /\ folder \in Folders /\ database \in SavedRows
      /\ checkpoint \in Nat /\ call.stage \in BackupStages /\ call.faults \in Nat
      /\ database.version > 0 /\ folder.made /\ folder.rows.version > 0
      /\ folder.rows \in SavedRows /\ call.draft.rows \in SavedRows
      /\ call.draft.checkpoint \in Nat /\ folder.checkpoint \in Nat
      /\ call.stage # "start" => call.draft.rows.version > 0
  BY DEF RestoreStep, CopyForSafety, CopyCheckpointForSafety, RestoreRows, RewrapSecrets, UndoRows,
         UndoRemoval, UndoCheckpoint, RemoveCheckpoint, RestoreCheckpoint, CallAt, BackupIInv,
         BackupTypeOK, ProjectIsThere, BackupCalls, Folders
<1>2. ASSUME NEW where \in BackupStages, Continues(where), call.stage # "start" \/ where = "idle",
             database' \in SavedRows, database'.version > 0, checkpoint' \in Nat,
             RestoreIsAt'
      PROVE  BackupIInv'
  <2>1. database'.version # 0
    <3>1. database'.version > 0 /\ database' \in SavedRows
      BY <1>2
    <3>2. QED
      BY <3>1 DEF SavedRows
  <2>2. BackupTypeOK' /\ ProjectIsThere' /\ SecretsAreComplete'
    BY <1>1, <1>2, <2>1, CallContinues
  <2>3. ImportIsAt'
    BY <1>1, <1>2 DEF ImportIsAt, Continues
  <2>4. QED
    BY <1>2, <2>2, <2>3 DEF BackupIInv
<1>3. ASSUME CallFails("idle"), UNCHANGED <<database, checkpoint>>,
             call.stage \in {"start", "safety"} \cup Undoing
      PROVE  BackupIInv' /\ AllOrNothing
  <2>1. Continues("idle") /\ call'.faults = call.faults + 1 /\ call'.answer = "failed"
    BY <1>1, <1>3, Continuations DEF BackupStages, Answers
  <2>2. RestoreIsAt'
    BY <2>1 DEF RestoreIsAt, Continues, Undoing, Replacing
  <2>3. BackupIInv'
    BY <1>1, <1>2, <1>3, <2>1, <2>2 DEF BackupStages
  <2>4. CASE call.stage \in {"start", "safety"}
    <3>1. call'.answer = "failed" /\ call'.undisturbed = call.undisturbed
      BY <2>1 DEF Continues
    <3>2. UNCHANGED <<database, checkpoint>>
      BY <1>3
    <3>3. call.undisturbed => database = call.rowsBefore /\ checkpoint = call.checkpointBefore
      BY <1>1, <2>4 DEF BackupIInv, RestoreIsAt
    <3>4. QED
      BY <2>3, <3>1, <3>2, <3>3 DEF AllOrNothing, Answered
  <2>5. CASE call.stage \in Undoing
    <3>1. call.undisturbed => Faults >= 1
      BY <1>1, <2>5 DEF BackupIInv, RestoreIsAt
    <3>2. call.undisturbed =>
            ~(call'.faults + (IF folder.sound THEN 0 ELSE 1) <= 1)
      <4>1. call.faults \in Nat /\ call'.faults = call.faults + 1
        BY <1>1, <2>1
      <4>2. QED
        BY <3>1, <4>1 DEF Faults
    <3>3. call'.answer = "failed" /\ call'.undisturbed = call.undisturbed
      BY <2>1 DEF Continues
    <3>4. QED
      BY <2>3, <3>2, <3>3 DEF AllOrNothing, Answered
  <2>6. QED
    BY <1>3, <2>3, <2>4, <2>5
<1>4. ASSUME NEW where \in BackupStages \ {"idle"}, CallGoes(where) \/ CallFails(where),
             call.stage # "start", database' \in SavedRows, database'.version > 0,
             checkpoint' \in Nat, Continues(where) => RestoreIsAt'
      PROVE  BackupIInv' /\ AllOrNothing
  <2>1. Continues(where)
    BY <1>1, <1>4, Continuations DEF Answers
  <2>2. AllOrNothing
    BY <1>4, <2>1 DEF AllOrNothing, Answered, Continues
  <2>3. QED
    BY <1>2, <1>4, <2>1, <2>2
<1>5. CASE CopyForSafety
  <2>1. /\ call.stage = "start" /\ UNCHANGED <<database, checkpoint>>
        /\ \/ call' = [call EXCEPT !.draft.rows = database, !.stage = "safety"]
           \/ CallFails("idle")
    BY <1>5 DEF CopyForSafety, CallAt
  <2>2. ASSUME call' = [call EXCEPT !.draft.rows = database, !.stage = "safety"]
        PROVE  BackupIInv' /\ AllOrNothing
    <3>1. /\ call' \in BackupCalls /\ call'.op = "restore" /\ call'.stage = "safety"
          /\ call'.undisturbed = call.undisturbed /\ call'.draft.rows = database
          /\ call'.rowsBefore = call.rowsBefore
          /\ call'.checkpointBefore = call.checkpointBefore
      BY <1>1, <2>2 DEF BackupCalls, BackupStages, Folders
    <3>2. BackupTypeOK'
      BY <1>1, <2>1, <3>1 DEF BackupIInv, BackupTypeOK
    <3>3. ProjectIsThere' /\ SecretsAreComplete' /\ ImportIsAt'
      BY <1>1, <2>1, <3>1
      DEF BackupIInv, ProjectIsThere, SecretsAreComplete, ImportIsAt, CallAt, Present
    <3>4. RestoreIsAt'
      BY <1>1, <2>1, <3>1 DEF BackupIInv, RestoreIsAt, Replacing, Undoing
    <3>5. AllOrNothing
      BY <3>1 DEF AllOrNothing, Answered
    <3>6. QED
      BY <3>2, <3>3, <3>4, <3>5 DEF BackupIInv
  <2>3. QED
    BY <1>3, <2>1, <2>2
<1>6. CASE CopyCheckpointForSafety
  <2>1. /\ call.stage = "safety" /\ UNCHANGED <<database, checkpoint>>
        /\ \/ call' = [call EXCEPT !.draft.checkpoint = checkpoint, !.stage = "rows"]
           \/ CallFails("idle")
    BY <1>6 DEF CopyCheckpointForSafety, CallAt
  <2>2. ASSUME call' = [call EXCEPT !.draft.checkpoint = checkpoint, !.stage = "rows"]
        PROVE  BackupIInv' /\ AllOrNothing
    <3>1. /\ call' \in BackupCalls /\ call'.op = "restore" /\ call'.stage = "rows"
          /\ call'.undisturbed = call.undisturbed /\ call'.draft.rows = call.draft.rows
          /\ call'.draft.checkpoint = checkpoint
          /\ call'.rowsBefore = call.rowsBefore
          /\ call'.checkpointBefore = call.checkpointBefore
      BY <1>1, <2>2 DEF BackupCalls, BackupStages, Folders
    <3>2. BackupTypeOK'
      BY <1>1, <2>1, <3>1 DEF BackupIInv, BackupTypeOK
    <3>3. ProjectIsThere' /\ SecretsAreComplete' /\ ImportIsAt'
      BY <1>1, <2>1, <3>1
      DEF BackupIInv, ProjectIsThere, SecretsAreComplete, ImportIsAt, CallAt, Present
    <3>4. RestoreIsAt'
      BY <1>1, <2>1, <3>1 DEF BackupIInv, RestoreIsAt, Replacing, Undoing
    <3>5. AllOrNothing
      BY <3>1 DEF AllOrNothing, Answered
    <3>6. QED
      BY <3>2, <3>3, <3>4, <3>5 DEF BackupIInv
  <2>3. QED
    BY <1>3, <2>1, <2>2
<1>7. CASE RestoreRows
  <2>1. /\ call.stage = "rows" /\ UNCHANGED checkpoint
        /\ \/ database' = folder.rows /\ CallGoes("rewrap")
           \/ UNCHANGED database /\ CallFails("undo rows")
    BY <1>7 DEF RestoreRows, CallAt
  <2>2. Continues("rewrap") /\ database' = folder.rows => RestoreIsAt'
    BY <1>1, <2>1 DEF BackupIInv, RestoreIsAt, Continues, Replacing, Undoing
  <2>4. ASSUME Continues("undo rows"), CallFails("undo rows") PROVE RestoreIsAt'
    <3>1. call'.faults = call.faults + 1
      BY <1>1, <2>4, Continuations DEF BackupStages, Answers
    <3>2. QED
      BY <1>1, <2>1, <2>4, <3>1, UndoIsCounted
  <2>5. QED
    BY <1>1, <1>4, <2>1, <2>2, <2>4 DEF BackupStages
<1>8. CASE RewrapSecrets
  <2>1. /\ call.stage = "rewrap" /\ UNCHANGED checkpoint
        /\ IF folder.secrets \subseteq Present(database)
           THEN \/ /\ database' = Wrapped(database, folder.secrets)
                   /\ CallGoes("remove checkpoint")
                \/ UNCHANGED database /\ CallFails("undo rows")
           ELSE UNCHANGED database /\ CallGoes("undo rows")
    BY <1>8 DEF RewrapSecrets, CallAt
  <2>2. ASSUME folder.secrets \subseteq Present(database),
               database' = Wrapped(database, folder.secrets), CallGoes("remove checkpoint")
        PROVE  BackupIInv' /\ AllOrNothing
    <3>1. database' \in SavedRows /\ database'.version = database.version
      BY <1>1, <2>2, WrappedRows
    <3>2. Continues("remove checkpoint") => RestoreIsAt'
      BY <1>1, <2>1, <2>2
      DEF BackupIInv, RestoreIsAt, Continues, Replacing, Undoing
    <3>3. database'.version > 0 /\ checkpoint' \in Nat /\ call.stage # "start"
      BY <1>1, <2>1, <3>1
    <3>4. QED
      BY <1>4, <2>2, <3>1, <3>2, <3>3 DEF BackupStages
  <2>3. ASSUME UNCHANGED database,
               \/ CallFails("undo rows")
               \/ CallGoes("undo rows") /\ ~(folder.secrets \subseteq Present(database))
        PROVE  BackupIInv' /\ AllOrNothing
    <3>1. ASSUME Continues("undo rows") PROVE RestoreIsAt'
      <4>1. CASE CallFails("undo rows")
        <5>1. call'.faults = call.faults + 1
          BY <1>1, <4>1, Continuations DEF BackupStages, Answers
        <5>2. QED
          BY <1>1, <2>1, <2>3, <3>1, <5>1, UndoIsCounted
      <4>2. CASE CallGoes("undo rows") /\ ~(folder.secrets \subseteq Present(database))
        <5>1. call'.faults = call.faults
          BY <1>1, <4>2, Continuations DEF BackupStages, Answers
        <5>2. call.undisturbed => ~folder.sound
          BY <1>1, <2>1, <4>2 DEF BackupIInv, RestoreIsAt, SecretsAreComplete
        <5>3. QED
          BY <1>1, <2>1, <2>3, <3>1, <5>1, <5>2, UndoIsCounted
      <4>3. QED
        BY <2>3, <4>1, <4>2
    <3>2. QED
      BY <1>1, <1>4, <2>1, <2>3, <3>1 DEF BackupStages
  <2>4. QED
    BY <2>1, <2>2, <2>3
<1>9. CASE RemoveCheckpoint("restore", "undo rows")
  <2>1. /\ call.stage = "remove checkpoint" /\ UNCHANGED database
        /\ \/ checkpoint' = NoCheckpoint /\ CallGoes("copy checkpoint")
           \/ UNCHANGED checkpoint /\ CallFails("undo rows")
    BY <1>9 DEF RemoveCheckpoint, CallAt
  <2>2. Continues("copy checkpoint") => RestoreIsAt'
    BY <1>1, <2>1 DEF BackupIInv, RestoreIsAt, Continues, Replacing, Undoing
  <2>3. ASSUME Continues("undo rows"), CallFails("undo rows") PROVE RestoreIsAt'
    <3>1. call'.faults = call.faults + 1
      BY <1>1, <2>3, Continuations DEF BackupStages, Answers
    <3>2. QED
      BY <1>1, <2>1, <2>3, <3>1, UndoIsCounted DEF Replacing
  <2>4. /\ database' \in SavedRows /\ database'.version > 0 /\ checkpoint' \in Nat
        /\ call.stage # "start"
    <3>1. checkpoint' \in {NoCheckpoint, checkpoint} /\ UNCHANGED database
          /\ call.stage = "remove checkpoint"
      BY <2>1
    <3>2. QED
      <4>1. NoCheckpoint \in Nat
        BY DEF NoCheckpoint
      <4>2. QED
        BY <1>1, <3>1, <4>1
  <2>5. QED
    BY <1>4, <2>1, <2>2, <2>3, <2>4 DEF BackupStages
<1>10. CASE RestoreCheckpoint("restore", "undo rows")
  <2>1. /\ call.stage = "copy checkpoint" /\ UNCHANGED database
        /\ \/ checkpoint' = folder.checkpoint /\ CallAnswers("done")
           \/ UNCHANGED checkpoint /\ CallFails("undo rows")
    BY <1>10 DEF RestoreCheckpoint, CallAt
  <2>2. ASSUME checkpoint' = folder.checkpoint, CallAnswers("done")
        PROVE  BackupIInv' /\ AllOrNothing
    <3>1. Continues("idle") /\ call'.answer = "done"
      BY <1>1, <2>2, Continuations DEF BackupStages, Answers
    <3>2. RestoreIsAt'
      BY <3>1 DEF RestoreIsAt, Continues, Replacing, Undoing
    <3>3. BackupIInv'
      BY <1>1, <1>2, <2>1, <2>2, <3>1, <3>2 DEF BackupStages
    <3>4. call.undisturbed => database = Wrapped(folder.rows, folder.secrets)
      BY <1>1, <2>1 DEF BackupIInv, RestoreIsAt, Replacing
    <3>5. folder.sound => folder.secrets = Present(folder.rows)
      BY DEF BackupIInv, SecretsAreComplete
    <3>6. AllOrNothing
      <4>1. UNCHANGED database /\ checkpoint' = folder.checkpoint
            /\ call'.undisturbed = call.undisturbed
        BY <2>1, <2>2, <3>1 DEF Continues
      <4>2. ASSUME call.undisturbed
            PROVE  /\ database'.version = folder.rows.version
                   /\ folder.sound => ReadableHere(database', Present(database'))
        <5>1. folder.secrets \subseteq Present(folder.rows)
          BY <1>1, <2>1, <4>2 DEF BackupIInv, RestoreIsAt, Replacing
        <5>2. QED
          BY <1>1, <3>4, <3>5, <4>1, <4>2, <5>1, WrappedRows
      <4>3. call'.answer # "failed"
        BY <3>1
      <4>4. QED
        BY <4>1, <4>2, <4>3 DEF AllOrNothing, Answered
    <3>7. QED
      BY <3>3, <3>6
  <2>3. ASSUME Continues("undo rows"), CallFails("undo rows"), UNCHANGED checkpoint
        PROVE RestoreIsAt'
    <3>1. call'.faults = call.faults + 1
      BY <1>1, <2>3, Continuations DEF BackupStages, Answers
    <3>2. QED
      BY <1>1, <2>1, <2>3, <3>1, UndoIsCounted DEF Replacing
  <2>4. QED
    <3>1. ASSUME UNCHANGED checkpoint, CallFails("undo rows") PROVE BackupIInv' /\ AllOrNothing
      <4>1. /\ database' \in SavedRows /\ database'.version > 0 /\ checkpoint' \in Nat
            /\ call.stage # "start"
        <5>1. UNCHANGED <<database, checkpoint>> /\ call.stage = "copy checkpoint"
          BY <2>1, <3>1
        <5>2. QED
          BY <1>1, <5>1
      <4>2. QED
        BY <1>4, <2>3, <3>1, <4>1 DEF BackupStages
    <3>2. QED
      BY <2>1, <2>2, <3>1
<1>11. CASE UndoRows
  <2>1. /\ call.stage = "undo rows" /\ UNCHANGED checkpoint
        /\ \/ database' = call.draft.rows /\ CallGoes("undo removal")
           \/ UNCHANGED database /\ CallFails("idle")
    BY <1>11 DEF UndoRows, CallAt
  <2>2. ASSUME database' = call.draft.rows, CallGoes("undo removal")
        PROVE  BackupIInv' /\ AllOrNothing
    <3>1. /\ Continues("undo removal") /\ call'.faults = call.faults
      BY <1>1, <2>2, Continuations DEF BackupStages, Answers
    <3>2. RestoreIsAt'
      BY <1>1, <2>1, <2>2, <3>1
      DEF BackupIInv, RestoreIsAt, Continues, Replacing, Undoing, Faults
    <3>3. database' \in SavedRows /\ database'.version > 0 /\ checkpoint' \in Nat
          /\ call.stage # "start"
      <4>1. database' = call.draft.rows /\ call.stage # "start" /\ UNCHANGED checkpoint
        BY <2>1, <2>2
      <4>2. QED
        BY <1>1, <4>1
    <3>4. QED
      BY <1>4, <2>2, <3>2, <3>3 DEF BackupStages
  <2>3. QED
    BY <1>3, <2>1, <2>2 DEF Undoing
<1>12. CASE UndoRemoval
  <2>1. /\ call.stage = "undo removal" /\ UNCHANGED database
        /\ \/ checkpoint' = NoCheckpoint /\ CallGoes("undo checkpoint")
           \/ UNCHANGED checkpoint /\ CallFails("idle")
    BY <1>12 DEF UndoRemoval, CallAt
  <2>2. ASSUME checkpoint' = NoCheckpoint, CallGoes("undo checkpoint")
        PROVE  BackupIInv' /\ AllOrNothing
    <3>1. /\ Continues("undo checkpoint") /\ call'.faults = call.faults
      BY <1>1, <2>2, Continuations DEF BackupStages, Answers
    <3>2. RestoreIsAt'
      BY <1>1, <2>1, <2>2, <3>1
      DEF BackupIInv, RestoreIsAt, Continues, Replacing, Undoing, Faults
    <3>3. database' \in SavedRows /\ database'.version > 0 /\ checkpoint' \in Nat
          /\ call.stage # "start"
      <4>1. checkpoint' = NoCheckpoint /\ call.stage # "start" /\ UNCHANGED database
        BY <2>1, <2>2
      <4>2. QED
        BY <1>1, <4>1 DEF NoCheckpoint
    <3>4. QED
      BY <1>4, <2>2, <3>2, <3>3 DEF BackupStages
  <2>3. QED
    BY <1>3, <2>1, <2>2 DEF Undoing
<1>13. CASE UndoCheckpoint
  <2>1. /\ call.stage = "undo checkpoint" /\ UNCHANGED database
        /\ \/ checkpoint' = call.draft.checkpoint /\ CallAnswers("failed")
           \/ UNCHANGED checkpoint /\ CallFails("idle")
    BY <1>13 DEF UndoCheckpoint, CallAt
  <2>2. ASSUME checkpoint' = call.draft.checkpoint, CallAnswers("failed")
        PROVE  BackupIInv' /\ AllOrNothing
    <3>1. Continues("idle") /\ call'.answer = "failed"
      BY <1>1, <2>2, Continuations DEF BackupStages, Answers
    <3>2. RestoreIsAt'
      BY <3>1 DEF RestoreIsAt, Continues, Replacing, Undoing
    <3>3. database' \in SavedRows /\ database'.version > 0 /\ checkpoint' \in Nat
      <4>1. checkpoint' = call.draft.checkpoint /\ UNCHANGED database
        BY <2>1, <2>2
      <4>2. QED
        BY <1>1, <4>1
    <3>4. BackupIInv'
      BY <1>2, <3>1, <3>2, <3>3 DEF BackupStages
    <3>5. AllOrNothing
      <4>1. call'.undisturbed = call.undisturbed /\ UNCHANGED database
            /\ checkpoint' = call.draft.checkpoint /\ call'.answer # "done"
        BY <2>1, <2>2, <3>1 DEF Continues
      <4>2. call.undisturbed =>
              database = call.rowsBefore /\ call.draft.checkpoint = call.checkpointBefore
        BY <1>1, <2>1 DEF BackupIInv, RestoreIsAt, Undoing
      <4>3. QED
        BY <4>1, <4>2 DEF AllOrNothing, Answered
    <3>6. QED
      BY <3>4, <3>5
  <2>3. QED
    BY <1>3, <2>1, <2>2 DEF Undoing
<1>14. QED
  BY <1>5, <1>6, <1>7, <1>8, <1>9, <1>10, <1>11, <1>12, <1>13 DEF RestoreStep

(* A project is made from a backup.                                          *)
LEMMA ImportIInv ==
  ASSUME BackupIInv, ImportStep
  PROVE  BackupIInv' /\ AllOrNothing
<1>1. /\ call.op = "import" /\ call.stage # "idle" /\ UNCHANGED <<folder, edits>>
      /\ call \in BackupCalls /\ folder \in Folders /\ database \in SavedRows
      /\ checkpoint \in Nat /\ call.faults \in Nat
      /\ folder.rows \in SavedRows /\ folder.rows.version > 0 /\ folder.checkpoint \in Nat
      /\ database.version = 0 => database = NoRows
  BY DEF ImportStep, ImportRows, RemoveImported, RemoveImportedFile, RemoveCheckpoint,
         RestoreCheckpoint, CallAt, BackupIInv, BackupTypeOK, ProjectIsThere, BackupCalls, Folders
<1>2. ASSUME NEW where \in BackupStages, Continues(where), database' \in SavedRows,
             database'.version = 0 => database' = NoRows, checkpoint' \in Nat, ImportIsAt'
      PROVE  BackupIInv'
  <2>1. BackupTypeOK' /\ ProjectIsThere' /\ SecretsAreComplete'
    BY <1>1, <1>2, CallContinues
  <2>2. RestoreIsAt'
    BY <1>1, <1>2 DEF RestoreIsAt, Continues
  <2>3. QED
    BY <1>2, <2>1, <2>2 DEF BackupIInv
<1>3. ASSUME NEW where \in BackupStages \ {"idle"}, CallGoes(where) \/ CallFails(where),
             database' \in SavedRows, database'.version = 0 => database' = NoRows,
             checkpoint' \in Nat, Continues(where) => ImportIsAt'
      PROVE  BackupIInv' /\ AllOrNothing
  <2>1. Continues(where)
    BY <1>1, <1>3, Continuations DEF Answers
  <2>2. AllOrNothing
    BY <1>3, <2>1 DEF AllOrNothing, Answered, Continues
  <2>3. QED
    BY <1>2, <1>3, <2>1, <2>2
<1>4. ASSUME Continues("idle"), call'.answer = "failed", database' \in SavedRows,
             database'.version = 0 => database' = NoRows, checkpoint' \in Nat,
             call.undisturbed =>
               \/ database' = call.rowsBefore /\ checkpoint' = call.checkpointBefore
               \/ call.faults >= 1 /\ call'.faults = call.faults + 1
      PROVE  BackupIInv' /\ AllOrNothing
  <2>1. ImportIsAt'
    BY <1>4 DEF ImportIsAt, Continues, Replacing
  <2>2. BackupIInv'
    BY <1>2, <1>4, <2>1 DEF BackupStages
  <2>3. call.faults >= 1 /\ call'.faults = call.faults + 1 =>
          ~(call'.faults + (IF folder.sound THEN 0 ELSE 1) <= 1)
    <3>1. ASSUME NEW n \in Nat, n >= 1
          PROVE  ~(n + 1 + 0 <= 1) /\ ~(n + 1 + 1 <= 1)
      BY <3>1
    <3>2. QED
      BY <1>1, <3>1
  <2>4. call'.undisturbed = call.undisturbed
    BY <1>4 DEF Continues
  <2>5. QED
    BY <1>4, <2>2, <2>3, <2>4 DEF AllOrNothing, Answered
<1>5. ASSUME CallFails("idle"), UNCHANGED <<database, checkpoint>>,
             call.undisturbed =>
               \/ database = call.rowsBefore /\ checkpoint = call.checkpointBefore
               \/ call.faults >= 1
      PROVE  BackupIInv' /\ AllOrNothing
  <2>1. Continues("idle") /\ call'.faults = call.faults + 1 /\ call'.answer = "failed"
    BY <1>1, <1>5, Continuations DEF BackupStages, Answers
  <2>2. QED
    BY <1>1, <1>4, <1>5, <2>1
<1>6. CASE ImportRows
  <2>1. /\ call.stage = "start" /\ UNCHANGED checkpoint
        /\ IF Present(folder.rows) \subseteq folder.secrets
           THEN \/ /\ database' = Wrapped(folder.rows, Present(folder.rows))
                   /\ CallGoes("remove checkpoint")
                \/ UNCHANGED database /\ CallFails("idle")
           ELSE UNCHANGED database /\ CallAnswers("failed")
    BY <1>6 DEF ImportRows, CallAt
  <2>2. call.undisturbed => database = call.rowsBefore /\ checkpoint = call.checkpointBefore
    BY <1>1, <2>1 DEF BackupIInv, ImportIsAt
  <2>3. ASSUME database' = Wrapped(folder.rows, Present(folder.rows)),
               CallGoes("remove checkpoint")
        PROVE  BackupIInv' /\ AllOrNothing
    <3>1. database' \in SavedRows /\ database'.version = folder.rows.version
      <4>1. Present(folder.rows) \in SUBSET Present(folder.rows)
        OBVIOUS
      <4>2. QED
        BY <1>1, <2>3, <4>1, WrappedRows
    <3>2. database'.version # 0
      <4>1. folder.rows.version \in Nat
        BY <1>1 DEF SavedRows
      <4>2. QED
        BY <1>1, <3>1, <4>1
    <3>3. Continues("remove checkpoint") => ImportIsAt'
      BY <1>1, <2>1, <2>3 DEF BackupIInv, ImportIsAt, Continues, Replacing
    <3>4. checkpoint' \in Nat
      BY <1>1, <2>1
    <3>5. QED
      BY <1>3, <2>3, <3>1, <3>2, <3>3, <3>4 DEF BackupStages
  <2>4. ASSUME UNCHANGED database, CallAnswers("failed") PROVE BackupIInv' /\ AllOrNothing
    <3>1. Continues("idle") /\ call'.answer = "failed"
      BY <1>1, <2>4, Continuations DEF BackupStages, Answers
    <3>2. UNCHANGED <<database, checkpoint>>
      BY <2>1, <2>4
    <3>3. QED
      BY <1>1, <1>4, <2>2, <3>1, <3>2
  <2>5. QED
    BY <1>5, <2>1, <2>2, <2>3, <2>4
<1>7. ASSUME CallFails("remove rows"), UNCHANGED <<database, checkpoint>>
      PROVE  BackupIInv' /\ AllOrNothing
  <2>1. call'.faults = call.faults + 1
    BY <1>1, <1>7, Continuations DEF BackupStages, Answers
  <2>2. call'.faults >= 1
    BY <1>1, <2>1
  <2>3. Continues("remove rows") => ImportIsAt'
    BY <1>1, <2>2 DEF BackupIInv, ImportIsAt, Continues, Replacing
  <2>4. QED
    BY <1>1, <1>3, <1>7, <2>3 DEF BackupStages
<1>8. CASE RemoveCheckpoint("import", "remove rows")
  <2>1. /\ call.stage = "remove checkpoint" /\ UNCHANGED database
        /\ \/ checkpoint' = NoCheckpoint /\ CallGoes("copy checkpoint")
           \/ UNCHANGED checkpoint /\ CallFails("remove rows")
    BY <1>8 DEF RemoveCheckpoint, CallAt
  <2>2. ASSUME checkpoint' = NoCheckpoint, CallGoes("copy checkpoint")
        PROVE  BackupIInv' /\ AllOrNothing
    <3>1. Continues("copy checkpoint") => ImportIsAt'
      BY <1>1, <2>1 DEF BackupIInv, ImportIsAt, Continues, Replacing
    <3>2. checkpoint' \in Nat /\ UNCHANGED database
      BY <2>1, <2>2 DEF NoCheckpoint
    <3>3. QED
      BY <1>1, <1>3, <2>2, <3>1, <3>2 DEF BackupStages
  <2>3. QED
    BY <1>7, <2>1, <2>2
<1>9. CASE RestoreCheckpoint("import", "remove rows")
  <2>1. /\ call.stage = "copy checkpoint" /\ UNCHANGED database
        /\ \/ checkpoint' = folder.checkpoint /\ CallAnswers("done")
           \/ UNCHANGED checkpoint /\ CallFails("remove rows")
    BY <1>9 DEF RestoreCheckpoint, CallAt
  <2>2. ASSUME checkpoint' = folder.checkpoint, CallAnswers("done")
        PROVE  BackupIInv' /\ AllOrNothing
    <3>1. Continues("idle") /\ call'.answer = "done"
      BY <1>1, <2>2, Continuations DEF BackupStages, Answers
    <3>2. ImportIsAt'
      BY <3>1 DEF ImportIsAt, Continues, Replacing
    <3>3. UNCHANGED database /\ checkpoint' \in Nat /\ checkpoint' = folder.checkpoint
      BY <1>1, <2>1, <2>2
    <3>4. BackupIInv'
      BY <1>1, <1>2, <3>1, <3>2, <3>3 DEF BackupStages
    <3>5. ASSUME call.undisturbed
          PROVE  /\ database'.version = folder.rows.version
                 /\ ReadableHere(database', Present(database'))
      <4>1. database = Wrapped(folder.rows, Present(folder.rows))
        BY <1>1, <2>1, <3>5 DEF BackupIInv, ImportIsAt, Replacing
      <4>2. Present(folder.rows) \in SUBSET Present(folder.rows)
        OBVIOUS
      <4>3. QED
        BY <1>1, <3>3, <4>1, <4>2, WrappedRows
    <3>6. call'.answer # "failed" /\ call'.undisturbed = call.undisturbed
      BY <3>1 DEF Continues
    <3>7. QED
      BY <3>3, <3>4, <3>5, <3>6 DEF AllOrNothing, Answered
  <2>3. QED
    BY <1>7, <2>1, <2>2
<1>10. CASE RemoveImported
  <2>1. /\ call.stage = "remove rows" /\ UNCHANGED checkpoint
        /\ \/ database' = NoRows /\ CallGoes("remove file")
           \/ UNCHANGED database /\ CallFails("idle")
    BY <1>10 DEF RemoveImported, CallAt
  <2>2. call.undisturbed => call.faults >= 1
    BY <1>1, <2>1 DEF BackupIInv, ImportIsAt
  <2>3. ASSUME database' = NoRows, CallGoes("remove file") PROVE BackupIInv' /\ AllOrNothing
    <3>1. call'.faults = call.faults
      BY <1>1, <2>3, Continuations DEF BackupStages, Answers
    <3>2. Continues("remove file") => ImportIsAt'
      BY <1>1, <2>1, <2>2, <2>3, <3>1 DEF BackupIInv, ImportIsAt, Continues, Replacing
    <3>3. checkpoint' \in Nat
      BY <1>1, <2>1
    <3>4. QED
      BY <1>3, <2>3, <3>2, <3>3, NothingSaved DEF BackupStages
  <2>4. QED
    BY <1>5, <2>1, <2>2, <2>3
<1>11. CASE RemoveImportedFile
  <2>1. /\ call.stage = "remove file" /\ UNCHANGED database
        /\ \/ checkpoint' = NoCheckpoint /\ CallAnswers("failed")
           \/ UNCHANGED checkpoint /\ CallFails("idle")
    BY <1>11 DEF RemoveImportedFile, CallAt
  <2>2. call.undisturbed =>
          /\ call.faults >= 1 /\ database = call.rowsBefore
          /\ call.checkpointBefore = NoCheckpoint
    BY <1>1, <2>1 DEF BackupIInv, ImportIsAt
  <2>3. ASSUME checkpoint' = NoCheckpoint, CallAnswers("failed")
        PROVE  BackupIInv' /\ AllOrNothing
    <3>1. Continues("idle") /\ call'.answer = "failed"
      BY <1>1, <2>3, Continuations DEF BackupStages, Answers
    <3>2. UNCHANGED database /\ checkpoint' \in Nat
      BY <2>1, <2>3 DEF NoCheckpoint
    <3>3. call.undisturbed =>
            database' = call.rowsBefore /\ checkpoint' = call.checkpointBefore
      BY <2>2, <2>3, <3>2
    <3>4. QED
      BY <1>1, <1>4, <3>1, <3>2, <3>3
  <2>4. QED
    BY <1>5, <2>1, <2>2, <2>3
<1>12. QED
  BY <1>6, <1>8, <1>9, <1>10, <1>11 DEF ImportStep

(* A project there is, and no backup.                                        *)
LEMMA BackupInitIInv == BackupInit => BackupIInv
<1> SUFFICES ASSUME BackupInit PROVE BackupIInv
  OBVIOUS
<1>1. /\ database \in SavedRows /\ database.version = 1
      /\ checkpoint \in Nat /\ folder = NoFolder /\ call = NoCall /\ edits \in Nat
  BY DEF BackupInit, SavedRows, Keys, NoCheckpoint
<1>2. BackupTypeOK /\ ProjectIsThere /\ SecretsAreComplete /\ RestoreIsAt /\ ImportIsAt
  BY <1>1, NothingSaved
  DEF BackupTypeOK, ProjectIsThere, SecretsAreComplete, RestoreIsAt, ImportIsAt, CallAt
<1>3. QED
  BY <1>2 DEF BackupIInv

(* Every step.                                                               *)
LEMMA BackupNextIInv ==
  BackupIInv /\ [BackupNext]_backupVars => BackupIInv' /\ [AllOrNothing]_backupVars
<1> SUFFICES ASSUME BackupIInv, [BackupNext]_backupVars
             PROVE  BackupIInv' /\ [AllOrNothing]_backupVars
  OBVIOUS
<1>1. CASE \/ \E id \in Credentials : SaveCredential(id) \/ RemoveCredential(id)
           \/ RunEngine \/ CrashDuringCall
           \/ \E elsewhere \in BOOLEAN : LeaveProject(elsewhere)
  BY <1>1, OthersIInv
<1>2. CASE StartCreate \/ StartRestore \/ StartImport
  BY <1>2, StartIInv
<1>3. CASE ExportSecrets \/ SnapshotRows \/ CopyCheckpoint \/ WriteManifest
  BY <1>3, CreateIInv
<1>4. CASE RestoreStep
  BY <1>4, RestoreIInv
<1>5. CASE ImportStep
  BY <1>5, ImportIInv
<1>6. CASE UNCHANGED backupVars
  <2>1. UNCHANGED <<database, checkpoint, folder, call, edits>>
    BY <1>6 DEF backupVars
  <2>2. BackupTypeOK'
    BY <2>1 DEF BackupIInv, BackupTypeOK
  <2>3. ProjectIsThere'
    BY <2>1 DEF BackupIInv, ProjectIsThere, CallAt
  <2>4. SecretsAreComplete'
    BY <2>1 DEF BackupIInv, SecretsAreComplete, CallAt, Present
  <2>5. RestoreIsAt' /\ ImportIsAt'
    BY <2>1 DEF BackupIInv, RestoreIsAt, ImportIsAt, Present, Wrapped, Faults
  <2>6. QED
    BY <1>6, <2>2, <2>3, <2>4, <2>5 DEF BackupIInv
<1>7. ASSUME NEW op \in {"restore", "import"},
             LET failed == IF op = "restore" THEN "undo rows" ELSE "remove rows"
             IN  RemoveCheckpoint(op, failed) \/ RestoreCheckpoint(op, failed)
      PROVE  RestoreStep \/ ImportStep
  <2>1. CASE op = "restore"
    BY <1>7, <2>1 DEF RestoreStep
  <2>2. CASE op = "import"
    BY <1>7, <2>2 DEF ImportStep
  <2>3. QED
    BY <2>1, <2>2
<1>8. QED
  BY <1>1, <1>2, <1>3, <1>4, <1>5, <1>6, <1>7 DEF BackupNext, RestoreStep, ImportStep

(* A restore or an import that nothing else disturbs is all or nothing, for  *)
(* any credentials, changes and failures (backup.handlers.ts,                *)
(* container.ts).                                                            *)
THEOREM OneFailureIsUndone == BackupSpec => RestoreIsAllOrNothing
<1>1. BackupIInv /\ [BackupNext]_backupVars => [AllOrNothing]_backupVars
  BY BackupNextIInv
<1>2. BackupIInv /\ [BackupNext]_backupVars => BackupIInv'
  BY BackupNextIInv
<1>3. RestoreIsAllOrNothing <=> [][AllOrNothing]_backupVars
  BY PTL DEF RestoreIsAllOrNothing, AllOrNothing
<1>4. QED
  BY <1>1, <1>2, <1>3, BackupInitIInv, PTL DEF BackupSpec

------------------------------------------------------------------------------
(* The form of the project.                                                  *)

ProjectRows ==
  [identity : Identities \cup {"none"}, region : Regions \cup {"none"}, passkey : Nat]
PlanRegions == Regions \cup {NoRegion, "none"}
Changes == [identity : Identities \cup {Keep}, region : Regions \cup {Keep}]
EditStages ==
  {"idle", "preview", "stacks", "get plan", "save plan", "load", "save", "compensate"}
Edits ==
  [stage : EditStages, change : Changes, current : ProjectRows, proposed : ProjectRows,
   plan : PlanRegions, before : PlanRegions, loaded : ProjectRows]

AggregateTypeOK ==
  /\ project \in ProjectRows /\ regionOfPlan \in PlanRegions
  /\ edit \in [Editors -> Edits]
  /\ rekey.loaded \in ProjectRows /\ chosen \in Nat /\ updateFailures \in Nat

\* What an update knows of the row and of the plan, and what it has done to the plan.
UpdateIsAt(e, row, region, failures) ==
  /\ e.current = row
  /\ e.stage \in {"preview", "stacks", "get plan"} => e.plan = NoRegion /\ region = e.before
  /\ e.stage # "preview" => e.proposed = Updated(row, e.change)
  /\ e.stage \in {"get plan", "save plan", "compensate"} \/ e.plan # NoRegion =>
       e.current.region # e.proposed.region \/ e.stage = "preview"
  /\ e.stage \in {"save plan", "compensate"} => e.plan # NoRegion
  /\ e.plan # NoRegion => e.plan = e.before
  /\ e.stage = "save plan" => region = e.before
  /\ e.stage \in {"load", "save"} =>
       region = IF e.plan = NoRegion THEN e.before ELSE e.proposed.region
  /\ e.stage = "save" => e.loaded = row
  /\ e.stage = "compensate" => failures >= 1

AggregateIInv ==
  /\ AggregateTypeOK
  /\ ~disturbed =>
       \A c \in Updating : UpdateIsAt(edit[c], project, regionOfPlan, updateFailures)

UpdatesAreUndone ==
  \A c \in Editors :
    c \in Updating /\ c \notin Updating' /\ ~disturbed' /\ updateFailures' <= 1 =>
      regionOfPlan' = IF edit[c].plan # NoRegion /\ project'.region = edit[c].proposed.region
                      THEN project'.region ELSE edit[c].before

------------------------------------------------------------------------------

(* No row, no form and no call.                                              *)
LEMMA NothingEdited ==
  /\ NoRow \in ProjectRows /\ NoForm \in Changes
  /\ NoEdit \in Edits /\ NoEdit.stage = "idle"
<1>1. NoRow \in ProjectRows
  BY DEF NoRow, ProjectRows
<1>2. NoForm \in Changes
  BY DEF NoForm, Changes, Keep
<1>3. NoEdit \in Edits /\ NoEdit.stage = "idle"
  BY <1>1, <1>2 DEF NoEdit, Edits, EditStages, PlanRegions
<1>4. QED
  BY <1>1, <1>2, <1>3

(* A form gives a row.                                                       *)
LEMMA UpdatedRows ==
  ASSUME NEW row \in ProjectRows, NEW change \in Changes
  PROVE  Updated(row, change) \in ProjectRows
<1> DEFINE identity == IF change.identity = Keep THEN row.identity ELSE change.identity
           region == IF change.region = Keep THEN row.region ELSE change.region
<1>1. identity \in Identities \cup {"none"} /\ region \in Regions \cup {"none"}
  BY DEF ProjectRows, Changes
<1>2. Updated(row, change) = [row EXCEPT !.identity = identity, !.region = region]
  BY DEF Updated
<1> HIDE DEF identity, region
<1>3. QED
  BY <1>1, <1>2 DEF ProjectRows

(* A step of one call keeps the invariant if it does for this call, as every *)
(* other call that is under way makes the step one that disturbs.            *)
LEMMA OneUpdates ==
  ASSUME AggregateIInv, NEW c \in Editors, c \in Updating, AggregateTypeOK',
         \A d \in Editors \ {c} : edit'[d] = edit[d],
         disturbed' = (disturbed \/ \E a, b \in Updating : a # b),
         UpdateIsAt(edit[c], project, regionOfPlan, updateFailures) =>
           IF c \in Updating'
           THEN UpdateIsAt(edit'[c], project', regionOfPlan', updateFailures')
           ELSE updateFailures' <= 1 =>
                  regionOfPlan' =
                    IF edit[c].plan # NoRegion /\ project'.region = edit[c].proposed.region
                    THEN project'.region ELSE edit[c].before
  PROVE  AggregateIInv' /\ UpdatesAreUndone
<1>1. ASSUME ~disturbed' PROVE ~disturbed /\ Updating \subseteq {c}
  BY <1>1
<1>2. ASSUME NEW d \in Editors, d # c PROVE d \in Updating' <=> d \in Updating
  BY <1>2 DEF Updating, FormAt
<1>3. ASSUME ~disturbed'
      PROVE  UpdateIsAt(edit[c], project, regionOfPlan, updateFailures)
  BY <1>1, <1>3 DEF AggregateIInv
<1>4. AggregateIInv'
  <2> SUFFICES ASSUME ~disturbed', NEW d \in Updating'
               PROVE  UpdateIsAt(edit'[d], project', regionOfPlan', updateFailures')
    BY DEF AggregateIInv
  <2>1. d \in Editors
    BY DEF Updating
  <2>2. d = c
    BY <1>1, <1>2, <2>1
  <2>3. QED
    BY <1>3, <2>2
<1>5. UpdatesAreUndone
  <2> SUFFICES ASSUME NEW d \in Editors, d \in Updating, d \notin Updating', ~disturbed',
                      updateFailures' <= 1
               PROVE  regionOfPlan' =
                        IF edit[d].plan # NoRegion /\ project'.region = edit[d].proposed.region
                        THEN project'.region ELSE edit[d].before
    BY DEF UpdatesAreUndone
  <2>1. d = c
    BY <1>1
  <2>2. QED
    BY <1>3, <2>1
<1>6. QED
  BY <1>4, <1>5

(* An update starts.                                                         *)
LEMMA StartUpdateIInv ==
  ASSUME AggregateIInv, NEW c \in Editors, NEW change \in Forms, StartUpdate(c, change),
         disturbed' = (disturbed \/ \E a, b \in Updating : a # b)
  PROVE  AggregateIInv' /\ UpdatesAreUndone
<1> DEFINE e == [NoEdit EXCEPT !.stage = "preview", !.change = change, !.current = project,
                               !.before = regionOfPlan]
<1>1. /\ edit[c].stage = "idle" /\ edit' = [edit EXCEPT ![c] = e]
      /\ UNCHANGED <<project, regionOfPlan, managed, rekey, engine, chosen, updateFailures>>
  BY DEF StartUpdate, FormAt
<1>2. change \in Changes
  BY FormsAreChanges DEF Changes
<1>3. /\ e \in Edits /\ e.stage = "preview" /\ e.current = project /\ e.before = regionOfPlan
      /\ e.plan = NoRegion
  <2>1. e = [[NoEdit EXCEPT !.stage = "preview", !.change = change]
               EXCEPT !.current = project, !.before = regionOfPlan]
    BY DEF NoEdit
  <2>2. [NoEdit EXCEPT !.stage = "preview", !.change = change] \in Edits
    BY <1>2, NothingEdited DEF Edits, EditStages
  <2>3. QED
    BY <2>1, <2>2 DEF AggregateIInv, AggregateTypeOK, Edits, EditStages, NoEdit
<1> HIDE DEF e
<1>4. edit' \in [Editors -> Edits] /\ edit'[c] = e
      /\ \A d \in Editors \ {c} : edit'[d] = edit[d]
  BY <1>1, <1>3 DEF AggregateIInv, AggregateTypeOK
<1>5. AggregateTypeOK'
  BY <1>1, <1>4 DEF AggregateIInv, AggregateTypeOK
<1>6. ASSUME ~disturbed', NEW d \in Updating'
      PROVE  UpdateIsAt(edit'[d], project', regionOfPlan', updateFailures')
  <2>1. d \in Editors /\ edit'[d].stage # "idle" /\ ~disturbed
    BY <1>6 DEF Updating, FormAt
  <2>2. CASE d = c
    BY <1>1, <1>3, <1>4, <2>2 DEF UpdateIsAt
  <2>3. CASE d # c
    <3>1. edit'[d] = edit[d] /\ d \in Updating
      BY <1>4, <2>1, <2>3 DEF Updating, FormAt
    <3>2. QED
      BY <1>1, <2>1, <3>1 DEF AggregateIInv
  <2>4. QED
    BY <2>2, <2>3
<1>7. UpdatesAreUndone
  <2>1. \A d \in Updating : d \in Updating'
    BY <1>1, <1>3, <1>4 DEF Updating, FormAt
  <2>2. QED
    BY <2>1 DEF UpdatesAreUndone
<1>8. QED
  BY <1>5, <1>6, <1>7 DEF AggregateIInv

(* An update goes on.                                                        *)
LEMMA StepIInv ==
  ASSUME AggregateIInv, NEW c \in Editors,
         \/ PreviewUpdate(c) \/ ListStacks(c) \/ GetPlan(c) \/ SaveRegionOfPlan(c)
         \/ Load(c) \/ Save(c) \/ Compensate(c),
         disturbed' = (disturbed \/ \E a, b \in Updating : a # b)
  PROVE  AggregateIInv' /\ UpdatesAreUndone
<1> DEFINE e == edit[c]
           Known == UpdateIsAt(edit[c], project, regionOfPlan, updateFailures)
           Done == regionOfPlan' =
                     IF edit[c].plan # NoRegion /\ project'.region = edit[c].proposed.region
                     THEN project'.region ELSE edit[c].before
<1>1. /\ c \in Updating /\ e.stage # "idle" /\ UNCHANGED <<rekey, chosen>>
      /\ project \in ProjectRows /\ regionOfPlan \in PlanRegions /\ updateFailures \in Nat
      /\ edit \in [Editors -> Edits] /\ e \in Edits /\ rekey.loaded \in ProjectRows
      /\ chosen \in Nat
  BY DEF PreviewUpdate, ListStacks, GetPlan, SaveRegionOfPlan, Load, Save, Compensate, FormAt,
         Updating, AggregateIInv, AggregateTypeOK
<1>2. /\ e.stage \in EditStages /\ e.change \in Changes /\ e.current \in ProjectRows
      /\ e.proposed \in ProjectRows /\ e.plan \in PlanRegions /\ e.before \in PlanRegions
      /\ e.loaded \in ProjectRows
  BY <1>1 DEF Edits
<1>3. ASSUME NEW next \in Edits, edit' = [edit EXCEPT ![c] = next],
             project' \in ProjectRows, regionOfPlan' \in PlanRegions, updateFailures' \in Nat,
             next.stage # "idle" /\ Known =>
               UpdateIsAt(next, project', regionOfPlan', updateFailures'),
             next.stage = "idle" /\ updateFailures' <= 1 /\ Known => Done
      PROVE  AggregateIInv' /\ UpdatesAreUndone
  <2>1. /\ edit' \in [Editors -> Edits] /\ edit'[c] = next
        /\ \A d \in Editors \ {c} : edit'[d] = edit[d]
    BY <1>1, <1>3
  <2>2. AggregateTypeOK'
    BY <1>1, <1>3, <2>1 DEF AggregateTypeOK
  <2>3. c \in Updating' <=> next.stage # "idle"
    BY <2>1 DEF Updating, FormAt
  <2>4. QED
    BY <1>1, <1>3, <2>1, <2>2, <2>3, OneUpdates
<1>4. ASSUME FormAnswers(c), project' \in ProjectRows, regionOfPlan' \in PlanRegions,
             updateFailures' \in Nat, updateFailures' <= 1 /\ Known => Done
      PROVE  AggregateIInv' /\ UpdatesAreUndone
  BY <1>3, <1>4, NothingEdited DEF FormAnswers
<1>5. ASSUME NEW where \in EditStages \ {"idle"}, FormGoes(c, where),
             project' \in ProjectRows, regionOfPlan' \in PlanRegions, updateFailures' \in Nat,
             ASSUME NEW next \in Edits, next = [edit[c] EXCEPT !.stage = where],
                    next.stage = where, next.change = e.change, next.current = e.current,
                    next.proposed = e.proposed, next.plan = e.plan, next.before = e.before,
                    next.loaded = e.loaded, Known
             PROVE  UpdateIsAt(next, project', regionOfPlan', updateFailures')
      PROVE  AggregateIInv' /\ UpdatesAreUndone
  <2> DEFINE next == [edit[c] EXCEPT !.stage = where]
  <2>1. edit' = [edit EXCEPT ![c] = next]
    BY <1>5 DEF FormGoes
  <2>2. /\ next \in Edits /\ next.stage = where /\ next.change = e.change
        /\ next.current = e.current /\ next.proposed = e.proposed /\ next.plan = e.plan
        /\ next.before = e.before /\ next.loaded = e.loaded
    BY <1>1 DEF Edits
  <2>3. Known => UpdateIsAt(next, project', regionOfPlan', updateFailures')
    BY <1>5, <2>2
  <2> HIDE DEF next
  <2>4. QED
    BY <1>3, <1>5, <2>1, <2>2, <2>3
<1>6. CASE PreviewUpdate(c)
  <2> DEFINE proposed == Updated(project, e.change)
             next == [edit[c] EXCEPT !.proposed = proposed, !.stage = "stacks"]
  <2>1. /\ e.stage = "preview" /\ edit' = [edit EXCEPT ![c] = next]
        /\ UNCHANGED <<project, regionOfPlan, updateFailures>>
    BY <1>1, <1>6 DEF PreviewUpdate, FormAt
  <2>2. proposed \in ProjectRows
    BY <1>1, <1>2, UpdatedRows
  <2>3. /\ next \in Edits /\ next.stage = "stacks" /\ next.change = e.change
        /\ next.current = e.current /\ next.proposed = proposed /\ next.plan = e.plan
        /\ next.before = e.before
    BY <1>1, <2>2 DEF Edits, EditStages
  <2>4. Known => UpdateIsAt(next, project, regionOfPlan, updateFailures)
    BY <2>1, <2>3 DEF UpdateIsAt
  <2> HIDE DEF next
  <2>5. QED
    BY <1>1, <1>3, <2>1, <2>3, <2>4
<1>7. CASE ListStacks(c)
  <2> DEFINE where == IF Differs(c, "region") THEN "get plan" ELSE "load"
  <2>1. /\ e.stage = "stacks" /\ UNCHANGED <<project, regionOfPlan, updateFailures>>
        /\ FormAnswers(c) \/ FormGoes(c, where)
    BY <1>7 DEF ListStacks, FormAt
  <2>2. Known => e.plan = NoRegion /\ regionOfPlan = e.before
    BY <2>1 DEF UpdateIsAt
  <2>3. CASE FormAnswers(c)
    BY <1>1, <1>4, <2>1, <2>2, <2>3
  <2>4. CASE FormGoes(c, where)
    <3>1. where \in EditStages \ {"idle"}
      BY DEF EditStages
    <3>2. where = "get plan" => e.current.region # e.proposed.region
      BY DEF Differs
    <3>3. where \in {"get plan", "load"}
      OBVIOUS
    <3> HIDE DEF where
    <3>4. ASSUME NEW next \in Edits, next.stage = where, next.change = e.change,
                 next.current = e.current, next.proposed = e.proposed, next.plan = e.plan,
                 next.before = e.before, Known
          PROVE  UpdateIsAt(next, project, regionOfPlan, updateFailures)
      BY <2>1, <3>2, <3>3, <3>4 DEF UpdateIsAt
    <3>5. QED
      BY <1>1, <1>5, <2>1, <2>4, <3>1, <3>4
  <2>5. QED
    BY <2>1, <2>3, <2>4
<1>8. CASE GetPlan(c)
  <2> DEFINE where == IF regionOfPlan = NoRegion THEN "load" ELSE "save plan"
             next == [edit[c] EXCEPT !.plan = regionOfPlan, !.stage = where]
  <2>1. /\ e.stage = "get plan" /\ edit' = [edit EXCEPT ![c] = next]
        /\ UNCHANGED <<project, regionOfPlan, updateFailures>>
    BY <1>1, <1>8 DEF GetPlan, FormAt
  <2>2. where \in {"load", "save plan"} /\ (where = "load" <=> regionOfPlan = NoRegion)
    OBVIOUS
  <2> HIDE DEF where
  <2>3. /\ next \in Edits /\ next.stage = where /\ next.change = e.change
        /\ next.current = e.current /\ next.proposed = e.proposed /\ next.plan = regionOfPlan
        /\ next.before = e.before
    BY <1>1, <2>2 DEF Edits, EditStages
  <2>4. Known => UpdateIsAt(next, project, regionOfPlan, updateFailures)
    BY <2>1, <2>2, <2>3 DEF UpdateIsAt
  <2>5. next.stage # "idle"
    BY <2>2, <2>3
  <2> HIDE DEF next
  <2>6. QED
    BY <1>1, <1>3, <2>1, <2>3, <2>4, <2>5
<1>9. CASE SaveRegionOfPlan(c)
  <2>1. /\ e.stage = "save plan" /\ UNCHANGED project
        /\ \/ regionOfPlan' = e.proposed.region /\ FormGoes(c, "load") /\ UNCHANGED updateFailures
           \/ UNCHANGED regionOfPlan /\ FormAnswers(c) /\ WriteFails
    BY <1>9 DEF SaveRegionOfPlan, FormAt
  <2>2. CASE /\ regionOfPlan' = e.proposed.region /\ FormGoes(c, "load")
             /\ UNCHANGED updateFailures
    <3>1. regionOfPlan' \in PlanRegions
      BY <1>2, <2>2 DEF ProjectRows, PlanRegions
    <3>2. ASSUME NEW next \in Edits, next.stage = "load", next.change = e.change,
                 next.current = e.current, next.proposed = e.proposed, next.plan = e.plan,
                 next.before = e.before, Known
          PROVE  UpdateIsAt(next, project', regionOfPlan', updateFailures')
      BY <2>1, <2>2, <3>2 DEF UpdateIsAt
    <3>3. "load" \in EditStages \ {"idle"}
      BY DEF EditStages
    <3>4. QED
      BY <1>1, <1>5, <2>1, <2>2, <3>1, <3>2, <3>3
  <2>3. CASE UNCHANGED regionOfPlan /\ FormAnswers(c) /\ WriteFails
    <3>1. updateFailures' \in Nat
      BY <1>1, <2>3 DEF WriteFails
    <3>2. Known => Done
      BY <2>1, <2>3 DEF UpdateIsAt
    <3>3. QED
      BY <1>1, <1>4, <2>1, <2>3, <3>1, <3>2
  <2>4. QED
    BY <2>1, <2>2, <2>3
<1>10. CASE Load(c)
  <2> DEFINE next == [edit[c] EXCEPT !.loaded = project, !.stage = "save"]
  <2>1. /\ e.stage = "load" /\ edit' = [edit EXCEPT ![c] = next]
        /\ UNCHANGED <<project, regionOfPlan, updateFailures>>
    BY <1>1, <1>10 DEF Load, FormAt
  <2>2. /\ next \in Edits /\ next.stage = "save" /\ next.change = e.change
        /\ next.current = e.current /\ next.proposed = e.proposed /\ next.plan = e.plan
        /\ next.before = e.before /\ next.loaded = project
    BY <1>1 DEF Edits, EditStages
  <2>3. Known => UpdateIsAt(next, project, regionOfPlan, updateFailures)
    BY <2>1, <2>2 DEF UpdateIsAt
  <2> HIDE DEF next
  <2>4. QED
    BY <1>1, <1>3, <2>1, <2>2, <2>3
<1>11. CASE Save(c)
  <2>1. /\ e.stage = "save" /\ UNCHANGED regionOfPlan
        /\ \/ /\ project' = Updated(e.loaded, e.change)
              /\ FormAnswers(c) /\ UNCHANGED updateFailures
           \/ /\ UNCHANGED project /\ WriteFails
              /\ IF e.plan = NoRegion THEN FormAnswers(c) ELSE FormGoes(c, "compensate")
    BY <1>11 DEF Save, FormAt
  <2>2. CASE project' = Updated(e.loaded, e.change) /\ FormAnswers(c) /\ UNCHANGED updateFailures
    <3>1. project' \in ProjectRows
      BY <1>2, <2>2, UpdatedRows
    <3>2. Known => project' = e.proposed /\ regionOfPlan =
                     IF e.plan = NoRegion THEN e.before ELSE e.proposed.region
      BY <2>1, <2>2 DEF UpdateIsAt
    <3>3. QED
      BY <1>1, <1>4, <2>1, <2>2, <3>1, <3>2
  <2>3. CASE UNCHANGED project /\ WriteFails /\ e.plan = NoRegion /\ FormAnswers(c)
    <3>1. updateFailures' \in Nat
      BY <1>1, <2>3 DEF WriteFails
    <3>2. Known => Done
      BY <2>1, <2>3 DEF UpdateIsAt
    <3>3. QED
      BY <1>1, <1>4, <2>1, <2>3, <3>1, <3>2
  <2>4. CASE UNCHANGED project /\ WriteFails /\ e.plan # NoRegion /\ FormGoes(c, "compensate")
    <3>1. updateFailures' \in Nat /\ updateFailures' >= 1
      BY <1>1, <2>4 DEF WriteFails
    <3>2. ASSUME NEW next \in Edits, next.stage = "compensate", next.change = e.change,
                 next.current = e.current, next.proposed = e.proposed, next.plan = e.plan,
                 next.before = e.before, Known
          PROVE  UpdateIsAt(next, project', regionOfPlan', updateFailures')
      BY <2>1, <2>4, <3>1, <3>2 DEF UpdateIsAt
    <3>3. "compensate" \in EditStages \ {"idle"}
      BY DEF EditStages
    <3>4. QED
      BY <1>1, <1>5, <2>1, <2>4, <3>1, <3>2, <3>3
  <2>5. QED
    BY <2>1, <2>2, <2>3, <2>4
<1>12. CASE Compensate(c)
  <2>1. /\ e.stage = "compensate" /\ UNCHANGED project /\ FormAnswers(c)
        /\ \/ regionOfPlan' = e.plan /\ UNCHANGED updateFailures
           \/ UNCHANGED regionOfPlan /\ WriteFails
    BY <1>12 DEF Compensate, FormAt
  <2>2. CASE regionOfPlan' = e.plan /\ UNCHANGED updateFailures
    <3>1. Known => Done
      BY <2>1, <2>2 DEF UpdateIsAt
    <3>2. QED
      BY <1>1, <1>2, <1>4, <2>1, <2>2, <3>1
  <2>3. CASE UNCHANGED regionOfPlan /\ WriteFails
    <3>1. updateFailures' = updateFailures + 1
      BY <2>3 DEF WriteFails
    <3>2. Known => updateFailures >= 1
      BY <2>1 DEF UpdateIsAt
    <3>3. updateFailures' \in Nat /\ (updateFailures >= 1 => ~(updateFailures' <= 1))
      BY <1>1, <3>1
    <3>4. QED
      BY <1>1, <1>4, <2>1, <2>3, <3>2, <3>3
  <2>4. QED
    BY <2>1, <2>2, <2>3
<1>13. QED
  BY <1>6, <1>7, <1>8, <1>9, <1>10, <1>11, <1>12

(* Something else writes: it disturbs what is under way.                     *)
LEMMA OtherIInv ==
  ASSUME AggregateIInv, OtherStep, disturbed' = (disturbed \/ Updating # {})
  PROVE  AggregateIInv' /\ UpdatesAreUndone
<1>1. /\ UNCHANGED <<edit, updateFailures>> /\ regionOfPlan' \in PlanRegions
      /\ project' \in ProjectRows /\ rekey'.loaded \in ProjectRows /\ chosen' \in Nat
  <2>1. CASE StartRekey
    BY <2>1 DEF StartRekey, AggregateIInv, AggregateTypeOK
  <2>2. CASE SavePasskey
    <3>1. /\ project' = [rekey.loaded EXCEPT !.passkey = chosen + 1] /\ chosen' = chosen + 1
          /\ rekey' = NoRekey /\ UNCHANGED <<regionOfPlan, edit, updateFailures>>
          /\ rekey.loaded \in ProjectRows /\ chosen \in Nat /\ regionOfPlan \in PlanRegions
      BY <2>2 DEF SavePasskey, AggregateIInv, AggregateTypeOK
    <3>2. project' \in ProjectRows /\ chosen' \in Nat
      BY <3>1 DEF ProjectRows
    <3>3. rekey'.loaded \in ProjectRows
      BY <3>1, NothingEdited DEF NoRekey
    <3>4. QED
      BY <3>1, <3>2, <3>3
  <2>3. ASSUME NEW region \in Regions, SavePlanOfPage(region)
        PROVE  /\ UNCHANGED <<edit, updateFailures, project, rekey, chosen>>
               /\ regionOfPlan' \in PlanRegions
    BY <2>3 DEF SavePlanOfPage, PlanRegions
  <2>4. ASSUME NEW c \in Engines, EndRun(c) \/ \E op \in {"apply", "destroy"} : StartRun(c, op)
        PROVE  /\ UNCHANGED <<edit, updateFailures, project, rekey, chosen>>
               /\ regionOfPlan' \in {regionOfPlan, NoRegion}
    BY <2>4 DEF EndRun, StartRun
  <2>5. project \in ProjectRows /\ rekey.loaded \in ProjectRows /\ chosen \in Nat
        /\ regionOfPlan \in PlanRegions /\ NoRegion \in PlanRegions
    BY DEF AggregateIInv, AggregateTypeOK, PlanRegions
  <2>6. QED
    BY <2>1, <2>2, <2>3, <2>4, <2>5 DEF OtherStep
<1>2. Updating' = Updating
  BY <1>1 DEF Updating, FormAt
<1>3. AggregateIInv'
  BY <1>1, <1>2 DEF AggregateIInv, AggregateTypeOK
<1>4. UpdatesAreUndone
  BY <1>2 DEF UpdatesAreUndone
<1>5. QED
  BY <1>3, <1>4

(* A single failed write in an update that nothing else disturbs leaves      *)
(* nothing half done (project-configuration-service.ts), for any forms and   *)
(* any number of calls.                                                      *)
THEOREM UpdatesLeaveNothingHalfDone == AggregateSpec => FailedUpdateIsUndone
<1>1. AggregateInit => AggregateIInv
  <2> SUFFICES ASSUME AggregateInit PROVE AggregateIInv
    OBVIOUS
  <2>1. project \in ProjectRows /\ regionOfPlan \in PlanRegions
    BY DEF AggregateInit, ProjectRows, PlanRegions
  <2>2. edit \in [Editors -> Edits] /\ Updating = {}
    BY NothingEdited DEF AggregateInit, Updating, FormAt
  <2>3. rekey.loaded \in ProjectRows /\ chosen \in Nat /\ updateFailures \in Nat
    BY NothingEdited DEF AggregateInit, NoRekey
  <2>4. QED
    BY <2>1, <2>2, <2>3 DEF AggregateIInv, AggregateTypeOK
<1>2. AggregateIInv /\ [AggregateNext]_aggregateVars =>
        AggregateIInv' /\ [UpdatesAreUndone]_aggregateVars
  <2> SUFFICES ASSUME AggregateIInv, [AggregateNext]_aggregateVars
               PROVE  AggregateIInv' /\ [UpdatesAreUndone]_aggregateVars
    OBVIOUS
  <2>1. CASE UNCHANGED aggregateVars
    <3>1. UNCHANGED <<project, regionOfPlan, edit, rekey, chosen, updateFailures, disturbed>>
      BY <2>1 DEF aggregateVars
    <3>2. Updating' = Updating
      BY <3>1 DEF Updating, FormAt
    <3>3. QED
      BY <2>1, <3>1, <3>2 DEF AggregateIInv, AggregateTypeOK
  <2>2. CASE UpdateStep /\ disturbed' = (disturbed \/ \E c, d \in Updating : c # d)
    BY <2>2, StartUpdateIInv, StepIInv DEF UpdateStep
  <2>3. CASE OtherStep /\ disturbed' = (disturbed \/ Updating # {})
    BY <2>3, OtherIInv
  <2>4. QED
    BY <2>1, <2>2, <2>3 DEF AggregateNext
<1>3. AggregateIInv /\ [AggregateNext]_aggregateVars => [UpdatesAreUndone]_aggregateVars
  BY <1>2
<1>4. AggregateIInv /\ [AggregateNext]_aggregateVars => AggregateIInv'
  BY <1>2
<1>5. FailedUpdateIsUndone <=> [][UpdatesAreUndone]_aggregateVars
  BY PTL DEF FailedUpdateIsUndone, UpdatesAreUndone
<1>6. QED
  BY <1>1, <1>3, <1>4, <1>5, PTL DEF AggregateSpec

------------------------------------------------------------------------------
(* The copy of a project.                                                    *)

CopyStages == {"idle", "clone", "link", "remove", "failed", "done"}
Clones == {OfCopy(id) : id \in SourceCredentials}
Names == Clones \cup {OfSource(id) : id \in SourceCredentials} \cup {Nobody}

DuplicationTypeOK ==
  /\ source \in [credentials : SUBSET SourceCredentials, plan : References, provider : References]
  /\ copy \in [stage : CopyStages, row : BOOLEAN, credentials : SUBSET Clones, plan : Names,
               provider : Names, linkTo : Names]
  /\ copyFailures \in Nat

\* A link is to a clone from the moment it is decided, and a copy that is being removed
\* is one that failed.
DuplicationIInv ==
  /\ DuplicationTypeOK
  /\ \A id \in source.credentials : OfSource(id) # copy.plan
  /\ {copy.provider, copy.linkTo} \subseteq copy.credentials \cup {Nobody}
  /\ copy.stage = "idle" => copy = NoCopy
  /\ copy.stage = "clone" => copy.provider = Nobody
  /\ copy.stage = "remove" => copyFailures >= 1
  /\ copy.stage = "failed" /\ copyFailures <= 1 => copy = [NoCopy EXCEPT !.stage = "failed"]

------------------------------------------------------------------------------

(* A clone, a credential of the source and none are told apart.              *)
LEMMA NamesDiffer ==
  /\ \A id, other : OfSource(id) # OfCopy(other) /\ OfSource(id) # Nobody
  /\ \A id, other : OfSource(id) = OfSource(other) => id = other
BY DEF OfSource, OfCopy, Nobody

(* A step of the source: what it has left it had.                            *)
LEMMA SourceIInv ==
  ASSUME DuplicationIInv, NEW id \in SourceCredentials,
         RemoveFromSource(id) \/ ChoosePlan(id) \/ ChooseProvider(id)
  PROVE  DuplicationIInv'
<1>1. UNCHANGED <<copy, copyFailures>>
  BY DEF RemoveFromSource, ChoosePlan, ChooseProvider
<1>2. /\ source' \in [credentials : SUBSET SourceCredentials, plan : References,
                      provider : References]
      /\ source'.credentials \subseteq source.credentials
  <2> DEFINE Sources == [credentials : SUBSET SourceCredentials, plan : References,
                         provider : References]
  <2>1. source \in Sources /\ id \in References /\ NoCredential \in References
    BY DEF DuplicationIInv, DuplicationTypeOK, References
  <2> DEFINE provider == IF source.provider = id THEN NoCredential ELSE source.provider
  <2>2. provider \in References
    BY <2>1
  <2>3. CASE source' = [source EXCEPT !.credentials = source.credentials \ {id},
                                      !.provider = provider]
    <3> HIDE DEF provider
    <3>1. QED
      BY <2>1, <2>2, <2>3
  <2>4. CASE source' = [source EXCEPT !.plan = id] \/ source' = [source EXCEPT !.provider = id]
    BY <2>1, <2>4
  <2>5. QED
    BY <2>3, <2>4 DEF RemoveFromSource, ChoosePlan, ChooseProvider
<1>3. QED
  BY <1>1, <1>2 DEF DuplicationIInv, DuplicationTypeOK

(* A step of the copy.                                                       *)
LEMMA CopyIInv ==
  ASSUME DuplicationIInv, CreateCopy \/ CloneConfiguration \/ LinkCopy \/ RemoveCopy
  PROVE  DuplicationIInv'
<1> DEFINE Copies == [stage : CopyStages, row : BOOLEAN, credentials : SUBSET Clones,
                      plan : Names, provider : Names, linkTo : Names]
<1>1. source' = source /\ copy \in Copies /\ copyFailures \in Nat
      /\ source \in [credentials : SUBSET SourceCredentials, plan : References,
                     provider : References]
  BY DEF CreateCopy, CloneConfiguration, LinkCopy, RemoveCopy, DuplicationIInv, DuplicationTypeOK
<1>2. /\ NoCopy \in Copies /\ NoCopy.stage = "idle" /\ NoCopy.credentials = {}
      /\ NoCopy.plan = Nobody /\ NoCopy.provider = Nobody /\ NoCopy.linkTo = Nobody
  BY DEF NoCopy, Names, CopyStages
<1>3. ASSUME NEW where \in {"remove", "failed"}, CopyGoes(where), CopyFails,
             where = "failed" => copyFailures >= 1 \/ copy = NoCopy
      PROVE  DuplicationIInv'
  <2>1. copy' = [copy EXCEPT !.stage = where] /\ copyFailures' = copyFailures + 1
    BY <1>3 DEF CopyGoes, CopyFails
  <2>2. /\ copy' \in Copies /\ copy'.stage = where /\ copy'.plan = copy.plan
        /\ copy'.provider = copy.provider /\ copy'.linkTo = copy.linkTo
        /\ copy'.credentials = copy.credentials
    BY <1>1, <2>1 DEF CopyStages
  <2>3. copyFailures' \in Nat /\ copyFailures' >= 1
    BY <1>1, <2>1
  <2>4. where = "failed" => copyFailures' > 1 \/ copy' = [NoCopy EXCEPT !.stage = "failed"]
    BY <1>1, <1>3, <2>1
  <2>5. copyFailures' > 1 => ~(copyFailures' <= 1)
    BY <2>3
  <2>6. where # "idle"
    BY <1>3
  <2>7. QED
    BY <1>1, <2>2, <2>3, <2>4, <2>5, <2>6 DEF DuplicationIInv, DuplicationTypeOK
<1>4. CASE CreateCopy
  <2>1. copy = NoCopy
    BY <1>4 DEF CreateCopy, DuplicationIInv
  <2>2. CASE copy' = [NoCopy EXCEPT !.stage = "clone", !.row = TRUE] /\ UNCHANGED copyFailures
    <3>1. /\ copy' \in Copies /\ copy'.stage = "clone" /\ copy'.credentials = {}
          /\ copy'.plan = Nobody /\ copy'.provider = Nobody /\ copy'.linkTo = Nobody
      BY <1>2, <2>2 DEF CopyStages
    <3>2. QED
      BY <1>1, <2>2, <3>1, NamesDiffer DEF DuplicationIInv, DuplicationTypeOK
  <2>3. CASE CopyGoes("failed") /\ CopyFails
    BY <1>3, <2>1, <2>3
  <2>4. QED
    BY <1>4, <2>2, <2>3 DEF CreateCopy
<1>5. CASE CloneConfiguration
  <2> DEFINE clones == {OfCopy(id) : id \in source.credentials}
             link == IF source.provider \in source.credentials THEN OfCopy(source.provider)
                     ELSE Nobody
  <2>1. CASE /\ copy' = [copy EXCEPT !.stage = "link", !.credentials = clones,
                                     !.plan = Remapped(source.plan), !.linkTo = link]
             /\ UNCHANGED copyFailures
    <3>1. clones \subseteq Clones /\ link \in clones \cup {Nobody}
      BY <1>1 DEF Clones
    <3>2. Remapped(source.plan) \in Names
          /\ \A id \in source.credentials : OfSource(id) # Remapped(source.plan)
      BY <1>1, NamesDiffer DEF Remapped, Named, Names, Clones, References
    <3>3. link \in Names
      BY <3>1 DEF Names
    <3> HIDE DEF clones, link
    <3>4. copy' = [[copy EXCEPT !.stage = "link", !.credentials = clones]
                     EXCEPT !.plan = Remapped(source.plan), !.linkTo = link]
      BY <2>1
    <3>5. /\ copy' \in Copies /\ copy'.stage = "link" /\ copy'.credentials = clones
          /\ copy'.plan = Remapped(source.plan) /\ copy'.provider = copy.provider
          /\ copy'.linkTo = link
      BY <1>1, <3>1, <3>2, <3>3, <3>4 DEF CopyStages
    <3>6. copy.provider = Nobody
      BY <1>5 DEF CloneConfiguration, DuplicationIInv
    <3>7. QED
      BY <1>1, <2>1, <3>1, <3>2, <3>5, <3>6 DEF DuplicationIInv, DuplicationTypeOK
  <2>2. CASE CopyGoes("remove") /\ CopyFails
    BY <1>3, <2>2
  <2>3. QED
    BY <1>5, <2>1, <2>2 DEF CloneConfiguration
<1>6. CASE LinkCopy
  <2>1. CASE copy' = [copy EXCEPT !.stage = "done", !.provider = copy.linkTo]
             /\ UNCHANGED copyFailures
    <3>1. /\ copy' \in Copies /\ copy'.stage = "done" /\ copy'.credentials = copy.credentials
          /\ copy'.plan = copy.plan /\ copy'.provider = copy.linkTo
          /\ copy'.linkTo = copy.linkTo
      BY <1>1, <2>1 DEF CopyStages
    <3>2. QED
      BY <1>1, <2>1, <3>1 DEF DuplicationIInv, DuplicationTypeOK
  <2>2. CASE CopyGoes("remove") /\ CopyFails
    BY <1>3, <2>2
  <2>3. QED
    BY <1>6, <2>1, <2>2 DEF LinkCopy
<1>7. CASE RemoveCopy
  <2>1. CASE copy' = [NoCopy EXCEPT !.stage = "failed"] /\ UNCHANGED copyFailures
    <3>1. /\ copy' \in Copies /\ copy'.stage = "failed" /\ copy'.credentials = {}
          /\ copy'.plan = Nobody /\ copy'.provider = Nobody /\ copy'.linkTo = Nobody
      BY <1>2, <2>1 DEF CopyStages
    <3>2. QED
      BY <1>1, <2>1, <3>1, NamesDiffer DEF DuplicationIInv, DuplicationTypeOK
  <2>2. CASE CopyGoes("failed") /\ CopyFails
    <3>1. copyFailures >= 1
      BY <1>7 DEF RemoveCopy, DuplicationIInv
    <3>2. QED
      BY <1>3, <2>2, <3>1
  <2>3. QED
    BY <1>7, <2>1, <2>2 DEF RemoveCopy
<1>8. QED
  BY <1>4, <1>5, <1>6, <1>7

(* The copy of a project stands alone, whatever is edited meanwhile          *)
(* (project-duplication-service.ts), for any credentials and failures.       *)
THEOREM CopiesStandAlone == DuplicationSpec => []CopyStandsAlone
<1>1. DuplicationInit => DuplicationIInv
  <2> SUFFICES ASSUME DuplicationInit PROVE DuplicationIInv
    OBVIOUS
  <2>1. copy = NoCopy /\ copyFailures = 0
        /\ source \in [credentials : SUBSET SourceCredentials, plan : References,
                       provider : References]
    BY DEF DuplicationInit
  <2>2. QED
    BY <2>1, NamesDiffer DEF DuplicationIInv, DuplicationTypeOK, NoCopy, Names, CopyStages
<1>2. DuplicationIInv /\ [DuplicationNext]_duplicationVars => DuplicationIInv'
  <2> SUFFICES ASSUME DuplicationIInv, [DuplicationNext]_duplicationVars PROVE DuplicationIInv'
    OBVIOUS
  <2>1. CASE UNCHANGED duplicationVars
    BY <2>1 DEF duplicationVars, DuplicationIInv, DuplicationTypeOK
  <2>2. QED
    BY <2>1, SourceIInv, CopyIInv DEF DuplicationNext
<1>3. DuplicationIInv => CopyStandsAlone
  <2> SUFFICES ASSUME DuplicationIInv PROVE CopyStandsAlone
    OBVIOUS
  <2>1. \A id \in source.credentials : OfSource(id) \notin {copy.plan, copy.provider}
    BY NamesDiffer DEF DuplicationIInv, DuplicationTypeOK, Clones
  <2>2. QED
    BY <2>1 DEF DuplicationIInv, CopyStandsAlone
<1>4. QED
  BY <1>1, <1>2, <1>3, PTL DEF DuplicationSpec

------------------------------------------------------------------------------
(* The upgrade of the database.                                              *)

(* What the references of earlier releases name.                             *)
EarlierReferences == LegacyCredentials \cup {NoReference, <<"provider">>}

(* Rows as earlier releases left them.                                       *)
EarlierProjects(rows) ==
  DOMAIN rows \subseteq ProjectSet /\ rows \in [DOMAIN rows -> EarlierReferences]

EarlierRows ==
  /\ EarlierProjects(projects) /\ EarlierProjects(copied)
  /\ DOMAIN credentials \subseteq LegacyCredentials
  /\ credentials \in [DOMAIN credentials -> [owner : {Null}, secret : LegacyCredentials]]
  /\ DOMAIN targetRows \subseteq TargetSet
  /\ targetRows \in [DOMAIN targetRows ->
                       [managed : OrNull(ProjectSet), ssh : EarlierReferences, owner : {Null}]]
  /\ DOMAIN pipelines \subseteq PipelineSet
  /\ pipelines \in [DOMAIN pipelines ->
                      [target : OrNull(TargetSet), credential : EarlierReferences, owner : {Null}]]
  /\ settings \subseteq [kind : {"plan", "runtime-plan"}, about : ProjectSet \cup TargetSet,
                         owner : {Null}]
  /\ \A s \in settings : s.kind = "runtime-plan" => s.about \in DOMAIN targetRows

NothingStored ==
  /\ projects = EmptyTable /\ copied = EmptyTable /\ credentials = EmptyTable
  /\ targetRows = EmptyTable /\ pipelines = EmptyTable /\ settings = {}

SchemaOK ==
  schema \in [tables : SUBSET TableSet, providerKey : {Null, "Provider", "Credential"},
              copy : BOOLEAN, owned : BOOLEAN, managedColumns : Nat]

(* The table of projects is rebuilt only before its rows have owners, and    *)
(* once they have, its key is not the old one any more.                      *)
RebuiltBefore ==
  /\ stage \in {"make copy", "fill copy", "drop", "rename"} => ~schema.owned
  /\ stage \in TableSet \cup {"own"} /\ stage # "Project" => schema.providerKey # "Provider"
  /\ schema.owned => schema.providerKey # "Provider"

UpgradeIInv ==
  /\ SchemaOK /\ RebuiltBefore
  /\ "Credential" \notin schema.tables => NothingStored /\ ~schema.owned
  /\ IF schema.owned THEN RowsIsolated ELSE EarlierRows
  /\ stage = "running" => schema.owned

(* A list that has one of some ids has a first.                              *)
LEMMA FirstIsOne ==
  ASSUME NEW S, NEW list \in Seq(S), NEW ids, NEW n \in DOMAIN list, list[n] \in ids
  PROVE  FirstOf(list, ids) \in ids
<1> DEFINE found == {i \in DOMAIN list : list[i] \in ids}
<1>1. n \in found /\ found \subseteq Nat /\ DOMAIN list = 1..Len(list)
  OBVIOUS
<1>2. PICK i \in found : \A k \in found : ~(<<k, i>> \in OpToRel(<, Nat))
  <2> HIDE DEF found
  <2>1. QED
    BY <1>1, NatLessThanWellFounded, WFMin
<1>3. \A k \in found : ~(k < i)
  BY <1>1, <1>2 DEF OpToRel
<1>4. i \in DOMAIN list /\ list[i] \in ids /\ \A k \in 1..(i - 1) : list[k] \notin ids
  <2> SUFFICES ASSUME NEW k \in 1..(i - 1), list[k] \in ids PROVE FALSE
    OBVIOUS
  <2>1. i \in 1..Len(list) /\ k < i /\ k \in 1..Len(list)
    BY <1>1
  <2>2. QED
    BY <1>1, <1>3, <2>1
<1>5. QED
  BY <1>4 DEF FirstOf

(* Every project is in the order.                                            *)
LEMMA ProjectsInOrder ==
  ASSUME NEW p \in ProjectSet \cup {DefaultProject}
  PROVE  /\ InOrder \in Seq(ProjectSet \cup {DefaultProject})
         /\ \E i \in DOMAIN InOrder : InOrder[i] = p
<1>1. /\ ProjectOrder \in Seq(ProjectSet \cup {DefaultProject})
      /\ DOMAIN ProjectOrder = 1..Len(ProjectOrder) /\ Len(ProjectOrder) \in Nat
  <2>1. ProjectOrder \in Seq(ProjectSet)
    BY OrdersAreSequences
  <2>2. QED
    BY <2>1
<1>2. /\ InOrder \in Seq(ProjectSet \cup {DefaultProject})
      /\ DOMAIN InOrder = 1..(Len(ProjectOrder) + 1)
      /\ InOrder[Len(ProjectOrder) + 1] = DefaultProject
      /\ \A i \in 1..Len(ProjectOrder) : InOrder[i] = ProjectOrder[i]
  BY <1>1 DEF InOrder
<1>3. CASE p = DefaultProject
  BY <1>1, <1>2, <1>3
<1>4. CASE p \in ProjectSet
  <2>1. PICK i \in DOMAIN ProjectOrder : ProjectOrder[i] = p
    BY <1>4 DEF ProjectSet
  <2>2. i \in DOMAIN InOrder /\ InOrder[i] = p
    BY <1>1, <1>2, <2>1
  <2>3. QED
    BY <1>2, <2>2
<1>5. QED
  BY <1>3, <1>4

(* Whoever is given a row is a project.                                      *)
LEMMA OwnersAreProjects ==
  ASSUME EarlierRows, OwnedProjects # EmptyTable
  PROVE  /\ DOMAIN OwnedProjects \subseteq ProjectSet \cup {DefaultProject}
         /\ OwnedProjects \in [DOMAIN OwnedProjects -> EarlierReferences]
         /\ Fallback \in DOMAIN OwnedProjects
         /\ \A t : OwnerOfTarget(t) \in DOMAIN OwnedProjects
         /\ \A j : OwnerOfPipeline(j) \in DOMAIN OwnedProjects
<1>1. /\ DOMAIN OwnedProjects \subseteq ProjectSet \cup {DefaultProject}
      /\ OwnedProjects \in [DOMAIN OwnedProjects -> EarlierReferences]
  <2>1. CASE OwnedProjects = projects
    BY <2>1 DEF EarlierRows, EarlierProjects
  <2>2. CASE OwnedProjects = [p \in {DefaultProject} |-> NoReference]
    BY <2>2 DEF EarlierReferences
  <2>3. QED
    BY <2>1, <2>2 DEF OwnedProjects
<1>2. PICK p \in DOMAIN OwnedProjects : TRUE
  BY <1>1 DEF EmptyTable
<1>3. /\ InOrder \in Seq(ProjectSet \cup {DefaultProject})
      /\ \E i \in DOMAIN InOrder : InOrder[i] = p
  BY <1>1, ProjectsInOrder
<1>4. Fallback \in DOMAIN OwnedProjects
  BY <1>2, <1>3, FirstIsOne DEF Fallback
<1>5. \A t : OwnerOfTarget(t) \in DOMAIN OwnedProjects
  BY <1>4 DEF OwnerOfTarget
<1>6. \A j : OwnerOfPipeline(j) \in DOMAIN OwnedProjects
  BY <1>4, <1>5 DEF OwnerOfPipeline
<1>7. QED
  BY <1>1, <1>4, <1>5, <1>6

(* So is whoever has a credential.                                           *)
LEMMA CredentialsHaveOwners ==
  ASSUME EarlierRows, OwnedProjects # EmptyTable, NEW c
  PROVE  Owner(c) \in DOMAIN OwnedProjects
<1> DEFINE ps == {p \in DOMAIN OwnedProjects : OwnedProjects[p] = c}
           ts == {t \in DOMAIN targetRows : targetRows[t].ssh = c}
           js == {j \in DOMAIN pipelines : pipelines[j].credential = c}
<1>1. /\ Fallback \in DOMAIN OwnedProjects
      /\ \A t : OwnerOfTarget(t) \in DOMAIN OwnedProjects
      /\ \A j : OwnerOfPipeline(j) \in DOMAIN OwnedProjects
  BY OwnersAreProjects
<1>2. ps # {} => FirstOf(InOrder, ps) \in ps
  <2> SUFFICES ASSUME NEW p \in ps PROVE FirstOf(InOrder, ps) \in ps
    OBVIOUS
  <2>1. p \in ProjectSet \cup {DefaultProject}
    BY OwnersAreProjects
  <2>2. /\ InOrder \in Seq(ProjectSet \cup {DefaultProject})
        /\ \E i \in DOMAIN InOrder : InOrder[i] = p
    BY <2>1, ProjectsInOrder
  <2> HIDE DEF ps
  <2>3. QED
    BY <2>2, FirstIsOne
<1>3. Owner(c) = IF ps # {} THEN FirstOf(InOrder, ps)
                 ELSE IF ts # {} THEN OwnerOfTarget(FirstOf(TargetOrder, ts))
                 ELSE IF js # {} THEN OwnerOfPipeline(FirstOf(PipelineOrder, js))
                 ELSE Fallback
  BY DEF Owner
<1>4. ps \subseteq DOMAIN OwnedProjects
  OBVIOUS
<1> HIDE DEF ps, ts, js
<1>5. QED
  BY <1>1, <1>2, <1>3, <1>4

(* A clone is not a credential there was, nor one that is referred to, and it*)
(* belongs to the project it was made for.                                   *)
LEMMA ClonesAreNew ==
  ASSUME EarlierRows, OwnedProjects # EmptyTable
  PROVE  /\ \A c \in DOMAIN credentials : \A p : Clone(c, p) = <<c[1], p>>
         /\ \A x \in ClonedCredentials : x[2] \in DOMAIN OwnedProjects /\ Len(x) = 2
         /\ ClonedCredentials \cap EarlierReferences = {}
         /\ ClonedCredentials \cap DOMAIN credentials = {}
<1>1. \A c, p : Clone(c, p) = <<c[1], p>>
  BY DEF Clone
<1>2. DOMAIN credentials \subseteq LegacyCredentials
  BY DEF EarlierRows
<1>3. ASSUME NEW x \in ClonedCredentials
      PROVE  x[2] \in DOMAIN OwnedProjects /\ Len(x) = 2
  <2>1. PICK r \in Claims : r[1] \in DOMAIN credentials /\ x = Clone(r[1], r[2])
    BY DEF ClonedCredentials
  <2>2. r[2] \in DOMAIN OwnedProjects
    BY OwnersAreProjects DEF Claims
  <2>3. x = <<r[1][1], r[2]>>
    BY <2>1, <1>1, <1>2
  <2>4. QED
    BY <2>2, <2>3
<1>4. \A r \in EarlierReferences : Len(r) # 2
  <2>1. \A c \in LegacyCredentials : Len(c) = 1
    <3> SUFFICES ASSUME NEW c \in LegacyCredentials PROVE Len(c) = 1
      OBVIOUS
    <3>1. c = <<c[1]>>
      BY CredentialsAreNames
    <3> DEFINE x == c[1]
    <3>2. Len(<<x>>) = 1
      OBVIOUS
    <3>3. QED
      BY <3>1, <3>2
  <2>2. Len(NoReference) = 0 /\ Len(<<"provider">>) = 1
    BY DEF NoReference
  <2>3. QED
    BY <2>1, <2>2 DEF EarlierReferences
<1>5. QED
  BY <1>1, <1>2, <1>3, <1>4 DEF EarlierReferences

(* What a row has for its reference from now on is its project's.            *)
LEMMA HeldIsOwned ==
  ASSUME EarlierRows, OwnedProjects # EmptyTable, GiveRows,
         NEW p \in DOMAIN OwnedProjects, NEW r \in EarlierReferences, <<r, p>> \in Claims
  PROVE  Held(r, p) \in DOMAIN credentials' => credentials'[Held(r, p)].owner = p
<1>1. /\ DOMAIN credentials' = DOMAIN credentials \cup ClonedCredentials
      /\ \A c \in DOMAIN credentials : credentials'[c].owner = Owner(c)
      /\ \A c \in ClonedCredentials \ DOMAIN credentials : credentials'[c].owner = c[2]
  BY DEF GiveRows, EarlierRows
<1>2. ASSUME NEW h, h = Held(r, p), h \in DOMAIN credentials'
      PROVE  credentials'[h].owner = p
  <2>1. CASE r \in DOMAIN credentials /\ Owner(r) # p
    <3>1. h = Clone(r, p) /\ h = <<r[1], p>>
      BY <1>2, <2>1, ClonesAreNew DEF Held
    <3>2. h \in ClonedCredentials
      <4> DEFINE x == <<r, p>>
      <4>1. x \in Claims /\ x[1] = r /\ x[2] = p
        OBVIOUS
      <4> HIDE DEF x
      <4>2. h = Clone(x[1], x[2]) /\ x[1] \in DOMAIN credentials /\ Owner(x[1]) # x[2]
        BY <2>1, <3>1, <4>1
      <4>3. QED
        BY <4>1, <4>2 DEF ClonedCredentials
    <3>3. h \notin DOMAIN credentials
      BY <3>2, ClonesAreNew
    <3>4. h[2] = p
      BY <3>1
    <3>5. QED
      BY <1>1, <3>2, <3>3, <3>4
  <2>2. CASE r \in DOMAIN credentials /\ Owner(r) = p
    BY <1>1, <1>2, <2>2 DEF Held
  <2>3. CASE r \notin DOMAIN credentials
    <3>1. h = r
      BY <1>2, <2>3 DEF Held
    <3>2. QED
      BY <1>1, <1>2, <2>3, <3>1, ClonesAreNew
  <2>4. QED
    BY <2>1, <2>2, <2>3
<1>3. QED
  BY <1>2

(* The transaction gives every row its project.                              *)
LEMMA GiveRowsIsolates ==
  ASSUME EarlierRows, OwnedProjects # EmptyTable, GiveRows
  PROVE  RowsIsolated'
<1>1. /\ DOMAIN projects' = DOMAIN OwnedProjects
      /\ \A p \in DOMAIN OwnedProjects : projects'[p] = Held(OwnedProjects[p], p)
  BY DEF GiveRows
<1>2. /\ DOMAIN targetRows' = DOMAIN targetRows
      /\ \A t \in DOMAIN targetRows :
           /\ targetRows[t].ssh \in EarlierReferences
           /\ targetRows'[t].owner = OwnerOfTarget(t)
           /\ targetRows'[t].ssh = Held(targetRows[t].ssh, OwnerOfTarget(t))
  <2>1. targetRows' = [t \in DOMAIN targetRows |->
          [targetRows[t] EXCEPT !.owner = OwnerOfTarget(t), !.ssh = Held(@, OwnerOfTarget(t))]]
    BY DEF GiveRows
  <2>2. \A t \in DOMAIN targetRows :
          targetRows[t] \in [managed : OrNull(ProjectSet), ssh : EarlierReferences, owner : {Null}]
    BY DEF EarlierRows
  <2>3. QED
    BY <2>1, <2>2
<1>3. /\ DOMAIN pipelines' = DOMAIN pipelines
      /\ \A j \in DOMAIN pipelines :
           /\ pipelines[j].credential \in EarlierReferences
           /\ pipelines'[j].owner = OwnerOfPipeline(j)
           /\ pipelines'[j].target = pipelines[j].target
           /\ pipelines'[j].credential = Held(pipelines[j].credential, OwnerOfPipeline(j))
  <2>1. pipelines' = [j \in DOMAIN pipelines |->
          [pipelines[j] EXCEPT !.owner = OwnerOfPipeline(j),
                               !.credential = Held(@, OwnerOfPipeline(j))]]
    BY DEF GiveRows
  <2>2. \A j \in DOMAIN pipelines :
          pipelines[j] \in
            [target : OrNull(TargetSet), credential : EarlierReferences, owner : {Null}]
    BY DEF EarlierRows
  <2>3. QED
    BY <2>1, <2>2
<1>4. \A c \in DOMAIN credentials' : credentials'[c].owner \in DOMAIN projects'
  <2>1. /\ DOMAIN credentials' = DOMAIN credentials \cup ClonedCredentials
        /\ \A c \in DOMAIN credentials : credentials'[c].owner = Owner(c)
        /\ \A c \in ClonedCredentials \ DOMAIN credentials : credentials'[c].owner = c[2]
    BY DEF GiveRows, EarlierRows
  <2>2. QED
    BY <1>1, <2>1, CredentialsHaveOwners, ClonesAreNew
<1>5. \A p \in DOMAIN projects' :
        projects'[p] \in DOMAIN credentials' => credentials'[projects'[p]].owner = p
  <2> SUFFICES ASSUME NEW p \in DOMAIN OwnedProjects
               PROVE  projects'[p] \in DOMAIN credentials' => credentials'[projects'[p]].owner = p
    BY <1>1
  <2>1. OwnedProjects[p] \in EarlierReferences /\ <<OwnedProjects[p], p>> \in Claims
    BY OwnersAreProjects DEF Claims
  <2>2. QED
    BY <1>1, <2>1, HeldIsOwned
<1>6. \A t \in DOMAIN targetRows' :
        /\ targetRows'[t].owner \in DOMAIN projects'
        /\ targetRows'[t].ssh \in DOMAIN credentials' =>
             credentials'[targetRows'[t].ssh].owner = targetRows'[t].owner
  <2> SUFFICES ASSUME NEW t \in DOMAIN targetRows
               PROVE  /\ targetRows'[t].owner \in DOMAIN projects'
                      /\ targetRows'[t].ssh \in DOMAIN credentials' =>
                           credentials'[targetRows'[t].ssh].owner = targetRows'[t].owner
    BY <1>2
  <2>1. /\ OwnerOfTarget(t) \in DOMAIN OwnedProjects
        /\ <<targetRows[t].ssh, OwnerOfTarget(t)>> \in Claims
    BY OwnersAreProjects DEF Claims
  <2>2. QED
    BY <1>1, <1>2, <2>1, HeldIsOwned
<1>7. \A j \in DOMAIN pipelines' :
        /\ pipelines'[j].credential \in DOMAIN credentials' =>
             credentials'[pipelines'[j].credential].owner = pipelines'[j].owner
        /\ pipelines'[j].target \in DOMAIN targetRows' =>
             targetRows'[pipelines'[j].target].owner = pipelines'[j].owner
  <2> SUFFICES ASSUME NEW j \in DOMAIN pipelines
               PROVE  /\ pipelines'[j].credential \in DOMAIN credentials' =>
                           credentials'[pipelines'[j].credential].owner = pipelines'[j].owner
                      /\ pipelines'[j].target \in DOMAIN targetRows' =>
                           targetRows'[pipelines'[j].target].owner = pipelines'[j].owner
    BY <1>3
  <2>1. /\ OwnerOfPipeline(j) \in DOMAIN OwnedProjects
        /\ <<pipelines[j].credential, OwnerOfPipeline(j)>> \in Claims
    BY OwnersAreProjects DEF Claims
  <2>2. pipelines'[j].credential \in DOMAIN credentials' =>
          credentials'[pipelines'[j].credential].owner = pipelines'[j].owner
    BY <1>3, <2>1, HeldIsOwned
  <2>3. pipelines'[j].target \in DOMAIN targetRows' =>
          targetRows'[pipelines'[j].target].owner = pipelines'[j].owner
    BY <1>2, <1>3 DEF OwnerOfPipeline
  <2>4. QED
    BY <2>2, <2>3
<1>8. \A s \in settings' : s.kind = "runtime-plan" => s.owner = targetRows'[s.about].owner
  <2> SUFFICES ASSUME NEW s \in settings, s.kind = "runtime-plan"
               PROVE  OwnerOfSetting(s) = targetRows'[s.about].owner
    <3>1. settings' = {[s EXCEPT !.owner = OwnerOfSetting(s)] : s \in settings}
      BY DEF GiveRows
    <3>2. \A s \in settings :
            s \in [kind : {"plan", "runtime-plan"}, about : ProjectSet \cup TargetSet,
                  owner : {Null}]
      BY DEF EarlierRows
    <3>3. QED
      BY <3>1, <3>2
  <2>1. s.about \in DOMAIN targetRows
    BY DEF EarlierRows
  <2>2. QED
    BY <1>2, <2>1 DEF OwnerOfSetting
<1>9. QED
  BY <1>4, <1>5, <1>6, <1>7, <1>8 DEF RowsIsolated, Owns

LEMMA TablesAre ==
  /\ DOMAIN Tables = 1..5 /\ Len(Tables) = 5
  /\ Tables[1] = "Project" /\ Tables[2] = "Credential" /\ Tables[3] = "VpsTarget"
  /\ Tables[4] = "JenkinsPipeline" /\ Tables[5] = "Rest"
  /\ TableSet = {"Project", "Credential", "VpsTarget", "JenkinsPipeline", "Rest"}
<1>1. /\ DOMAIN Tables = 1..5 /\ Len(Tables) = 5
      /\ Tables[1] = "Project" /\ Tables[2] = "Credential" /\ Tables[3] = "VpsTarget"
      /\ Tables[4] = "JenkinsPipeline" /\ Tables[5] = "Rest"
  BY DEF Tables
<1>2. 1..5 = {1, 2, 3, 4, 5}
  OBVIOUS
<1>3. QED
  BY <1>1, <1>2 DEF TableSet

(* A step that leaves the rows alone and gives them no owners.               *)
LEMMA RowsStay ==
  ASSUME UpgradeIInv, UNCHANGED tableVars, SchemaOK', schema'.owned = schema.owned,
         "Credential" \in schema.tables => "Credential" \in schema'.tables,
         stage' # "running"
  PROVE  /\ "Credential" \notin schema'.tables => NothingStored' /\ ~schema'.owned
         /\ IF schema'.owned THEN RowsIsolated' ELSE EarlierRows'
         /\ stage' = "running" => schema'.owned
<1>1. /\ UNCHANGED <<projects, copied, credentials>>
      /\ UNCHANGED <<targetRows, pipelines, settings>>
  BY DEF tableVars
<1>2. NothingStored => NothingStored'
  BY <1>1 DEF NothingStored
<1>3. RowsIsolated => RowsIsolated'
  BY <1>1 DEF RowsIsolated, Owns
<1>4. EarlierRows => EarlierRows'
  BY <1>1 DEF EarlierRows, EarlierProjects
<1>5. QED
  BY <1>2, <1>3, <1>4 DEF UpgradeIInv

LEMMA StartsIsolated == UpgradeInit => UpgradeIInv
<1>1. ASSUME UpgradeInit, Fresh PROVE UpgradeIInv
  <2>1. SchemaOK /\ ~schema.owned /\ stage = "down" /\ NothingStored
    BY <1>1, TablesAre DEF Fresh, UpgradeInit, SchemaOK, Null, NothingStored
  <2>2. RebuiltBefore
    BY <2>1, TablesAre DEF RebuiltBefore
  <2>3. EarlierRows
    BY <2>1 DEF NothingStored, EarlierRows, EarlierProjects, EmptyTable
  <2>4. QED
    BY <2>1, <2>2, <2>3 DEF UpgradeIInv
<1>2. ASSUME UpgradeInit, Legacy PROVE UpgradeIInv
  <2>1. SchemaOK /\ ~schema.owned /\ stage = "down" /\ "Credential" \in schema.tables
    BY <1>2, TablesAre DEF Legacy, UpgradeInit, SchemaOK, Null
  <2>2. RebuiltBefore
    BY <2>1, TablesAre DEF RebuiltBefore
  <2>3. EarlierProjects(projects) /\ EarlierProjects(copied)
    BY <1>2 DEF Legacy, UpgradeInit, EarlierProjects, EarlierReferences, EmptyTable
  <2>4. /\ DOMAIN credentials \subseteq LegacyCredentials
        /\ credentials \in [DOMAIN credentials -> [owner : {Null}, secret : LegacyCredentials]]
    BY <1>2 DEF Legacy
  <2>5. /\ DOMAIN targetRows \subseteq TargetSet
        /\ targetRows \in [DOMAIN targetRows ->
                       [managed : OrNull(ProjectSet), ssh : EarlierReferences, owner : {Null}]]
    <3>1. \/ targetRows = EmptyTable
          \/ \E columns \in {0, 2} :
               targetRows \in
                 [TargetSet -> [managed : IF columns = 0 THEN {Null} ELSE OrNull(ProjectSet),
                                ssh : LegacyCredentials \cup {NoReference}, owner : {Null}]]
      BY <1>2 DEF Legacy
    <3>2. CASE targetRows = EmptyTable
      BY <3>2 DEF EmptyTable
    <3>3. ASSUME NEW S, S \subseteq OrNull(ProjectSet),
                 targetRows \in
                   [TargetSet -> [managed : S, ssh : LegacyCredentials \cup {NoReference},
                                  owner : {Null}]]
          PROVE  /\ DOMAIN targetRows \subseteq TargetSet
                 /\ targetRows \in [DOMAIN targetRows ->
                       [managed : OrNull(ProjectSet), ssh : EarlierReferences, owner : {Null}]]
      BY <3>3 DEF EarlierReferences
    <3>4. {Null} \subseteq OrNull(ProjectSet)
      BY DEF OrNull
    <3>5. QED
      BY <3>1, <3>2, <3>3, <3>4
  <2>6. /\ DOMAIN pipelines \subseteq PipelineSet
        /\ pipelines \in [DOMAIN pipelines ->
                      [target : OrNull(TargetSet), credential : EarlierReferences, owner : {Null}]]
    BY <1>2 DEF Legacy, EarlierReferences, EmptyTable
  <2>7. /\ settings \subseteq [kind : {"plan", "runtime-plan"}, about : ProjectSet \cup TargetSet,
                               owner : {Null}]
        /\ \A s \in settings : s.kind = "runtime-plan" => s.about \in DOMAIN targetRows
    BY <1>2, <2>5 DEF Legacy
  <2>8. EarlierRows
    BY <2>3, <2>4, <2>5, <2>6, <2>7 DEF EarlierRows
  <2>9. QED
    BY <2>1, <2>2, <2>8 DEF UpgradeIInv
<1>3. QED
  BY <1>1, <1>2 DEF UpgradeInit

LEMMA TablesAreMade ==
  ASSUME UpgradeIInv, NEW i \in DOMAIN Tables, CreateTable(i)
  PROVE  UpgradeIInv'
<1>1. CASE Tables[i] \in schema.tables
  <2>1. UNCHANGED <<schema, tableVars>> /\ stage' = "refused"
    BY <1>1 DEF CreateTable, Reach
  <2>2. SchemaOK' /\ RebuiltBefore'
    BY <2>1, TablesAre DEF UpgradeIInv, SchemaOK, RebuiltBefore
  <2>3. QED
    BY <2>1, <2>2, RowsStay DEF UpgradeIInv
<1>2. CASE Tables[i] \notin schema.tables
  <2>1. /\ schema' = [schema EXCEPT
             !.tables = @ \cup {Tables[i]},
             !.providerKey = IF Tables[i] = "Project" THEN "Credential" ELSE @,
             !.owned = @ \/ Tables[i] = "Credential",
             !.managedColumns = IF Tables[i] = "VpsTarget" THEN 2 ELSE @]
        /\ stage = Tables[i]
        /\ stage' = IF i = Len(Tables) THEN "jenkins" ELSE Tables[i + 1]
        /\ UNCHANGED tableVars
    BY <1>2 DEF CreateTable, Reach
  <2>2. Tables[i] \in TableSet /\ schema.tables \subseteq TableSet
    BY DEF TableSet, UpgradeIInv, SchemaOK
  <2>3. /\ schema'.tables = schema.tables \cup {Tables[i]}
        /\ schema'.providerKey = IF Tables[i] = "Project" THEN "Credential" ELSE schema.providerKey
        /\ schema'.owned = (schema.owned \/ Tables[i] = "Credential")
    BY <2>1 DEF UpgradeIInv, SchemaOK
  <2>4. SchemaOK'
    <3>1. schema'.managedColumns \in Nat /\ schema'.copy = schema.copy
      BY <2>1 DEF UpgradeIInv, SchemaOK
    <3>2. schema'.owned \in BOOLEAN
      BY <2>3
    <3>3. DOMAIN schema' = DOMAIN schema
      BY <2>1
    <3>4. QED
      BY <2>1, <2>2, <2>3, <3>1, <3>2 DEF UpgradeIInv, SchemaOK
  <2>5. stage' \in {"Credential", "VpsTarget", "JenkinsPipeline", "Rest", "jenkins"}
    BY <2>1, TablesAre
  <2>6. schema'.providerKey # "Provider"
    <3>1. CASE Tables[i] = "Project"
      BY <2>3, <3>1
    <3>2. CASE Tables[i] # "Project"
      <4>1. stage \in TableSet /\ stage # "Project"
        BY <2>1, <2>2, <3>2
      <4>2. schema.providerKey # "Provider"
        BY <4>1 DEF UpgradeIInv, RebuiltBefore
      <4>3. QED
        BY <2>3, <3>2, <4>2
    <3>3. QED
      BY <3>1, <3>2
  <2>7. RebuiltBefore'
    BY <2>5, <2>6 DEF RebuiltBefore
  <2>8. CASE Tables[i] = "Credential"
    <3>1. NothingStored
      BY <1>2, <2>8 DEF UpgradeIInv
    <3>2. NothingStored'
      BY <2>1, <3>1 DEF NothingStored, tableVars
    <3>3. RowsIsolated'
      BY <3>2 DEF NothingStored, RowsIsolated, EmptyTable
    <3>4. schema'.owned /\ "Credential" \in schema'.tables
      BY <2>3, <2>8
    <3>5. QED
      BY <2>4, <2>7, <3>3, <3>4 DEF UpgradeIInv
  <2>9. CASE Tables[i] # "Credential"
    <3>1. schema'.owned = schema.owned
      BY <2>3, <2>9 DEF UpgradeIInv, SchemaOK
    <3>2. QED
      BY <2>1, <2>3, <2>4, <2>5, <2>7, <3>1, RowsStay DEF UpgradeIInv
  <2>10. QED
    BY <2>8, <2>9
<1>3. QED
  BY <1>1, <1>2

(* The steps that change what tables there are, or nothing.                  *)
LEMMA OthersKeepRows ==
  ASSUME UpgradeIInv,
         \/ Start \/ Stop \/ EnsureSchema \/ AddJenkinsTable \/ AddTargetTable
         \/ AddManagedColumn \/ CheckForeignKey \/ MakeCopy
  PROVE  UpgradeIInv'
<1>1. SchemaOK
  BY DEF UpgradeIInv
<1>2. CASE Start \/ Stop \/ EnsureSchema
  <2>1. UNCHANGED <<schema, tableVars>> /\ stage' \in {"ensure", "down", "jenkins", "Project"}
    BY <1>2 DEF Start, Stop, EnsureSchema, Reach
  <2>2. SchemaOK' /\ RebuiltBefore'
    BY <2>1, TablesAre DEF UpgradeIInv, SchemaOK, RebuiltBefore
  <2>3. QED
    BY <2>1, <2>2, RowsStay DEF UpgradeIInv
<1>3. CASE AddJenkinsTable
  <2>1. /\ UNCHANGED tableVars /\ stage' \in {"columns", "targets"}
        /\ schema' = [schema EXCEPT !.tables = @ \cup {"JenkinsPipeline"}]
    BY <1>3 DEF AddJenkinsTable, Reach
  <2>2. /\ SchemaOK' /\ schema'.owned = schema.owned /\ schema'.providerKey = schema.providerKey
        /\ "Credential" \in schema.tables => "Credential" \in schema'.tables
    BY <1>1, <2>1, TablesAre DEF SchemaOK
  <2>3. RebuiltBefore'
    BY <2>1, <2>2, TablesAre DEF UpgradeIInv, RebuiltBefore
  <2>4. QED
    BY <2>1, <2>2, <2>3, RowsStay DEF UpgradeIInv
<1>4. CASE AddTargetTable
  <2>1. /\ UNCHANGED tableVars /\ stage' = "foreign key"
        /\ schema' = [schema EXCEPT !.tables = @ \cup {"VpsTarget"}, !.managedColumns = 2]
    BY <1>4 DEF AddTargetTable, Reach
  <2>2. /\ SchemaOK' /\ schema'.owned = schema.owned /\ schema'.providerKey = schema.providerKey
        /\ "Credential" \in schema.tables => "Credential" \in schema'.tables
    BY <1>1, <2>1, TablesAre DEF SchemaOK
  <2>3. RebuiltBefore'
    BY <2>1, <2>2, TablesAre DEF UpgradeIInv, RebuiltBefore
  <2>4. QED
    BY <2>1, <2>2, <2>3, RowsStay DEF UpgradeIInv
<1>5. CASE AddManagedColumn
  <2>1. /\ UNCHANGED tableVars /\ stage' \in {"foreign key", "second column"}
        /\ schema' = schema \/ schema' = [schema EXCEPT !.managedColumns = @ + 1]
    BY <1>5 DEF AddManagedColumn, Reach
  <2>2. /\ SchemaOK' /\ schema'.owned = schema.owned /\ schema'.providerKey = schema.providerKey
        /\ "Credential" \in schema.tables => "Credential" \in schema'.tables
    <3>1. CASE schema' = schema
      BY <1>1, <3>1 DEF SchemaOK
    <3>2. CASE schema' = [schema EXCEPT !.managedColumns = @ + 1]
      <4>1. schema.managedColumns + 1 \in Nat
        BY <1>1 DEF SchemaOK
      <4>2. QED
        BY <1>1, <3>2, <4>1 DEF SchemaOK
    <3>3. QED
      BY <2>1, <3>1, <3>2
  <2>3. RebuiltBefore'
    BY <2>1, <2>2, TablesAre DEF UpgradeIInv, RebuiltBefore
  <2>4. QED
    BY <2>1, <2>2, <2>3, RowsStay DEF UpgradeIInv
<1>6. CASE CheckForeignKey
  <2>1. /\ UNCHANGED <<schema, tableVars>>
        /\ stage' = IF schema.providerKey = "Provider" THEN "make copy" ELSE "own"
    BY <1>6 DEF CheckForeignKey, Reach
  <2>2. SchemaOK' /\ RebuiltBefore'
    BY <2>1, TablesAre DEF UpgradeIInv, SchemaOK, RebuiltBefore
  <2>3. QED
    BY <2>1, <2>2, RowsStay DEF UpgradeIInv
<1>7. CASE MakeCopy
  <2>1. /\ UNCHANGED tableVars /\ stage = "make copy" /\ stage' \in {"refused", "fill copy"}
        /\ schema' = schema \/ schema' = [schema EXCEPT !.copy = TRUE]
    BY <1>7 DEF MakeCopy, Reach
  <2>2. /\ SchemaOK' /\ schema'.owned = schema.owned /\ schema'.providerKey = schema.providerKey
        /\ "Credential" \in schema.tables => "Credential" \in schema'.tables
    BY <1>1, <2>1 DEF SchemaOK
  <2>3. RebuiltBefore'
    BY <2>1, <2>2, TablesAre DEF UpgradeIInv, RebuiltBefore
  <2>4. QED
    BY <2>1, <2>2, <2>3, RowsStay DEF UpgradeIInv
<1>8. QED
  BY <1>2, <1>3, <1>4, <1>5, <1>6, <1>7

(* The table of projects is rebuilt while no row has an owner.               *)
LEMMA RebuildKeepsRows ==
  ASSUME UpgradeIInv, FillCopy \/ DropProject \/ RenameCopy
  PROVE  UpgradeIInv'
<1>1. SchemaOK /\ ~schema.owned /\ EarlierRows
  BY DEF UpgradeIInv, RebuiltBefore, FillCopy, DropProject, RenameCopy
<1>2. UNCHANGED <<credentials, targetRows, pipelines, settings>>
  BY DEF FillCopy, DropProject, RenameCopy
<1>3. /\ SchemaOK' /\ ~schema'.owned /\ stage' \in {"drop", "rename", "own"}
      /\ stage' = "own" => schema'.providerKey # "Provider"
      /\ "Credential" \in schema'.tables <=> "Credential" \in schema.tables
  <2>1. CASE FillCopy
    BY <1>1, <2>1 DEF FillCopy, Reach, SchemaOK
  <2>2. CASE DropProject
    BY <1>1, <2>2 DEF DropProject, Reach, SchemaOK
  <2>3. CASE RenameCopy
    BY <1>1, <2>3, TablesAre DEF RenameCopy, Reach, SchemaOK
  <2>4. QED
    BY <2>1, <2>2, <2>3
<1>4. RebuiltBefore'
  BY <1>3, TablesAre DEF RebuiltBefore
<1>5. EarlierProjects(projects)' /\ EarlierProjects(copied)'
  <2>1. CASE FillCopy
    BY <1>1, <2>1 DEF FillCopy, EarlierRows, EarlierProjects, EarlierReferences
  <2>2. CASE DropProject
    BY <1>1, <2>2 DEF DropProject, EarlierRows, EarlierProjects, EmptyTable
  <2>3. CASE RenameCopy
    BY <1>1, <2>3 DEF RenameCopy, EarlierRows, EarlierProjects, EmptyTable
  <2>4. QED
    BY <2>1, <2>2, <2>3
<1>6. EarlierRows'
  BY <1>1, <1>2, <1>5 DEF EarlierRows
<1>7. NothingStored => NothingStored'
  <2>1. NothingStored => projects' = EmptyTable /\ copied' = EmptyTable
    BY DEF NothingStored, FillCopy, DropProject, RenameCopy, EmptyTable
  <2>2. QED
    BY <1>2, <2>1 DEF NothingStored
<1>8. QED
  BY <1>3, <1>4, <1>6, <1>7 DEF UpgradeIInv

(* The transaction runs once, on the rows that earlier releases left.        *)
LEMMA OwnershipIsGiven ==
  ASSUME UpgradeIInv, MigrateOwnership
  PROVE  UpgradeIInv'
<1>1. SchemaOK /\ stage = "own" /\ schema.providerKey # "Provider" /\ UNCHANGED copied
  BY DEF UpgradeIInv, RebuiltBefore, MigrateOwnership
<1>2. CASE ~(TableSet \subseteq schema.tables)
  <2>1. UNCHANGED <<schema, tableVars>> /\ stage' = "refused"
    BY <1>2 DEF MigrateOwnership, Reach, tableVars
  <2>2. SchemaOK' /\ RebuiltBefore'
    BY <2>1, TablesAre DEF UpgradeIInv, SchemaOK, RebuiltBefore
  <2>3. QED
    BY <2>1, <2>2, RowsStay DEF UpgradeIInv
<1>3. CASE TableSet \subseteq schema.tables
  <2>1. /\ stage' = "running" /\ schema' = [schema EXCEPT !.owned = TRUE]
        /\ IF schema.owned \/ OwnedProjects = EmptyTable
           THEN UNCHANGED <<projects, credentials, targetRows, pipelines, settings>>
           ELSE GiveRows
    BY <1>3 DEF MigrateOwnership, Reach
  <2>2. /\ SchemaOK' /\ schema'.owned /\ schema'.providerKey # "Provider"
        /\ "Credential" \in schema'.tables
    BY <1>1, <1>3, <2>1, TablesAre DEF SchemaOK
  <2>3. RebuiltBefore'
    BY <2>1, <2>2, TablesAre DEF RebuiltBefore
  <2>4. RowsIsolated'
    <3>1. CASE schema.owned
      <4>1. RowsIsolated /\ UNCHANGED <<projects, credentials, targetRows, pipelines, settings>>
        BY <2>1, <3>1 DEF UpgradeIInv
      <4>2. QED
        BY <4>1 DEF RowsIsolated, Owns
    <3>2. CASE ~schema.owned /\ OwnedProjects = EmptyTable
      <4>1. projects = EmptyTable /\ credentials = EmptyTable /\ targetRows = EmptyTable
            /\ pipelines = EmptyTable /\ settings = {}
        BY <3>2 DEF OwnedProjects, EmptyTable
      <4>2. UNCHANGED <<projects, credentials, targetRows, pipelines, settings>>
        BY <2>1, <3>2
      <4>3. QED
        BY <4>1, <4>2 DEF RowsIsolated, EmptyTable
    <3>3. CASE ~schema.owned /\ OwnedProjects # EmptyTable
      <4>1. EarlierRows /\ GiveRows
        BY <2>1, <3>3 DEF UpgradeIInv
      <4>2. QED
        BY <3>3, <4>1, GiveRowsIsolates
    <3>4. QED
      BY <3>1, <3>2, <3>3
  <2>5. QED
    BY <2>2, <2>3, <2>4 DEF UpgradeIInv
<1>4. QED
  BY <1>2, <1>3

LEMMA UpgradeKeeps == UpgradeIInv /\ [UpgradeNext]_upgradeVars => UpgradeIInv'
<1> SUFFICES ASSUME UpgradeIInv, [UpgradeNext]_upgradeVars PROVE UpgradeIInv'
  OBVIOUS
<1>1. ASSUME NEW i \in DOMAIN Tables, CreateTable(i) PROVE UpgradeIInv'
  BY <1>1, TablesAreMade
<1>2. CASE \/ Start \/ Stop \/ EnsureSchema \/ AddJenkinsTable \/ AddTargetTable
           \/ AddManagedColumn \/ CheckForeignKey \/ MakeCopy
  BY <1>2, OthersKeepRows
<1>3. CASE FillCopy \/ DropProject \/ RenameCopy
  BY <1>3, RebuildKeepsRows
<1>4. CASE MigrateOwnership
  BY <1>4, OwnershipIsGiven
<1>5. CASE UNCHANGED upgradeVars
  <2>1. /\ UNCHANGED <<schema, stage>> /\ UNCHANGED <<projects, copied, credentials>>
        /\ UNCHANGED <<targetRows, pipelines, settings>>
    BY <1>5 DEF upgradeVars, tableVars
  <2>2. SchemaOK' /\ RebuiltBefore'
    BY <2>1 DEF UpgradeIInv, SchemaOK, RebuiltBefore
  <2>3. (NothingStored => NothingStored') /\ (RowsIsolated => RowsIsolated')
    BY <2>1 DEF NothingStored, RowsIsolated, Owns
  <2>4. EarlierRows => EarlierRows'
    BY <2>1 DEF EarlierRows, EarlierProjects
  <2>5. QED
    BY <2>1, <2>2, <2>3, <2>4 DEF UpgradeIInv
<1>6. QED
  BY <1>1, <1>2, <1>3, <1>4, <1>5 DEF UpgradeNext

(* Wherever earlier starts were interrupted, whatever projects, credentials, *)
(* targets and pipelines there are and in whatever order they are listed:    *)
(* once the application runs, migrateProjectOwnership() has given every row  *)
(* an owner, no project refers to a credential of another, and a pipeline or *)
(* a runtime plan is with the project of the target it is about.             *)
THEOREM UpgradesIsolate == UpgradeSpec => []UpgradeIsolates
<1>1. UpgradeIInv => UpgradeIsolates
  BY DEF UpgradeIInv, UpgradeIsolates
<1>2. QED
  BY <1>1, StartsIsolated, UpgradeKeeps, PTL DEF UpgradeSpec
==============================================================================
