-------------------------- MODULE ProjectBackup --------------------------
(***************************************************************************)
(* Backup, restore and import of one project (backup.handlers.ts,          *)
(* container.ts, project-snapshot.ts).  A project is in two stores: the    *)
(* database, whose rows are replaced in one transaction, and the           *)
(* checkpoint file of its stack.  Secrets are encrypted with a key of the  *)
(* computer, so a backup carries them a second time, under a passphrase,   *)
(* and they are wrapped again where it is restored.                        *)
(*                                                                         *)
(* The folder is the last backup made.  It can be carried to another       *)
(* computer.  The log that is copied along, the passkey, which a restore   *)
(* keeps, and the question of the folder and passphrase are left out.      *)
(***************************************************************************)
EXTENDS Naturals

CONSTANTS Credentials,
          MaxEdits,       \* bound on the changes of the project
          MaxCallFaults   \* bound on the failures within one call

Keys == {"absent", "here", "elsewhere"}  \* whose key a credential is encrypted with
NoRows == [version |-> 0, key |-> [id \in Credentials |-> "absent"]]
NoCheckpoint == 0
NoFolder == [made |-> FALSE, rows |-> NoRows, secrets |-> {}, checkpoint |-> NoCheckpoint,
             sound |-> FALSE]
NoCall == [op |-> "none", stage |-> "idle", faults |-> 0, answer |-> "none", undisturbed |-> TRUE,
           draft |-> NoFolder, rowsBefore |-> NoRows, checkpointBefore |-> NoCheckpoint]

VARIABLES database,    \* the project in the database; version 0 is no project
          checkpoint,  \* its checkpoint file
          folder, call, edits

backupVars == <<database, checkpoint, folder, call, edits>>

CallAt(op, stage) == call.op = op /\ call.stage = stage
CallGoes(stage) == call' = [call EXCEPT !.stage = stage]
CallAnswers(answer) == call' = [call EXCEPT !.stage = "idle", !.answer = answer]
CallFails(stage) ==
  /\ call.faults < MaxCallFaults
  /\ call' = [call EXCEPT !.stage = stage, !.faults = @ + 1,
                          !.answer = IF stage = "idle" THEN "failed" ELSE @]
Present(r) == {id \in Credentials : r.key[id] # "absent"}
ReadableHere(r, ids) == \A id \in ids : r.key[id] = "here"
\* rewrapProjectSecrets(): what the envelope holds is encrypted again.
Wrapped(r, ids) ==
  [r EXCEPT !.key = [id \in Credentials |-> IF id \in ids THEN "here" ELSE @[id]]]

StartCall(op) ==
  /\ call.stage = "idle"
  /\ call' = [NoCall EXCEPT !.op = op, !.stage = "start", !.rowsBefore = database,
                            !.checkpointBefore = checkpoint]
  /\ UNCHANGED <<database, checkpoint, folder, edits>>

------------------------------------------------------------------------------
(* The rest of the application, which works on while a call is under way.    *)

Edit ==
  /\ database.version > 0 /\ edits < MaxEdits
  /\ edits' = edits + 1
  /\ call' = [call EXCEPT !.undisturbed = FALSE]
  /\ UNCHANGED folder

SaveCredential(id) ==
  /\ Edit
  /\ database' = [database EXCEPT !.version = edits + 2, !.key[id] = "here"]
  /\ UNCHANGED checkpoint

RemoveCredential(id) ==
  /\ Edit
  /\ id \in Present(database)
  /\ database' = [database EXCEPT !.version = edits + 2, !.key[id] = "absent"]
  /\ UNCHANGED checkpoint

RunEngine ==
  /\ Edit
  /\ checkpoint' = edits + 1
  /\ UNCHANGED database

\* The project is deleted with all it has, or the folder is taken to a computer that
\* does not have it and whose key is another.
LeaveProject(elsewhere) ==
  /\ call.stage = "idle" /\ database.version > 0 /\ folder.made
  /\ database' = NoRows /\ checkpoint' = NoCheckpoint
  /\ folder' = IF elsewhere
               THEN [folder EXCEPT !.rows.key = [id \in Credentials |->
                       IF @[id] = "absent" THEN "absent" ELSE "elsewhere"]]
               ELSE folder
  /\ call' = NoCall
  /\ UNCHANGED edits

\* The application ends; what is in the stores stays.
CrashDuringCall ==
  /\ call.stage # "idle"
  /\ call' = NoCall
  /\ UNCHANGED <<database, checkpoint, folder, edits>>

------------------------------------------------------------------------------
(* backup:create.  A failure removes the folder it is writing.               *)

StartCreate == database.version > 0 /\ StartCall("create")

ExportSecrets ==
  /\ CallAt("create", "start")
  /\ IF ReadableHere(database, Present(database))
     THEN \/ call' = [call EXCEPT !.draft.secrets = Present(database), !.stage = "snapshot"]
          \/ CallFails("idle")
     ELSE CallAnswers("failed")
  /\ UNCHANGED <<database, checkpoint, folder, edits>>

SnapshotRows ==
  /\ CallAt("create", "snapshot")
  /\ \/ call' = [call EXCEPT !.draft.rows = database, !.stage = "checkpoint"]
     \/ CallFails("idle")
  /\ UNCHANGED <<database, checkpoint, folder, edits>>

CopyCheckpoint ==
  /\ CallAt("create", "checkpoint")
  /\ \/ call' = [call EXCEPT !.draft.checkpoint = checkpoint, !.stage = "write"]
     \/ CallFails("idle")
  /\ UNCHANGED <<database, checkpoint, folder, edits>>

\* The envelope and last of all the manifest, without which it is no backup.
WriteManifest ==
  /\ CallAt("create", "write")
  /\ \/ /\ folder' = [call.draft EXCEPT !.made = TRUE, !.sound = call.undisturbed]
        /\ CallAnswers("done")
     \/ CallFails("idle") /\ UNCHANGED folder
  /\ UNCHANGED <<database, checkpoint, edits>>

------------------------------------------------------------------------------
(* backup:restore.                                                           *)

StartRestore == folder.made /\ database.version > 0 /\ StartCall("restore")

\* The safety copy, with the ciphertexts as they are.
CopyForSafety ==
  /\ CallAt("restore", "start")
  /\ \/ call' = [call EXCEPT !.draft.rows = database, !.stage = "safety"]
     \/ CallFails("idle")
  /\ UNCHANGED <<database, checkpoint, folder, edits>>

CopyCheckpointForSafety ==
  /\ CallAt("restore", "safety")
  /\ \/ call' = [call EXCEPT !.draft.checkpoint = checkpoint, !.stage = "rows"]
     \/ CallFails("idle")
  /\ UNCHANGED <<database, checkpoint, folder, edits>>

\* restoreProjectSnapshot() replaces every row, but for the passkey, at once.
RestoreRows ==
  /\ CallAt("restore", "rows")
  /\ \/ database' = folder.rows /\ CallGoes("rewrap")
     \/ UNCHANGED database /\ CallFails("undo rows")
  /\ UNCHANGED <<checkpoint, folder, edits>>

\* Every secret of the envelope needs its row, and not the other way round.
RewrapSecrets ==
  /\ CallAt("restore", "rewrap")
  /\ IF folder.secrets \subseteq Present(database)
     THEN \/ database' = Wrapped(database, folder.secrets) /\ CallGoes("remove checkpoint")
          \/ UNCHANGED database /\ CallFails("undo rows")
     ELSE UNCHANGED database /\ CallGoes("undo rows")
  /\ UNCHANGED <<checkpoint, folder, edits>>

\* restoreProjectPulumiState() removes the file, and then copies the other.
RemoveCheckpoint(op, failed) ==
  /\ CallAt(op, "remove checkpoint")
  /\ \/ checkpoint' = NoCheckpoint /\ CallGoes("copy checkpoint")
     \/ UNCHANGED checkpoint /\ CallFails(failed)
  /\ UNCHANGED <<database, folder, edits>>

RestoreCheckpoint(op, failed) ==
  /\ CallAt(op, "copy checkpoint")
  /\ \/ checkpoint' = folder.checkpoint /\ CallAnswers("done")
     \/ UNCHANGED checkpoint /\ CallFails(failed)
  /\ UNCHANGED <<database, folder, edits>>

\* Variant: the database is put back, the checkpoint is not.
UndoRowsOnly ==
  /\ CallAt("restore", "undo rows")
  /\ \/ database' = call.draft.rows /\ CallAnswers("failed")
     \/ UNCHANGED database /\ CallFails("idle")
  /\ UNCHANGED <<checkpoint, folder, edits>>

\* A failure on the way back ends the call where it is.
UndoRows ==
  /\ CallAt("restore", "undo rows")
  /\ \/ database' = call.draft.rows /\ CallGoes("undo removal")
     \/ UNCHANGED database /\ CallFails("idle")
  /\ UNCHANGED <<checkpoint, folder, edits>>

UndoRemoval ==
  /\ CallAt("restore", "undo removal")
  /\ \/ checkpoint' = NoCheckpoint /\ CallGoes("undo checkpoint")
     \/ UNCHANGED checkpoint /\ CallFails("idle")
  /\ UNCHANGED <<database, folder, edits>>

UndoCheckpoint ==
  /\ CallAt("restore", "undo checkpoint")
  /\ \/ checkpoint' = call.draft.checkpoint /\ CallAnswers("failed")
     \/ UNCHANGED checkpoint /\ CallFails("idle")
  /\ UNCHANGED <<database, folder, edits>>

------------------------------------------------------------------------------
(* backup:importProject.                                                     *)

\* Refused while the project or a stack of its name exists.
StartImport ==
  folder.made /\ database.version = 0 /\ checkpoint = NoCheckpoint /\ StartCall("import")

\* Here every row needs its secret.
ImportRows ==
  /\ CallAt("import", "start")
  /\ IF Present(folder.rows) \subseteq folder.secrets
     THEN \/ database' = Wrapped(folder.rows, Present(folder.rows)) /\ CallGoes("remove checkpoint")
          \/ UNCHANGED database /\ CallFails("idle")
     ELSE UNCHANGED database /\ CallAnswers("failed")
  /\ UNCHANGED <<checkpoint, folder, edits>>

RemoveImported ==
  /\ CallAt("import", "remove rows")
  /\ \/ database' = NoRows /\ CallGoes("remove file")
     \/ UNCHANGED database /\ CallFails("idle")
  /\ UNCHANGED <<checkpoint, folder, edits>>

RemoveImportedFile ==
  /\ CallAt("import", "remove file")
  /\ \/ checkpoint' = NoCheckpoint /\ CallAnswers("failed")
     \/ UNCHANGED checkpoint /\ CallFails("idle")
  /\ UNCHANGED <<database, folder, edits>>

------------------------------------------------------------------------------

BackupInit ==
  /\ database = [version |-> 1, key |-> [id \in Credentials |-> "here"]]
  /\ checkpoint = NoCheckpoint
  /\ folder = NoFolder /\ call = NoCall /\ edits = 0

BackupNext ==
  \/ \E id \in Credentials : SaveCredential(id) \/ RemoveCredential(id)
  \/ RunEngine \/ CrashDuringCall
  \/ \E elsewhere \in BOOLEAN : LeaveProject(elsewhere)
  \/ StartCreate \/ ExportSecrets \/ SnapshotRows \/ CopyCheckpoint \/ WriteManifest
  \/ StartRestore \/ CopyForSafety \/ CopyCheckpointForSafety \/ RestoreRows
  \/ RewrapSecrets \/ UndoRows \/ UndoRemoval \/ UndoCheckpoint
  \/ \E op \in {"restore", "import"} :
       LET failed == IF op = "restore" THEN "undo rows" ELSE "remove rows"
       IN  RemoveCheckpoint(op, failed) \/ RestoreCheckpoint(op, failed)
  \/ StartImport \/ ImportRows \/ RemoveImported \/ RemoveImportedFile

BackupSpec == BackupInit /\ [][BackupNext]_backupVars

------------------------------------------------------------------------------

Answered(answer) ==
  call.stage # "idle" /\ call'.stage = "idle" /\ call'.answer = answer /\ call'.undisturbed

\* A restore or an import that nothing else disturbs is all or nothing across both
\* stores: one failure, at whatever step, leaves the rows, their secrets and the
\* checkpoint as they were (an envelope with a secret that has no row is a failure); a
\* success leaves those of the backup, with every secret of a backup that was made
\* undisturbed readable on this computer.
RestoreIsAllOrNothing ==
  [][call.op \in {"restore", "import"} =>
       /\ Answered("failed") /\ call'.faults + (IF folder.sound THEN 0 ELSE 1) <= 1 =>
            database' = call.rowsBefore /\ checkpoint' = call.checkpointBefore
       /\ Answered("done") =>
            /\ checkpoint' = folder.checkpoint
            /\ database'.version = folder.rows.version
            /\ folder.sound => ReadableHere(database', Present(database'))]_backupVars
==============================================================================
