----------------------- MODULE ProjectDuplication -----------------------
(***************************************************************************)
(* The copy of a project (project-duplication-service.ts and               *)
(* prisma-project-configuration-cloner.ts): the row of the new project is  *)
(* created, the configuration tables are cloned in one transaction that    *)
(* gives every credential a new id and rewrites the references to it, and  *)
(* then the row is linked to the clone of its provider.  Meanwhile the     *)
(* source stays open and may be edited.                                    *)
(*                                                                         *)
(* SSH keys and templates are cloned like credentials and not modelled     *)
(* besides them.  The plan stands for everything that names a credential.  *)
(***************************************************************************)
EXTENDS Naturals

CONSTANTS SourceCredentials, MaxCopyFaults
NoCredential == "none"

VARIABLES source,   \* the credentials of the project, and those it names
          copy,     \* the copy and the stage it has reached
          copyFailures

duplicationVars == <<source, copy, copyFailures>>

References == SourceCredentials \cup {NoCredential}
OfSource(id) == <<"source", id>>
OfCopy(id) == <<"copy", id>>
Nobody == <<"none", NoCredential>>
Named(id) == IF id = NoCredential THEN Nobody ELSE OfSource(id)

NoCopy == [stage |-> "idle", row |-> FALSE, credentials |-> {}, plan |-> Nobody,
           provider |-> Nobody, linkTo |-> Nobody]

------------------------------------------------------------------------------

\* The pages of the source: with a credential goes the project's link to it, but the
\* plan, which is a text, still names it.
RemoveFromSource(id) ==
  /\ id \in source.credentials
  /\ source' = [source EXCEPT !.credentials = @ \ {id},
                              !.provider = IF @ = id THEN NoCredential ELSE @]
  /\ UNCHANGED <<copy, copyFailures>>

ChoosePlan(id) ==
  /\ source.plan # id /\ id \in source.credentials
  /\ source' = [source EXCEPT !.plan = id]
  /\ UNCHANGED <<copy, copyFailures>>

ChooseProvider(id) ==
  /\ source.provider # id /\ id \in source.credentials
  /\ source' = [source EXCEPT !.provider = id]
  /\ UNCHANGED <<copy, copyFailures>>

CopyFails == copyFailures < MaxCopyFaults /\ copyFailures' = copyFailures + 1
CopyGoes(stage) == copy' = [copy EXCEPT !.stage = stage]

CreateCopy ==
  /\ copy.stage = "idle"
  /\ \/ copy' = [NoCopy EXCEPT !.stage = "clone", !.row = TRUE] /\ UNCHANGED copyFailures
     \/ CopyGoes("failed") /\ CopyFails
  /\ UNCHANGED source

\* Variant: the values of the settings are copied as they are.
RemappedAsIs(id) == Named(id)

\* remapValue(): a reference to what was cloned names the clone, any other stays.
Remapped(id) == IF id \in source.credentials THEN OfCopy(id) ELSE Named(id)

\* The project's own link becomes none when its credential is gone.
CloneConfiguration ==
  /\ copy.stage = "clone"
  /\ \/ /\ copy' = [copy EXCEPT
               !.stage = "link",
               !.credentials = {OfCopy(id) : id \in source.credentials},
               !.plan = Remapped(source.plan),
               !.linkTo = IF source.provider \in source.credentials
                          THEN OfCopy(source.provider) ELSE Nobody]
        /\ UNCHANGED copyFailures
     \/ CopyGoes("remove") /\ CopyFails
  /\ UNCHANGED source

LinkCopy ==
  /\ copy.stage = "link"
  /\ \/ copy' = [copy EXCEPT !.stage = "done", !.provider = copy.linkTo] /\ UNCHANGED copyFailures
     \/ CopyGoes("remove") /\ CopyFails
  /\ UNCHANGED source

\* Everything the copy owns goes with its row.  Nobody asks whether it worked.
RemoveCopy ==
  /\ copy.stage = "remove"
  /\ \/ copy' = [NoCopy EXCEPT !.stage = "failed"] /\ UNCHANGED copyFailures
     \/ CopyGoes("failed") /\ CopyFails
  /\ UNCHANGED source

DuplicationInit ==
  /\ \E plan, provider \in References :
       source = [credentials |-> SourceCredentials, plan |-> plan, provider |-> provider]
  /\ copy = NoCopy
  /\ copyFailures = 0

DuplicationNext ==
  \/ \E id \in SourceCredentials : RemoveFromSource(id) \/ ChoosePlan(id) \/ ChooseProvider(id)
  \/ CreateCopy \/ CloneConfiguration \/ LinkCopy \/ RemoveCopy

DuplicationSpec == DuplicationInit /\ [][DuplicationNext]_duplicationVars

------------------------------------------------------------------------------

\* The copy stands alone: it never names a credential the source still has, whatever
\* is edited meanwhile, and one failed write leaves no part of it behind.
CopyStandsAlone ==
  /\ \A id \in source.credentials : OfSource(id) \notin {copy.plan, copy.provider}
  /\ copy.stage = "failed" /\ copyFailures <= 1 => copy = [NoCopy EXCEPT !.stage = "failed"]
  /\ copy.provider \in copy.credentials \cup {Nobody}
==============================================================================
