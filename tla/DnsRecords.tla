--------------------------- MODULE DnsRecords ---------------------------
(***************************************************************************)
(* DNS records at Cloudflare and the plans of the targets they lead to:    *)
(* CloudflareService, the automatic DNS of pipelines and sites             *)
(* (CloudflareDnsAutomationService.ensure) and the DNS part of             *)
(* RuntimePlanService.                                                     *)
(*                                                                         *)
(* A call spans several awaits: a listing of the zone, a write to one plan *)
(* after the other, a request to Cloudflare.  There is no transaction over *)
(* several plans; a refresh, repeated by the scheduler, is the repair.     *)
(*                                                                         *)
(* One hostname is modelled.  A record's content is the target whose       *)
(* address it holds, or Elsewhere.  Which plan version a write replaces is *)
(* RuntimePlan's subject.                                                  *)
(***************************************************************************)
EXTENDS Naturals, FiniteSets

CONSTANTS Targets,         \* saved VPS targets, which stand for their address
          Records,         \* record ids
          Callers,         \* calls that can be in progress at the same time
          MaxDisturbances  \* bound on operations, changes by others and failures

Elsewhere == "elsewhere"
Contents == Targets \cup {Elsewhere}
NoRecord == "no record"

Record(type, content, managed) == [type |-> type, content |-> content, managed |-> managed]
Unused == Record("unused", Elsewhere, FALSE)  \* ids are not given twice
Deleted == Record("deleted", Elsewhere, FALSE)
Live(z) == {r \in Records : z[r] \notin {Unused, Deleted}}

VARIABLES zone,         \* the hostname's records at Cloudflare
          dnsRows,      \* the row each target's plan has for each record
          marked,       \* the records that ever carried CloudForge's marker
          dnsCall,      \* where each call is
          disturbances

dnsVars == <<zone, dnsRows, marked, dnsCall, disturbances>>

\* ensure() is a call that becomes a create or an update once it has decided.
NothingSeen == [r \in Records |-> Unused]
DnsIdle ==
  [op |-> "none", stage |-> "idle", automatic |-> FALSE, record |-> NoRecord,
   wanted |-> Unused, seen |-> NothingSeen, todo |-> {}]

Goto(c, stage) == dnsCall' = [dnsCall EXCEPT ![c].stage = stage]
Return(c) == dnsCall' = [dnsCall EXCEPT ![c] = DnsIdle]

\* Cloudflare's record r becomes the given one.
SetRecord(r, record) ==
  /\ zone' = [zone EXCEPT ![r] = record]
  /\ marked' = IF record.managed THEN marked \cup {r} ELSE marked

Disturb == disturbances < MaxDisturbances /\ disturbances' = disturbances + 1

------------------------------------------------------------------------------
(* What the plans make of a listing.                                         *)

OwnedBy(t, record) == record.managed /\ record.content = t

\* Variant: only the records that match now are rebuilt.
ReplacedMatching(t, row, record) == IF OwnedBy(t, record) THEN "active" ELSE row

\* The row of one record in the plan of target t.
Replaced(t, row, record) ==
  CASE OwnedBy(t, record) -> "active"
    [] row = "none" -> "none"
    [] row # "none" /\ record.managed /\ record.content # t -> "error"
    [] OTHER -> "missing"

------------------------------------------------------------------------------
(* dnsRecords().                                                             *)

ListZone(c) ==
  /\ dnsCall[c].stage = "listing"
  /\ dnsCall' = [dnsCall EXCEPT ![c].stage = "replacing", ![c].seen = zone,
                                ![c].todo = Targets]
  /\ UNCHANGED <<zone, marked, dnsRows, disturbances>>

\* One plan of replaceDnsRecords(), in the order of the target list.
ReplaceRows(c, t) ==
  /\ dnsCall[c].stage = "replacing" /\ t \in dnsCall[c].todo
  /\ dnsRows' = [dnsRows EXCEPT ![t] =
       [r \in Records |-> Replaced(t, @[r], dnsCall[c].seen[r])]]
  /\ dnsCall' = [dnsCall EXCEPT ![c].todo = @ \ {t}]
  /\ UNCHANGED <<zone, marked, disturbances>>

\* A plan that cannot be written ends the replacement but not the listing.
ListingDone(c) ==
  /\ dnsCall[c].stage = "replacing"
  /\ IF dnsCall[c].todo = {} THEN UNCHANGED disturbances ELSE Disturb
  /\ IF dnsCall[c].op = "refresh" THEN Return(c) ELSE Goto(c, dnsCall[c].op)
  /\ UNCHANGED <<zone, marked, dnsRows>>

------------------------------------------------------------------------------
(* The operations of the DNS manager.                                        *)

StartRefresh(c) ==
  /\ dnsCall[c].stage = "idle"
  /\ dnsCall' = [dnsCall EXCEPT ![c].op = "refresh", ![c].stage = "listing"]
  /\ UNCHANGED <<zone, marked, dnsRows, disturbances>>

StartCreate(c, wanted) ==
  /\ dnsCall[c].stage = "idle"
  /\ Disturb
  /\ dnsCall' = [dnsCall EXCEPT ![c].op = "create", ![c].stage = "listing",
                                ![c].wanted = wanted]
  /\ UNCHANGED <<zone, marked, dnsRows>>

StartUpdate(c, r, wanted) ==
  /\ dnsCall[c].stage = "idle"
  /\ Disturb
  /\ dnsCall' = [dnsCall EXCEPT ![c].op = "update", ![c].stage = "listing",
                                ![c].record = r, ![c].wanted = wanted]
  /\ UNCHANGED <<zone, marked, dnsRows>>

StartDelete(c, r) ==
  /\ dnsCall[c].stage = "idle"
  /\ Disturb
  /\ dnsCall' = [dnsCall EXCEPT ![c].op = "delete", ![c].stage = "delete",
                                ![c].record = r]
  /\ UNCHANGED <<zone, marked, dnsRows>>

Identical(c) ==
  \E r \in Live(dnsCall[c].seen) \ {dnsCall[c].record} :
    /\ dnsCall[c].seen[r].type = dnsCall[c].wanted.type
    /\ dnsCall[c].seen[r].content = dnsCall[c].wanted.content

\* What follows a request that Cloudflare answered; the listing has served.
Synchronize(c, r) ==
  dnsCall' = [dnsCall EXCEPT ![c].record = r, ![c].todo = Targets, ![c].seen = NothingSeen,
    ![c].stage = IF dnsCall[c].wanted.managed THEN "placing" ELSE "removing"]

\* createDnsRecord(): a record without the marker stays out of the plans.
Create(c) ==
  /\ dnsCall[c].stage = "create"
  /\ IF Identical(c) \/ \A r \in Records : zone[r] # Unused
     THEN Return(c) /\ UNCHANGED <<zone, marked>>
     ELSE \E r \in {n \in Records : zone[n] = Unused} :
            /\ SetRecord(r, dnsCall[c].wanted)
            /\ IF dnsCall[c].wanted.managed THEN Synchronize(c, r) ELSE Return(c)
  /\ UNCHANGED <<dnsRows, disturbances>>

\* updateDnsRecord(): a record that lost the marker leaves the plans.
Update(c) ==
  LET r == dnsCall[c].record
  IN /\ dnsCall[c].stage = "update"
     /\ IF Identical(c) \/ r \notin Live(zone)
        THEN Return(c) /\ UNCHANGED <<zone, marked>>
        ELSE Synchronize(c, r) /\ SetRecord(r, dnsCall[c].wanted)
     /\ UNCHANGED <<dnsRows, disturbances>>

Delete(c) ==
  LET r == dnsCall[c].record
  IN /\ dnsCall[c].stage = "delete"
     /\ IF r \notin Live(zone)
        THEN Return(c) /\ UNCHANGED <<zone, marked>>
        ELSE Synchronize(c, r) /\ SetRecord(r, Deleted)
     /\ UNCHANGED <<dnsRows, disturbances>>

\* Cloudflare refuses a request, or is not reached.
Refused(c) ==
  /\ dnsCall[c].stage \in {"listing", "create", "update", "delete"}
  /\ Disturb
  /\ Return(c)
  /\ UNCHANGED <<zone, marked, dnsRows>>

\* upsertDnsRecord(), first the plan of the target the record leads to.
Place(c) ==
  LET t == dnsCall[c].wanted.content
  IN /\ dnsCall[c].stage = "placing"
     /\ IF t \notin Targets
        THEN Return(c) /\ UNCHANGED dnsRows
        ELSE /\ dnsRows' = [dnsRows EXCEPT ![t][dnsCall[c].record] = "active"]
             /\ dnsCall' = [dnsCall EXCEPT ![c].stage = "removing",
                                           ![c].todo = Targets \ {t}]
     /\ UNCHANGED <<zone, marked, disturbances>>

\* Then, and in removeDnsRecord(), the others.
Withdraw(c, t) ==
  /\ dnsCall[c].stage = "removing" /\ t \in dnsCall[c].todo
  /\ dnsRows' = [dnsRows EXCEPT ![t][dnsCall[c].record] = "none"]
  /\ dnsCall' = [dnsCall EXCEPT ![c].todo = @ \ {t}]
  /\ UNCHANGED <<zone, marked, disturbances>>

\* Every plan is written, or one could not be and the call fails.
SynchronizationDone(c) ==
  /\ dnsCall[c].stage \in {"placing", "removing"}
  /\ IF dnsCall[c].stage = "removing" /\ dnsCall[c].todo = {}
     THEN UNCHANGED disturbances ELSE Disturb
  /\ Return(c)
  /\ UNCHANGED <<zone, marked, dnsRows>>

------------------------------------------------------------------------------
(* ensure().                                                                 *)

StartEnsure(c, t) ==
  /\ dnsCall[c].stage = "idle"
  /\ Disturb
  /\ dnsCall' = [dnsCall EXCEPT ![c].op = "decide", ![c].stage = "listing",
                                ![c].automatic = TRUE,
                                ![c].wanted = Record("A", t, TRUE)]
  /\ UNCHANGED <<zone, marked, dnsRows>>

SameType(z) == {r \in Records : z[r].type = "A"}
Existing(z) == IF SameType(z) # {} THEN SameType(z) ELSE {r \in Records : z[r].type = "CNAME"}

\* Variant: whatever has the hostname is taken over.
DecideAnyway(c) ==
  /\ dnsCall[c].stage = "decide"
  /\ \/ \E r \in Existing(dnsCall[c].seen) :
          dnsCall' = [dnsCall EXCEPT ![c].op = "update", ![c].stage = "listing",
                                     ![c].record = r]
     \/ /\ Existing(dnsCall[c].seen) = {}
        /\ dnsCall' = [dnsCall EXCEPT ![c].op = "create", ![c].stage = "listing"]
  /\ UNCHANGED <<zone, marked, dnsRows, disturbances>>

\* A record without the marker is left alone, whether it conflicts or already
\* leads to the target; the first record found decides.
Decide(c) ==
  /\ dnsCall[c].stage = "decide"
  /\ \/ \E r \in Existing(dnsCall[c].seen) :
          IF dnsCall[c].seen[r].managed
          THEN dnsCall' = [dnsCall EXCEPT ![c].op = "update", ![c].stage = "listing",
                                          ![c].record = r]
          ELSE Return(c)
     \/ /\ Existing(dnsCall[c].seen) = {}
        /\ dnsCall' = [dnsCall EXCEPT ![c].op = "create", ![c].stage = "listing"]
  /\ UNCHANGED <<zone, marked, dnsRows, disturbances>>

------------------------------------------------------------------------------

\* Somebody edits the zone in Cloudflare's own pages.
EditElsewhere(r, record) ==
  /\ IF record = Deleted THEN r \in Live(zone) ELSE zone[r] \notin {record, Deleted}
  /\ Disturb
  /\ SetRecord(r, record)
  /\ UNCHANGED <<dnsRows, dnsCall>>

\* The records a person may write: an address, or another name.
Writable == [type : {"A"}, content : Contents, managed : BOOLEAN]
              \cup {Record("CNAME", Elsewhere, FALSE)}

\* At most one record to start with, known to the plans if it is CloudForge's.
DnsInit ==
  /\ \E r \in Records, record \in Writable \cup {Unused} :
       /\ zone = [n \in Records |-> IF n = r THEN record ELSE Unused]
       /\ marked = IF record.managed THEN {r} ELSE {}
       /\ dnsRows = [t \in Targets |-> [n \in Records |->
            IF n = r /\ OwnedBy(t, record) THEN "active" ELSE "none"]]
  /\ dnsCall = [c \in Callers |-> DnsIdle]
  /\ disturbances = 0

DnsAdvance(c) ==
  \/ ListZone(c) \/ ListingDone(c) \/ Create(c) \/ Update(c) \/ Delete(c)
  \/ Place(c) \/ SynchronizationDone(c) \/ Decide(c)
  \/ \E t \in Targets : ReplaceRows(c, t) \/ Withdraw(c, t)

DnsStart(c) ==
  \/ \E wanted \in Writable :
       StartCreate(c, wanted) \/ \E r \in Live(zone) : StartUpdate(c, r, wanted)
  \/ \E r \in Live(zone) : StartDelete(c, r)
  \/ \E t \in Targets : StartEnsure(c, t)

DnsNext ==
  \/ \E c \in Callers : DnsAdvance(c) \/ Refused(c) \/ StartRefresh(c) \/ DnsStart(c)
  \/ \E r \in Records, record \in Writable \cup {Deleted} : EditElsewhere(r, record)

\* A call that is not blocked goes on, and the scheduler refreshes the zone again
\* and again.
DnsFairness ==
  /\ \A c \in Callers : WF_dnsVars(DnsAdvance(c))
  /\ WF_dnsVars(\E c \in Callers : StartRefresh(c))

DnsSpec == DnsInit /\ [][DnsNext]_dnsVars /\ DnsFairness

------------------------------------------------------------------------------
(* Properties.                                                               *)

\* Once nobody changes the zone any more, the plans come to say of each record
\* what Cloudflare says, whatever writes failed half-way and in whatever order
\* overlapping listings and operations wrote (the refresh as the repair of an
\* interrupted synchronization).
RefreshRepairs ==
  <>[](\A t \in Targets, r \in Records :
         dnsRows[t][r] = "active" <=> OwnedBy(t, zone[r]))

\* ensure() repoints and claims only records that CloudForge's marker was on,
\* although it decides on one listing and writes after a second one.
AutomationKeepsForeign ==
  [][\A c \in Callers : dnsCall[c].automatic /\ dnsCall'[c] # dnsCall[c] =>
       \A r \in Live(zone) : zone'[r] # zone[r] => r \in marked]_dnsVars
==============================================================================
