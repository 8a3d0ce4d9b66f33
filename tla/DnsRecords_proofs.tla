-------------------------- MODULE DnsRecords_proofs --------------------------
(***************************************************************************)
(* Theorems about DNS records, for any number of targets, records, calls   *)
(* and disturbances.                                                       *)
(***************************************************************************)
EXTENDS DnsRecords, TLAPS

Types == {"A", "CNAME", "unused", "deleted"}
ZoneRecords == [type : Types, content : Contents, managed : BOOLEAN]
Operations == {"none", "refresh", "decide", "create", "update", "delete"}
Stages == Operations \cup {"idle", "listing", "replacing", "placing", "removing"}
Calls ==
  [op : Operations, stage : Stages, automatic : BOOLEAN, record : Records \cup {NoRecord},
   wanted : ZoneRecords, seen : [Records -> ZoneRecords], todo : SUBSET Targets]

TypeOK ==
  /\ zone \in [Records -> ZoneRecords]
  /\ dnsCall \in [Callers -> Calls]

\* What carries the marker, in the zone or in a listing, is remembered to.
MarkersKnown(records, known) == \A r \in Records : records[r].managed => r \in known

\* ensure() never deletes, and what it updates was seen with the marker.
ByMarkerOnly(call, known) ==
  call.automatic =>
    /\ call.op \in {"decide", "create", "update"}
    /\ call.stage \notin {"idle", "delete"}
    /\ call.stage \in {"decide", "create", "update"} => call.op = call.stage
    /\ call.op = "update" => call.record \in known

IInv ==
  /\ TypeOK
  /\ MarkersKnown(zone, marked)
  /\ \A c \in Callers : /\ MarkersKnown(dnsCall[c].seen, marked)
                        /\ ByMarkerOnly(dnsCall[c], marked)

------------------------------------------------------------------------------

(* The records that are none.                                                *)
LEMMA NoRecords ==
  /\ Unused \in ZoneRecords /\ Deleted \in ZoneRecords
  /\ ~Unused.managed /\ ~Deleted.managed
<1>1. Elsewhere \in Contents
  BY DEF Contents
<1>2. QED
  BY <1>1 DEF Unused, Deleted, Record, ZoneRecords, Types

(* What a person or an operation may write is a record.                      *)
LEMMA WritableRecords == Writable \subseteq ZoneRecords
<1>1. Elsewhere \in Contents /\ "A" \in Types /\ "CNAME" \in Types
  BY DEF Contents, Types
<1>2. Record("CNAME", Elsewhere, FALSE) \in ZoneRecords
  BY <1>1 DEF Record, ZoneRecords
<1>3. ASSUME NEW w \in [type : {"A"}, content : Contents, managed : BOOLEAN]
      PROVE  w \in ZoneRecords
  BY <1>1, <1>3 DEF ZoneRecords
<1>4. QED
  BY <1>2, <1>3, Zenon DEF Writable

(* A call that is not made wants nothing and has seen nothing.               *)
LEMMA IdleCall ==
  /\ DnsIdle \in Calls
  /\ \A known : MarkersKnown(DnsIdle.seen, known) /\ ByMarkerOnly(DnsIdle, known)
BY NoRecords DEF DnsIdle, NothingSeen, Calls, Stages, Operations, MarkersKnown, ByMarkerOnly

(* The zone has at most one record at first.                                 *)
LEMMA InitIInv == DnsInit => IInv
<1> SUFFICES ASSUME DnsInit PROVE IInv
  OBVIOUS
<1>1. PICK r \in Records, record \in Writable \cup {Unused} :
        /\ zone = [n \in Records |-> IF n = r THEN record ELSE Unused]
        /\ marked = IF record.managed THEN {r} ELSE {}
  BY DEF DnsInit
<1>2. record \in ZoneRecords
  BY NoRecords, WritableRecords
<1>3. zone \in [Records -> ZoneRecords] /\ MarkersKnown(zone, marked)
  BY <1>1, <1>2, NoRecords DEF MarkersKnown
<1>4. dnsCall = [c \in Callers |-> DnsIdle]
  BY DEF DnsInit
<1>5. QED
  BY <1>3, <1>4, IdleCall DEF IInv, TypeOK

(* A step of one call leaves the others as they were; a marker that is       *)
(* remembered is not forgotten.                                              *)
LEMMA OneCallIInv ==
  ASSUME IInv, NEW c \in Callers,
         dnsCall' \in [Callers -> Calls],
         \A d \in Callers : d # c => dnsCall'[d] = dnsCall[d],
         MarkersKnown(dnsCall[c].seen, marked)', ByMarkerOnly(dnsCall[c], marked)',
         zone' \in [Records -> ZoneRecords], MarkersKnown(zone, marked)',
         marked \subseteq marked'
  PROVE  IInv'
<1>1. ASSUME NEW d \in Callers
      PROVE  MarkersKnown(dnsCall[d].seen, marked)' /\ ByMarkerOnly(dnsCall[d], marked)'
  <2>1. CASE d = c
    BY <2>1
  <2>2. CASE d # c
    <3>1. dnsCall'[d] = dnsCall[d] /\ MarkersKnown(dnsCall[d].seen, marked)
          /\ ByMarkerOnly(dnsCall[d], marked)
      BY <2>2 DEF IInv
    <3>2. QED
      BY <3>1 DEF MarkersKnown, ByMarkerOnly
  <2>3. QED
    BY <2>1, <2>2
<1>2. QED
  BY <1>1 DEF IInv, TypeOK

(* What is written to the zone with the marker is remembered.                *)
LEMMA WriteKnown ==
  ASSUME IInv, NEW r \in Records, NEW record \in ZoneRecords, SetRecord(r, record)
  PROVE  /\ zone' \in [Records -> ZoneRecords] /\ MarkersKnown(zone, marked)'
         /\ marked \subseteq marked'
         /\ \A n \in Records : zone'[n] # zone[n] => n = r
BY DEF IInv, TypeOK, SetRecord, MarkersKnown

(* A call that ends is none.                                                 *)
LEMMA ReturnIInv ==
  ASSUME IInv, NEW c \in Callers, Return(c),
         zone' \in [Records -> ZoneRecords], MarkersKnown(zone, marked)', marked \subseteq marked'
  PROVE  IInv'
<1>1. /\ dnsCall' \in [Callers -> Calls] /\ dnsCall'[c] = DnsIdle
      /\ \A d \in Callers : d # c => dnsCall'[d] = dnsCall[d]
  BY IdleCall DEF IInv, TypeOK, Return
<1>2. MarkersKnown(dnsCall[c].seen, marked)' /\ ByMarkerOnly(dnsCall[c], marked)'
  BY <1>1, IdleCall
<1>3. QED
  BY <1>1, <1>2, OneCallIInv

(* A step of a call that leaves the zone alone.                              *)
LEMMA CallAloneIInv ==
  ASSUME IInv, NEW c \in Callers, UNCHANGED <<zone, marked>>,
         dnsCall' \in [Callers -> Calls],
         \A d \in Callers : d # c => dnsCall'[d] = dnsCall[d],
         MarkersKnown(dnsCall'[c].seen, marked), ByMarkerOnly(dnsCall'[c], marked)
  PROVE  IInv'
<1>1. MarkersKnown(dnsCall[c].seen, marked)' /\ ByMarkerOnly(dnsCall[c], marked)'
  BY DEF MarkersKnown, ByMarkerOnly
<1>2. zone' \in [Records -> ZoneRecords] /\ MarkersKnown(zone, marked)'
  BY DEF IInv, TypeOK, MarkersKnown
<1>3. QED
  BY <1>1, <1>2, OneCallIInv

(* After a request that was answered a call updates nothing more.            *)
LEMMA SynchronizeIInv ==
  ASSUME IInv, NEW c \in Callers, NEW r \in Records, Synchronize(c, r),
         dnsCall[c].automatic /\ dnsCall[c].op = "update" => r = dnsCall[c].record,
         zone' \in [Records -> ZoneRecords], MarkersKnown(zone, marked)', marked \subseteq marked'
  PROVE  IInv'
<1>1. dnsCall[c] \in Calls /\ ByMarkerOnly(dnsCall[c], marked)
  BY DEF IInv, TypeOK
<1>2. NothingSeen \in [Records -> ZoneRecords] /\ \A n \in Records : ~NothingSeen[n].managed
  BY NoRecords DEF NothingSeen
<1>3. /\ dnsCall' \in [Callers -> Calls]
      /\ \A d \in Callers : d # c => dnsCall'[d] = dnsCall[d]
      /\ dnsCall'[c].seen = NothingSeen /\ dnsCall'[c].automatic = dnsCall[c].automatic
      /\ dnsCall'[c].op = dnsCall[c].op /\ dnsCall'[c].record = r
      /\ dnsCall'[c].stage \in {"placing", "removing"}
  BY <1>1, <1>2 DEF IInv, TypeOK, Synchronize, Calls, Stages, Operations
<1>4. MarkersKnown(dnsCall[c].seen, marked)'
  BY <1>2, <1>3 DEF MarkersKnown
<1>5. ByMarkerOnly(dnsCall[c], marked)'
  BY <1>1, <1>3 DEF ByMarkerOnly
<1>6. QED
  BY <1>3, <1>4, <1>5, OneCallIInv

(* Every step of a call leaves what it may rely on.                          *)
LEMMA CallIInv ==
  ASSUME IInv, NEW c \in Callers,
         DnsAdvance(c) \/ Refused(c) \/ StartRefresh(c) \/ DnsStart(c)
  PROVE  IInv'
<1>1. /\ dnsCall[c] \in Calls /\ MarkersKnown(dnsCall[c].seen, marked)
      /\ ByMarkerOnly(dnsCall[c], marked)
      /\ zone \in [Records -> ZoneRecords] /\ MarkersKnown(zone, marked)
  BY DEF IInv, TypeOK
<1>2. ASSUME UNCHANGED <<zone, marked>>
      PROVE  /\ zone' \in [Records -> ZoneRecords] /\ MarkersKnown(zone, marked)'
             /\ marked \subseteq marked'
  BY <1>1, <1>2 DEF MarkersKnown
<1>3. CASE ListZone(c)
  <2>1. /\ dnsCall' \in [Callers -> Calls]
        /\ \A d \in Callers : d # c => dnsCall'[d] = dnsCall[d]
        /\ dnsCall'[c] = [dnsCall[c] EXCEPT !.stage = "replacing", !.seen = zone,
                                            !.todo = Targets]
    BY <1>1, <1>3 DEF ListZone, IInv, TypeOK, Calls, Stages, Operations
  <2>2. MarkersKnown(dnsCall'[c].seen, marked) /\ ByMarkerOnly(dnsCall'[c], marked)
    BY <1>1, <2>1 DEF ByMarkerOnly, Calls
  <2>3. QED
    BY <1>3, <2>1, <2>2, CallAloneIInv DEF ListZone
<1>4. ASSUME NEW call \in Calls, dnsCall' = [dnsCall EXCEPT ![c] = call],
             call.seen = dnsCall[c].seen, ByMarkerOnly(call, marked), UNCHANGED <<zone, marked>>
      PROVE  IInv'
  <2>1. /\ dnsCall' \in [Callers -> Calls] /\ dnsCall'[c] = call
        /\ \A d \in Callers : d # c => dnsCall'[d] = dnsCall[d]
    BY <1>4 DEF IInv, TypeOK
  <2>2. QED
    BY <1>1, <1>4, <2>1, CallAloneIInv
<1>5. CASE \E t \in Targets : ReplaceRows(c, t) \/ Withdraw(c, t)
  <2> DEFINE call == [dnsCall[c] EXCEPT !.todo = dnsCall'[c].todo]
  <2>1. PICK t \in Targets : dnsCall' = [dnsCall EXCEPT ![c].todo = @ \ {t}]
    BY <1>5 DEF ReplaceRows, Withdraw
  <2>2. UNCHANGED <<zone, marked>>
    BY <1>5 DEF ReplaceRows, Withdraw
  <2>3. /\ dnsCall' \in [Callers -> Calls]
        /\ \A d \in Callers : d # c => dnsCall'[d] = dnsCall[d]
        /\ dnsCall'[c] = [dnsCall[c] EXCEPT !.todo = @ \ {t}]
    BY <1>1, <2>1 DEF IInv, TypeOK, Calls
  <2>4. MarkersKnown(dnsCall'[c].seen, marked) /\ ByMarkerOnly(dnsCall'[c], marked)
    BY <1>1, <2>3 DEF ByMarkerOnly, Calls
  <2>5. QED
    BY <2>2, <2>3, <2>4, CallAloneIInv
<1>6. CASE ListingDone(c)
  <2>1. CASE dnsCall[c].op = "refresh"
    BY <1>2, <1>6, <2>1, ReturnIInv DEF ListingDone
  <2>2. CASE dnsCall[c].op # "refresh"
    <3>1. dnsCall' = [dnsCall EXCEPT ![c].stage = dnsCall[c].op] /\ UNCHANGED <<zone, marked>>
      BY <1>6, <2>2 DEF ListingDone, Goto
    <3>2. /\ dnsCall' \in [Callers -> Calls]
          /\ \A d \in Callers : d # c => dnsCall'[d] = dnsCall[d]
          /\ dnsCall'[c] = [dnsCall[c] EXCEPT !.stage = dnsCall[c].op]
      BY <1>1, <3>1 DEF IInv, TypeOK, Calls, Stages, Operations
    <3>3. MarkersKnown(dnsCall'[c].seen, marked) /\ ByMarkerOnly(dnsCall'[c], marked)
      BY <1>1, <3>2 DEF ByMarkerOnly, Calls
    <3>4. QED
      BY <3>1, <3>2, <3>3, CallAloneIInv
  <2>3. QED
    BY <2>1, <2>2
<1>7. CASE StartRefresh(c) \/ DnsStart(c)
  <2>1. dnsCall[c].stage = "idle" /\ ~dnsCall[c].automatic /\ UNCHANGED <<zone, marked>>
    BY <1>1, <1>7
    DEF StartRefresh, DnsStart, StartCreate, StartUpdate, StartDelete, StartEnsure, ByMarkerOnly
  <2>2. ASSUME NEW call \in Calls,
               ~call.automatic \/ (call.op = "decide" /\ call.stage = "listing"),
               call.seen = dnsCall[c].seen, dnsCall' = [dnsCall EXCEPT ![c] = call]
        PROVE  IInv'
    <3>1. /\ dnsCall' \in [Callers -> Calls] /\ dnsCall'[c] = call
          /\ \A d \in Callers : d # c => dnsCall'[d] = dnsCall[d]
      BY <2>2 DEF IInv, TypeOK
    <3>2. QED
      BY <1>1, <2>1, <2>2, <3>1, CallAloneIInv DEF ByMarkerOnly
  <2>3. CASE StartRefresh(c)
    <3>1. [dnsCall[c] EXCEPT !.op = "refresh", !.stage = "listing"] \in Calls
      BY <1>1 DEF Calls, Stages, Operations
    <3>2. QED
      BY <1>1, <2>1, <2>2, <2>3, <3>1 DEF StartRefresh, Calls
  <2>4. ASSUME NEW wanted \in Writable, StartCreate(c, wanted) PROVE IInv'
    <3>1. [dnsCall[c] EXCEPT !.op = "create", !.stage = "listing", !.wanted = wanted] \in Calls
      BY <1>1, WritableRecords DEF Calls, Stages, Operations
    <3>2. QED
      BY ZenonT(60), <1>1, <2>1, <2>2, <2>4, <3>1 DEF StartCreate, Calls
  <2>5. ASSUME NEW wanted \in Writable, NEW r \in Live(zone), StartUpdate(c, r, wanted)
        PROVE  IInv'
    <3>1. [dnsCall[c] EXCEPT !.op = "update", !.stage = "listing", !.record = r,
                             !.wanted = wanted] \in Calls
      BY <1>1, WritableRecords DEF Calls, Stages, Operations, Live
    <3>2. dnsCall' = [dnsCall EXCEPT ![c] =
                        [dnsCall[c] EXCEPT !.op = "update", !.stage = "listing", !.record = r,
                                           !.wanted = wanted]]
      <4>1. DOMAIN dnsCall = Callers /\ c \in Callers
        BY <1>1 DEF IInv, TypeOK
      <4> DEFINE started == [dnsCall EXCEPT ![c].op = "update", ![c].stage = "listing"]
      <4>2. started = [dnsCall EXCEPT ![c] = [dnsCall[c] EXCEPT !.op = "update",
                                                                !.stage = "listing"]]
        BY <4>1
      <4>3. dnsCall' = [started EXCEPT ![c].record = r, ![c].wanted = wanted]
        BY <2>5, Zenon DEF StartUpdate
      <4> HIDE DEF started
      <4>4. dnsCall' = [started EXCEPT ![c] = [started[c] EXCEPT !.record = r,
                                                                 !.wanted = wanted]]
        BY <4>1, <4>2, <4>3
      <4>5. QED
        BY <4>1, <4>2, <4>4
    <3>3. [dnsCall[c] EXCEPT !.op = "update", !.stage = "listing", !.record = r,
                             !.wanted = wanted].automatic = dnsCall[c].automatic
          /\ [dnsCall[c] EXCEPT !.op = "update", !.stage = "listing", !.record = r,
                                !.wanted = wanted].seen = dnsCall[c].seen
      BY <1>1 DEF Calls
    <3>4. QED
      BY <2>1, <2>2, <3>1, <3>2, <3>3
  <2>6. ASSUME NEW r \in Live(zone), StartDelete(c, r) PROVE IInv'
    <3>1. [dnsCall[c] EXCEPT !.op = "delete", !.stage = "delete", !.record = r] \in Calls
      BY <1>1 DEF Calls, Stages, Operations, Live
    <3>2. QED
      BY ZenonT(60), <1>1, <2>1, <2>2, <2>6, <3>1 DEF StartDelete, Calls
  <2>7. ASSUME NEW t \in Targets, StartEnsure(c, t) PROVE IInv'
    <3>1. Record("A", t, TRUE) \in ZoneRecords
      BY DEF Record, ZoneRecords, Types, Contents
    <3>2. [dnsCall[c] EXCEPT !.op = "decide", !.stage = "listing", !.automatic = TRUE,
                             !.wanted = Record("A", t, TRUE)] \in Calls
      BY <1>1, <3>1 DEF Calls, Stages, Operations
    <3>3. QED
      BY ZenonT(60), <1>1, <2>2, <2>7, <3>2 DEF StartEnsure, Calls
  <2>8. QED
    BY <1>7, <2>3, <2>4, <2>5, <2>6, <2>7 DEF DnsStart
<1>8. CASE Create(c)
  <2>1. CASE Identical(c) \/ \A r \in Records : zone[r] # Unused
    BY <1>2, <1>8, <2>1, ReturnIInv DEF Create
  <2>2. CASE ~(Identical(c) \/ \A r \in Records : zone[r] # Unused)
    <3>1. PICK r \in Records : /\ SetRecord(r, dnsCall[c].wanted)
                               /\ IF dnsCall[c].wanted.managed THEN Synchronize(c, r)
                                  ELSE Return(c)
      BY <1>8, <2>2 DEF Create
    <3>2. /\ zone' \in [Records -> ZoneRecords] /\ MarkersKnown(zone, marked)'
          /\ marked \subseteq marked'
      BY <1>1, <3>1, WriteKnown DEF Calls
    <3>3. ~(dnsCall[c].automatic /\ dnsCall[c].op = "update")
      BY <1>1, <1>8 DEF Create, ByMarkerOnly
    <3>4. QED
      BY <3>1, <3>2, <3>3, ReturnIInv, SynchronizeIInv
  <2>3. QED
    BY <2>1, <2>2
<1>9. CASE Update(c) \/ Delete(c)
  <2> DEFINE r == dnsCall[c].record
  <2>1. CASE Return(c) /\ UNCHANGED <<zone, marked>>
    BY <1>2, <2>1, ReturnIInv
  <2>2. CASE r \in Live(zone) /\ Synchronize(c, r)
             /\ \E record \in {dnsCall[c].wanted, Deleted} : SetRecord(r, record)
    <3>1. /\ r \in Records /\ dnsCall[c].wanted \in ZoneRecords /\ Deleted \in ZoneRecords
      BY <1>1, <2>2, NoRecords DEF Live, Calls
    <3>2. /\ zone' \in [Records -> ZoneRecords] /\ MarkersKnown(zone, marked)'
          /\ marked \subseteq marked'
      BY <2>2, <3>1, WriteKnown
    <3>3. QED
      BY <2>2, <3>1, <3>2, SynchronizeIInv
  <2>3. QED
    BY <1>9, <2>1, <2>2 DEF Update, Delete
<1>10. CASE Refused(c) \/ SynchronizationDone(c)
  BY <1>2, <1>10, ReturnIInv DEF Refused, SynchronizationDone
<1>11. CASE Place(c)
  <2>1. CASE Return(c)
    BY <1>2, <1>11, <2>1, ReturnIInv DEF Place
  <2>2. CASE ~Return(c)
    <3>1. PICK t \in Targets :
            dnsCall' = [dnsCall EXCEPT ![c].stage = "removing", ![c].todo = Targets \ {t}]
      BY <1>11, <2>2 DEF Place
    <3>2. /\ dnsCall' \in [Callers -> Calls]
          /\ \A d \in Callers : d # c => dnsCall'[d] = dnsCall[d]
          /\ dnsCall'[c] = [dnsCall[c] EXCEPT !.stage = "removing", !.todo = Targets \ {t}]
      BY <1>1, <3>1 DEF IInv, TypeOK, Calls, Stages, Operations
    <3>3. MarkersKnown(dnsCall'[c].seen, marked) /\ ByMarkerOnly(dnsCall'[c], marked)
      BY <1>1, <3>2 DEF ByMarkerOnly, Calls
    <3>4. QED
      BY <1>11, <3>2, <3>3, CallAloneIInv DEF Place
  <2>3. QED
    BY <2>1, <2>2
<1>12. CASE Decide(c)
  <2>1. CASE Return(c)
    BY <1>2, <1>12, <2>1, ReturnIInv DEF Decide
  <2>2. CASE ~Return(c)
    <3>1. PICK op \in {"create", "update"}, record \in Records \cup {NoRecord} :
            /\ dnsCall' = [dnsCall EXCEPT ![c].op = op, ![c].stage = "listing",
                                          ![c].record = record]
            /\ op = "update" => record \in Records /\ dnsCall[c].seen[record].managed
      <4>1. CASE Existing(dnsCall[c].seen) = {}
        <5>1. dnsCall' = [dnsCall EXCEPT ![c].op = "create", ![c].stage = "listing",
                                         ![c].record = dnsCall[c].record]
          BY <1>1, <1>12, <4>1 DEF Decide, Calls, IInv, TypeOK
        <5>2. QED
          BY <1>1, <5>1 DEF Calls
      <4>2. CASE Existing(dnsCall[c].seen) # {}
        BY <1>12, <2>2, <4>2 DEF Decide, Existing, SameType
      <4>3. QED
        BY <4>1, <4>2
    <3>2. /\ dnsCall' \in [Callers -> Calls]
          /\ \A d \in Callers : d # c => dnsCall'[d] = dnsCall[d]
          /\ dnsCall'[c] = [dnsCall[c] EXCEPT !.op = op, !.stage = "listing",
                                              !.record = record]
      BY <1>1, <3>1 DEF IInv, TypeOK, Calls, Stages, Operations
    <3>3. MarkersKnown(dnsCall'[c].seen, marked) /\ ByMarkerOnly(dnsCall'[c], marked)
      BY <1>1, <3>1, <3>2 DEF ByMarkerOnly, MarkersKnown, Calls
    <3>4. QED
      BY <1>12, <3>2, <3>3, CallAloneIInv DEF Decide
  <2>3. QED
    BY <2>1, <2>2
<1>13. QED
  BY <1>3, <1>5, <1>6, <1>7, <1>8, <1>9, <1>10, <1>11, <1>12 DEF DnsAdvance

(* Others may write to the zone too, and their markers are remembered.       *)
LEMMA NextIInv == IInv /\ [DnsNext]_dnsVars => IInv'
<1> SUFFICES ASSUME IInv, [DnsNext]_dnsVars PROVE IInv'
  OBVIOUS
<1>1. CASE \E r \in Records, record \in Writable \cup {Deleted} : EditElsewhere(r, record)
  <2>1. PICK r \in Records, record \in Writable \cup {Deleted} :
          SetRecord(r, record) /\ dnsCall' = dnsCall
    BY <1>1 DEF EditElsewhere
  <2>2. record \in ZoneRecords
    BY NoRecords, WritableRecords
  <2>3. /\ zone' \in [Records -> ZoneRecords] /\ MarkersKnown(zone, marked)'
        /\ marked \subseteq marked'
    BY <2>1, <2>2, WriteKnown
  <2>4. QED
    BY <2>1, <2>3 DEF IInv, TypeOK, MarkersKnown, ByMarkerOnly
<1>2. CASE UNCHANGED dnsVars
  BY <1>2 DEF dnsVars, IInv, TypeOK, MarkersKnown, ByMarkerOnly
<1>3. QED
  BY <1>1, <1>2, CallIInv DEF DnsNext

(* ensure() changes only records that CloudForge's marker was on at some     *)
(* time, for any number of calls that overlap, and whatever others write: it *)
(* decides on one listing and writes after a second, but the id of what it   *)
(* updates was seen with the marker, and a marker that was seen is not       *)
(* forgotten.                                                                *)
THEOREM AutomationChangesMarked == DnsSpec => AutomationKeepsForeign
<1>1. ASSUME IInv, [DnsNext]_dnsVars, NEW c \in Callers,
             dnsCall[c].automatic, dnsCall'[c] # dnsCall[c],
             NEW r \in Live(zone), zone'[r] # zone[r]
      PROVE  r \in marked
  <2>1. ByMarkerOnly(dnsCall[c], marked) /\ dnsCall[c] \in Calls
    BY <1>1 DEF IInv, TypeOK
  <2>2. PICK d \in Callers : DnsAdvance(d) \/ Refused(d) \/ StartRefresh(d) \/ DnsStart(d)
    BY <1>1 DEF DnsNext, dnsVars, EditElsewhere
  <2>3. d = c
    <3>1. ASSUME d # c PROVE dnsCall'[c] = dnsCall[c]
      BY <1>1, <2>2, <3>1
      DEF DnsAdvance, DnsStart, ListZone, ListingDone, Create, Update, Delete, Place,
          SynchronizationDone, Decide, ReplaceRows, Withdraw, Refused, StartRefresh, StartCreate,
          StartUpdate, StartDelete, StartEnsure, Goto, Return, Synchronize, IInv, TypeOK
    <3>2. QED
      BY <1>1, <3>1
  <2>4. Create(c) \/ Update(c) \/ Delete(c)
    BY <1>1, <2>2, <2>3
    DEF DnsAdvance, DnsStart, ListZone, ListingDone, Place, SynchronizationDone, Decide,
        ReplaceRows, Withdraw, Refused, StartRefresh, StartCreate, StartUpdate, StartDelete,
        StartEnsure
  <2>5. ~Delete(c)
    BY <1>1, <2>1 DEF ByMarkerOnly, Delete
  <2>6. ~Create(c)
    BY <1>1 DEF Create, SetRecord, Live, IInv, TypeOK
  <2>7. r = dnsCall[c].record /\ dnsCall[c].stage = "update"
    BY <1>1, <2>4, <2>5, <2>6 DEF Update, SetRecord, Live, IInv, TypeOK
  <2>8. QED
    BY <1>1, <2>1, <2>7 DEF ByMarkerOnly
<1>2. IInv /\ [DnsNext]_dnsVars =>
        [\A c \in Callers : dnsCall[c].automatic /\ dnsCall'[c] # dnsCall[c] =>
           \A r \in Live(zone) : zone'[r] # zone[r] => r \in marked]_dnsVars
  BY <1>1
<1>3. QED
  BY <1>2, InitIInv, NextIInv, PTL DEF DnsSpec, AutomationKeepsForeign
==============================================================================
