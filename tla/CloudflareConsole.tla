------------------------ MODULE CloudflareConsole ------------------------
(***************************************************************************)
(* The Cloudflare page and the calls it makes: batches over records, the   *)
(* settings and the cache of a zone, Page Rules, and Redirect Rules, which *)
(* are saved by reading the zone's ruleset and putting all of it back.     *)
(*                                                                         *)
(* What was selected and what is being edited stays when another zone is   *)
(* chosen, a tab forgets it when it is left.  The zone itself is replaced  *)
(* by the first of the list when it is no longer in the list, be it while  *)
(* a dialog is open.  What a record says and whose it is are DnsRecords'.  *)
(***************************************************************************)
EXTENDS PageCalls, FiniteSets, Naturals

CONSTANTS Tabs,         \* some of "zones", "dns", "settings", "rules", "redirects"
          Zones,
          Records,      \* record ids,
          Home,         \* the zone of each,
          Addresses,    \* and those that are address records
          RuleIds,
          Literal,      \* destinations that are an address, not an expression
          MaxSending,     \* bound on calls under way when the user makes another
          MaxElsewhere  \* bound on changes made at Cloudflare by others

ASSUME IdsAreDistinct ==
  Zones \cap Records = {} /\ Zones \cap RuleIds = {} /\ Records \cap RuleIds = {}

VARIABLES zoneId, listed,   \* the zone on show, and the zones the page knows
          tab, lines,       \* the open tab, and what it lists
          chosen, editing, draft, \* of the open tab
          asking,
          sent,
          zones, records,   \* at Cloudflare: zones, records,
          pageRules, redirects, \* and each zone's rules
          unused,           \* ids Cloudflare has not given yet
          elsewhere,
          reported          \* the call whose success was just reported

tabVars == <<chosen, editing, draft>>
consolePageVars == <<zoneId, listed, tab, lines, tabVars, asking>>
cloudflareVars == <<zones, records, pageRules, redirects, unused>>
consoleVars == <<consolePageVars, sent, cloudflareVars, elsewhere, reported>>

Expression == "expression"
NoDestination == ""
Rule(id, destination) == [id |-> id, destination |-> destination]
IdsOf(rules) == {rule.id : rule \in rules}
DestinationsOf(rules) == {rule.destination : rule \in rules}

\* The page's form of a rule has no place for an expression.
Rewritten(rule) == IF rule.destination \in Literal THEN rule ELSE Rule(rule.id, NoDestination)

------------------------------------------------------------------------------
(* The zone on show.                                                         *)

\* The effect on the list of zones: its first one replaces a zone that is not in it.
Settled(z, list) ==
  IF z \in list THEN {z} ELSE IF list = {} THEN {None} ELSE list

ShowZone(z) == zoneId' = z /\ lines' = IF z = zoneId THEN lines ELSE {}

SelectZone(z) ==
  /\ asking = None /\ z \in listed
  /\ ShowZone(z) /\ reported' = None
  /\ UNCHANGED <<listed, tab, tabVars, asking, sent, cloudflareVars, elsewhere>>

\* The list is read again after a change, when the window is looked at, and when the
\* scheduler has found that something changed.
ZonesRead ==
  /\ listed' = zones
  /\ \E z \in Settled(zoneId, zones) : ShowZone(z)
  /\ reported' = None
  /\ UNCHANGED <<tab, tabVars, asking, sent, cloudflareVars, elsewhere>>

\* A tab that is left is unmounted: its calls go on and change nothing in the page.
OpenTab(t) ==
  /\ asking = None /\ t # tab
  /\ tab' = t /\ lines' = {} /\ chosen' = {} /\ editing' = None
  /\ draft' = CHOOSE d \in Literal : TRUE
  /\ sent' = {[c EXCEPT !.mine = FALSE] : c \in sent}
  /\ reported' = None
  /\ UNCHANGED <<zoneId, listed, asking, cloudflareVars, elsewhere>>

TabRead ==
  /\ zoneId \in zones
  /\ lines' = CASE tab = "dns" -> {r \in records : Home[r] = zoneId}
                [] tab = "rules" -> pageRules[zoneId]
                [] tab = "redirects" -> {Rewritten(rule) : rule \in redirects[zoneId]}
                [] OTHER -> {}
  /\ reported' = None
  /\ UNCHANGED <<zoneId, listed, tab, tabVars, asking, sent, cloudflareVars, elsewhere>>

------------------------------------------------------------------------------
(* What the user does.  A button either sends a call or asks first; the call *)
(* is of the zone on show when it is sent.                                   *)

TabAtHand == asking = None /\ zoneId # None /\ Cardinality(sent) < MaxSending
Sending(kinds) == \E c \in sent : c.mine /\ c.kind \in kinds

Request(kind, ids) == [kind |-> kind, zone |-> zoneId, ids |-> ids, draft |-> draft]
CallFor(request) ==
  [kind |-> request.kind, as |-> request, zone |-> zoneId, stage |-> "sent",
   todo |-> {}, loaded |-> {}, mine |-> TRUE]

SendCall(kind, ids) ==
  /\ TabAtHand
  /\ sent' = sent \cup {CallFor(Request(kind, ids))} /\ reported' = None
  /\ UNCHANGED <<consolePageVars, cloudflareVars, elsewhere>>

AskFirst(kind, ids) ==
  /\ TabAtHand
  /\ asking' = Request(kind, ids) /\ reported' = None
  /\ UNCHANGED <<zoneId, listed, tab, lines, tabVars, sent, cloudflareVars, elsewhere>>

ConfirmDialog ==
  /\ asking # None
  /\ sent' = sent \cup {CallFor(asking)} /\ asking' = None /\ reported' = None
  /\ UNCHANGED <<zoneId, listed, tab, lines, tabVars, cloudflareVars, elsewhere>>

DeclineDialog ==
  /\ asking # None
  /\ asking' = None /\ reported' = None
  /\ UNCHANGED <<zoneId, listed, tab, lines, tabVars, sent, cloudflareVars, elsewhere>>

Fill(ids, id, value) ==
  /\ asking = None /\ zoneId # None
  /\ chosen' = ids /\ editing' = id /\ draft' = value /\ reported' = None
  /\ UNCHANGED <<zoneId, listed, tab, lines, asking, sent, cloudflareVars, elsewhere>>

\* The tab Zones.
AddZone == tab = "zones" /\ ~Sending({"createZone"}) /\ SendCall("createZone", {})
RemoveZone(z) == tab = "zones" /\ z \in listed /\ AskFirst("deleteZone", {z})

\* The tab DNS.
Toggle(r) ==
  /\ tab = "dns" /\ r \in lines
  /\ Fill(IF r \in chosen THEN chosen \ {r} ELSE chosen \cup {r}, editing, draft)
ToggleAll(all) == tab = "dns" /\ Fill(IF all THEN lines ELSE {}, editing, draft)
ProxyOrTtl == tab = "dns" /\ chosen # {} /\ SendCall("update", chosen)
Repoint ==
  LET ids == chosen \cap lines \cap Addresses
  IN tab = "dns" /\ ids # {} /\ ~Sending({"update", "delete"}) /\ AskFirst("update", ids)
DeleteSelected == tab = "dns" /\ chosen # {} /\ AskFirst("delete", chosen)
DeleteRecord(r) == tab = "dns" /\ r \in lines /\ AskFirst("deleteRecord", {r})
EditRecord(r) == tab = "dns" /\ r \in lines /\ Fill(chosen, r, draft)
StopEditing == tab \in {"dns", "redirects"} /\ editing # None /\ Fill(chosen, None, draft)
SaveRecord ==
  /\ tab = "dns" /\ ~Sending({"saveRecord"})
  /\ SendCall("saveRecord", IF editing = None THEN {} ELSE {editing})

\* The tab SSL & Cache.
ChangeSetting == tab = "settings" /\ AskFirst("setting", {})
Purge == tab = "settings" /\ ~Sending({"purge"}) /\ AskFirst("purge", {})

\* The tabs of rules.
EditPageRule(id) == tab = "rules" /\ id \in lines /\ Fill({}, id, draft)
SavePageRule ==
  /\ tab = "rules" /\ ~Sending({"savePageRule"})
  /\ SendCall("savePageRule", IF editing = None THEN {} ELSE {editing})
DeletePageRule(id) == tab = "rules" /\ id \in lines /\ AskFirst("deletePageRule", {id})

EditRedirect(rule) ==
  tab = "redirects" /\ rule \in lines /\ Fill({}, rule.id, rule.destination)
TypeDestination(d) == tab = "redirects" /\ d # draft /\ Fill({}, editing, d)
SaveRedirect ==
  /\ tab = "redirects" /\ draft # NoDestination /\ ~Sending({"saveRedirect"})
  /\ SendCall("saveRedirect", IF editing = None THEN {} ELSE {editing})
DeleteRedirect(rule) ==
  tab = "redirects" /\ rule \in lines /\ AskFirst("deleteRedirect", {rule.id})

------------------------------------------------------------------------------
(* The main process and Cloudflare.                                          *)

Proceed(c, next) == sent' = (sent \ {c}) \cup {next} /\ reported' = None

\* A request that fails, or that Cloudflare refuses, ends the call.
RequestFails(c) ==
  /\ sent' = sent \ {c} /\ reported' = None
  /\ UNCHANGED <<consolePageVars, cloudflareVars, elsewhere>>

\* A success: what the tab had selected or was editing is forgotten.
Succeed(c) ==
  /\ sent' = sent \ {c} /\ reported' = c
  /\ chosen' = IF c.mine /\ c.kind \in {"update", "delete"} THEN {} ELSE chosen
  /\ editing' = IF c.mine /\ c.kind \in {"saveRecord", "savePageRule", "saveRedirect"}
                THEN None ELSE editing
  /\ UNCHANGED <<listed, tab, draft, asking, elsewhere>>

InZone(c, ids) == c.zone \in zones /\ ids \subseteq {r \in records : Home[r] = c.zone}

\* Variant: the records that are not in the zone are passed over.
BatchListedLeniently(c) ==
  /\ c.kind \in {"update", "delete"} /\ c.stage = "sent" /\ c.zone \in zones
  /\ Proceed(c, [c EXCEPT !.stage = "changing",
                          !.todo = {r \in c.as.ids \cap records : Home[r] = c.zone}])
  /\ UNCHANGED <<consolePageVars, cloudflareVars, elsewhere>>

\* Every record must be in the zone before the first one is changed.
BatchListed(c) ==
  /\ c.kind \in {"update", "delete"} /\ c.stage = "sent" /\ InZone(c, c.as.ids)
  /\ Proceed(c, [c EXCEPT !.stage = "changing", !.todo = c.as.ids])
  /\ UNCHANGED <<consolePageVars, cloudflareVars, elsewhere>>

\* One record after the other; one that is gone by then ends the batch where it is.
BatchChanges(c, r) ==
  /\ c.stage = "changing" /\ r \in c.todo /\ InZone(c, {r})
  /\ records' = IF c.kind = "delete" THEN records \ {r} ELSE records
  /\ Proceed(c, [c EXCEPT !.todo = @ \ {r}])
  /\ UNCHANGED <<consolePageVars, zones, pageRules, redirects, unused, elsewhere>>

BatchEnds(c) ==
  /\ c.stage = "changing" /\ c.todo = {}
  /\ Succeed(c)
  /\ UNCHANGED <<zoneId, lines, cloudflareVars>>

RecordDeleted(c) ==
  /\ c.kind = "deleteRecord" /\ InZone(c, c.as.ids)
  /\ records' = records \ c.as.ids
  /\ Succeed(c)
  /\ UNCHANGED <<zoneId, lines, zones, pageRules, redirects, unused>>

RecordSaved(c) ==
  /\ c.kind = "saveRecord" /\ InZone(c, c.as.ids)
  /\ IF c.as.ids # {} THEN UNCHANGED <<records, unused>>
     ELSE \E r \in unused \cap Records :
            Home[r] = c.zone /\ records' = records \cup {r} /\ unused' = unused \ {r}
  /\ Succeed(c)
  /\ UNCHANGED <<zoneId, lines, zones, pageRules, redirects>>

\* The page shows the zone it has added, until the effect finds it is not in the list.
ZoneCreated(c) ==
  /\ c.kind = "createZone"
  /\ \E z \in unused \cap Zones :
       /\ zones' = zones \cup {z} /\ unused' = unused \ {z}
       /\ \E after \in Settled(z, listed) : ShowZone(after)
  /\ Succeed(c)
  /\ UNCHANGED <<records, pageRules, redirects>>

Without(gone) ==
  /\ zones' = zones \ gone
  /\ records' = {r \in records : Home[r] \notin gone}
  /\ pageRules' = [z \in Zones |-> IF z \in gone THEN {} ELSE pageRules[z]]
  /\ redirects' = [z \in Zones |-> IF z \in gone THEN {} ELSE redirects[z]]
  /\ UNCHANGED unused

ZoneDeleted(c) ==
  /\ c.kind = "deleteZone" /\ c.as.ids \subseteq zones
  /\ Without(c.as.ids)
  /\ Succeed(c)
  /\ UNCHANGED <<zoneId, lines>>

\* A setting is changed, or the cache emptied.
Configured(c) ==
  /\ c.kind \in {"setting", "purge"} /\ c.zone \in zones
  /\ Succeed(c)
  /\ UNCHANGED <<zoneId, lines, cloudflareVars>>

PageRuleSaved(c) ==
  /\ c.kind = "savePageRule" /\ c.zone \in zones /\ c.as.ids \subseteq pageRules[c.zone]
  /\ IF c.as.ids # {} THEN UNCHANGED <<pageRules, unused>>
     ELSE \E id \in unused \cap RuleIds :
            /\ pageRules' = [pageRules EXCEPT ![c.zone] = @ \cup {id}]
            /\ unused' = unused \ {id}
  /\ Succeed(c)
  /\ UNCHANGED <<zoneId, lines, zones, records, redirects>>

PageRuleDeleted(c) ==
  /\ c.kind = "deletePageRule" /\ c.zone \in zones /\ c.as.ids \subseteq pageRules[c.zone]
  /\ pageRules' = [pageRules EXCEPT ![c.zone] = @ \ c.as.ids]
  /\ Succeed(c)
  /\ UNCHANGED <<zoneId, lines, zones, records, redirects, unused>>

------------------------------------------------------------------------------
(* Redirect Rules.                                                           *)

RulesetLoaded(c) ==
  /\ c.kind \in {"saveRedirect", "deleteRedirect"} /\ c.stage = "sent" /\ c.zone \in zones
  /\ Proceed(c, [c EXCEPT !.stage = "loaded", !.loaded = redirects[c.zone]])
  /\ UNCHANGED <<consolePageVars, cloudflareVars, elsewhere>>

\* The rules that a save or a deletion puts back.
Replacement(c, id) ==
  CASE c.kind = "deleteRedirect" ->
         {Rewritten(rule) : rule \in {x \in c.loaded : x.id \notin c.as.ids}}
    [] c.kind = "saveRedirect" /\ c.as.ids # {} ->
         {IF rule.id \in c.as.ids THEN Rule(rule.id, c.as.draft) ELSE Rewritten(rule)
            : rule \in c.loaded}
    [] OTHER -> {Rewritten(rule) : rule \in c.loaded} \cup {Rule(id, c.as.draft)}

\* The whole ruleset is replaced by what was made of the one that was read; the answer
\* is searched for the rule.
RulesetPut(c, id) ==
  /\ c.stage = "loaded" /\ c.zone \in zones
  /\ redirects' = [redirects EXCEPT ![c.zone] = Replacement(c, id)]
  /\ unused' = unused \ IdsOf(Replacement(c, id))
  /\ IF c.kind = "saveRedirect" /\ c.as.draft \notin DestinationsOf(Replacement(c, id))
     THEN /\ sent' = sent \ {c} /\ reported' = None
          /\ UNCHANGED <<listed, tab, tabVars, asking, elsewhere>>
     ELSE Succeed(c)
  /\ UNCHANGED <<zoneId, lines, zones, records, pageRules>>

\* The account is also managed elsewhere.
ChangedElsewhere ==
  /\ elsewhere < MaxElsewhere /\ elsewhere' = elsewhere + 1
  /\ \/ \E z \in zones : Without({z})
     \/ \E r \in records : records' = records \ {r}
                           /\ UNCHANGED <<zones, pageRules, redirects, unused>>
     \/ \E z \in zones : \E rule \in redirects[z] :
          /\ redirects' = [redirects EXCEPT ![z] = @ \ {rule}]
          /\ UNCHANGED <<zones, records, pageRules, unused>>
     \/ \E z \in zones : \E id \in pageRules[z] :
          /\ pageRules' = [pageRules EXCEPT ![z] = @ \ {id}]
          /\ UNCHANGED <<zones, records, redirects, unused>>
  /\ reported' = None
  /\ UNCHANGED <<consolePageVars, sent>>

------------------------------------------------------------------------------

ConsoleInit(zone, some, rules, expressions) ==
  /\ zones = zone /\ records = some
  /\ pageRules = [z \in Zones |-> rules[z]]
  /\ redirects = [z \in Zones |-> expressions[z]]
  /\ unused = (Zones \ zone) \cup (Records \ some) \cup
              (RuleIds \ UNION {pageRules[z] \cup IdsOf(redirects[z]) : z \in Zones})
  /\ listed = {} /\ zoneId = None /\ tab \in Tabs /\ lines = {}
  /\ chosen = {} /\ editing = None /\ draft = CHOOSE d \in Literal : TRUE
  /\ asking = None /\ sent = {} /\ elsewhere = 0 /\ reported = None

ConsoleNext ==
  \/ ZonesRead \/ TabRead \/ ConfirmDialog \/ DeclineDialog \/ AddZone \/ ChangedElsewhere
  \/ ProxyOrTtl \/ Repoint \/ DeleteSelected \/ StopEditing \/ SaveRecord
  \/ ChangeSetting \/ Purge \/ SavePageRule \/ SaveRedirect
  \/ \E z \in Zones : SelectZone(z) \/ RemoveZone(z)
  \/ \E t \in Tabs : OpenTab(t)
  \/ \E all \in BOOLEAN : ToggleAll(all)
  \/ \E r \in Records : Toggle(r) \/ DeleteRecord(r) \/ EditRecord(r)
  \/ \E id \in RuleIds : EditPageRule(id) \/ DeletePageRule(id)
  \/ \E rule \in lines : EditRedirect(rule) \/ DeleteRedirect(rule)
  \/ \E d \in Literal : TypeDestination(d)
  \/ \E c \in sent :
       \/ RequestFails(c) \/ BatchListed(c) \/ BatchEnds(c) \/ RecordDeleted(c) \/ RecordSaved(c)
       \/ ZoneCreated(c) \/ ZoneDeleted(c) \/ Configured(c)
       \/ PageRuleSaved(c) \/ PageRuleDeleted(c) \/ RulesetLoaded(c)
       \/ \E r \in c.todo : BatchChanges(c, r)
       \/ \E id \in IF c.kind = "saveRedirect" /\ c.as.ids = {} THEN unused \cap RuleIds
                                                              ELSE {None} : RulesetPut(c, id)

\* What Cloudflare may have at first: a zone that does not exist has nothing, and a rule
\* is of one zone.
ConsoleStart ==
  \E zone \in SUBSET Zones, some \in SUBSET Records, rules \in [Zones -> SUBSET RuleIds],
     expressions \in [Zones -> SUBSET {Rule(id, d) : id \in RuleIds,
                                                   d \in Literal \cup {Expression}}] :
    /\ \A r \in some : Home[r] \in zone
    /\ \A z \in Zones \ zone : rules[z] = {} /\ expressions[z] = {}
    /\ \A y, z \in Zones : y # z => IdsOf(expressions[y]) \cap IdsOf(expressions[z]) = {}
    /\ ConsoleInit(zone, some, rules, expressions)

ConsoleSpec == ConsoleStart /\ [][ConsoleNext]_consoleVars

------------------------------------------------------------------------------
(* Properties.                                                               *)

Reported(kinds) == reported # None /\ reported.kind \in kinds

\* A batch that is reported did all that its dialog announced, although the selection
\* outlives the zone it was made in and the records may be gone: "Delete selected" with
\* a count is every one of them or an error.
BatchIsComplete == Reported({"delete"}) => reported.as.ids \cap records = {}

\* "Redirect Rule saved" is said only of a rule the zone's ruleset has, although the id
\* being edited may be of another zone or gone; and what is said to be deleted is gone.
SavedIsThere ==
  /\ Reported({"saveRedirect"}) =>
       reported.as.draft \in DestinationsOf(redirects[reported.zone])
  /\ Reported({"deleteRedirect"}) =>
       \A z \in Zones : reported.as.ids \cap IdsOf(redirects[z]) = {}

\* A setting, or an emptied cache, confirmed for one zone is another zone's only if the
\* first one does not exist any more.
ConfirmedZone ==
  Reported({"setting", "purge"}) =>
    reported.zone = reported.as.zone \/ reported.as.zone \notin zones

ReportedIsDone == BatchIsComplete /\ SavedIsThere /\ ConfirmedZone
==============================================================================
