--------------------------- MODULE NginxSites ---------------------------
(***************************************************************************)
(* The sites of one host's Nginx: the transaction with which the Nginx     *)
(* manager writes, tests, rolls back and reloads (ssh-nginx-manager.ts),   *)
(* the writes of the Ansible page, which roll back their own file, and the *)
(* reading back of sites by the features that change a part of one.  The   *)
(* file on the host is the only record of a site.                          *)
(*                                                                         *)
(* Each command of a script is a step.  Of a site its upstream is modelled *)
(* and whether its extra route upgrades to WebSocket; whether Nginx        *)
(* accepts an upstream is the host's business.  Files of the time before   *)
(* both writers used one name, and the main configuration, are left out.   *)
(***************************************************************************)
EXTENDS Naturals, FiniteSets

CONSTANTS Domains,
          SiteUpstreams,  \* what a site can proxy to
          BadUpstreams,   \* the upstreams with which `nginx -t` fails
          Callers,        \* scripts that can run on the host at the same time
          MaxBackups      \* bound on the archives kept on the host

NoSite == [upstream |-> "none", socket |-> FALSE]
Sites == [upstream : SiteUpstreams, socket : BOOLEAN]

VARIABLES siteFiles,  \* the .conf file of each domain
          off,        \* its .conf.disabled file
          served,     \* the configuration Nginx has loaded
          archives,   \* the backups on the host
          script      \* where each call is

nginxVars == <<siteFiles, off, served, archives, script>>

Etc == [live |-> siteFiles, off |-> off]
NoFiles == [d \in Domains |-> NoSite]
NoArchive == [live |-> NoFiles, off |-> NoFiles]
NoScript == [op |-> "none", stage |-> "idle", domain |-> "none", site |-> NoSite,
             enabled |-> TRUE, archive |-> NoArchive]

AtStage(c, stage) == script[c].stage = stage
Goto(c, stage) == script' = [script EXCEPT ![c].stage = stage]
Exit(c) == script' = [script EXCEPT ![c] = NoScript]

Valid(files) == \A d \in Domains : files[d] # NoSite => files[d].upstream \notin BadUpstreams

------------------------------------------------------------------------------
(* Reading back.                                                             *)

\* decodeManagedNginxSite(): locationList() reads a route's path, upstream and
\* directives, and nothing else.
Decoded(site) == [site EXCEPT !.socket = FALSE]

\* What a listing has for a domain, whose two files may both be there.
ListedSites(d) == {Decoded(site) : site \in {siteFiles[d], off[d]} \ {NoSite}}

------------------------------------------------------------------------------
(* Calls.                                                                    *)

Call(c, op, d, site, enabled) ==
  /\ AtStage(c, "idle")
  /\ script' = [script EXCEPT ![c] =
       [op |-> op, stage |-> "archive", domain |-> d, site |-> site,
        enabled |-> enabled, archive |-> NoArchive]]
  /\ UNCHANGED <<siteFiles, off, served, archives>>

\* The site editor knows the whole site.
SaveSite(c, d, site, enabled) == Call(c, "save", d, site, enabled)

\* SSL changes the certificate of the site it finds, enabled or not.
IssueCertificate(c, d) ==
  \/ siteFiles[d] # NoSite /\ Call(c, "issue", d, Decoded(siteFiles[d]), TRUE)
  \/ off[d] # NoSite /\ Call(c, "issue", d, Decoded(off[d]), FALSE)

\* The Ansible page changes the route of the site it finds, and enables it.
AnsibleUpsert(c, d, upstream) ==
  IF ListedSites(d) = {}
  THEN Call(c, "ansible", d, [upstream |-> upstream, socket |-> FALSE], TRUE)
  ELSE \E site \in ListedSites(d) :
         Call(c, "ansible", d, [site EXCEPT !.upstream = upstream], TRUE)

RemoveSite(c, d) == Call(c, "remove", d, NoSite, TRUE)
AnsibleRemove(c, d) == Call(c, "ansible remove", d, NoSite, TRUE)

\* The backup that is restored takes the place of the archive.
Restore(c, archive) ==
  /\ AtStage(c, "idle")
  /\ script' = [script EXCEPT ![c] =
       [NoScript EXCEPT !.op = "restore", !.stage = "restore", !.archive = archive]]
  /\ UNCHANGED <<siteFiles, off, served, archives>>

ByManager(s) == s.op \in {"save", "issue", "remove"}

Archive(c) ==
  /\ AtStage(c, "archive")
  /\ script' = [script EXCEPT ![c].stage = "write", ![c].archive = Etc]
  /\ archives' = IF ByManager(script[c]) /\ Cardinality(archives) < MaxBackups
                 THEN archives \cup {Etc} ELSE archives
  /\ UNCHANGED <<siteFiles, off, served>>

\* A site that is disabled is written and then renamed; a removal of the manager's
\* removes it under both names.
Write(c) ==
  LET s == script[c]
  IN /\ AtStage(c, "write")
     /\ siteFiles' = [siteFiles EXCEPT ![s.domain] = IF s.enabled THEN s.site ELSE NoSite]
     /\ off' = IF ~s.enabled \/ s.op = "remove"
               THEN [off EXCEPT ![s.domain] = s.site] ELSE off
     /\ Goto(c, "test")
     /\ UNCHANGED <<served, archives>>

Test(c) ==
  /\ AtStage(c, "test")
  /\ Goto(c, IF Valid(siteFiles) THEN "reload" ELSE "roll back")
  /\ UNCHANGED <<siteFiles, off, served, archives>>

\* Variant: the archive is extracted over what is there.
RollBackOver(c) ==
  LET kept(now, old) == [d \in Domains |-> IF old[d] = NoSite THEN now[d] ELSE old[d]]
  IN /\ AtStage(c, "roll back")
     /\ siteFiles' = kept(siteFiles, script[c].archive.live)
     /\ off' = kept(off, script[c].archive.off)
     /\ Exit(c)
     /\ UNCHANGED <<served, archives>>

\* /etc/nginx as it was archived; an upsert of the Ansible page puts its own file
\* back, and its removal nothing.
RollBack(c) ==
  LET s == script[c]
  IN /\ AtStage(c, "roll back")
     /\ IF ByManager(s)
        THEN siteFiles' = s.archive.live /\ off' = s.archive.off
        ELSE /\ siteFiles' = IF s.op = "ansible"
                             THEN [siteFiles EXCEPT ![s.domain] = s.archive.live[s.domain]]
                             ELSE siteFiles
             /\ off' = off
     /\ Exit(c)
     /\ UNCHANGED <<served, archives>>

RestoreFiles(c) ==
  /\ AtStage(c, "restore")
  /\ siteFiles' = script[c].archive.live /\ off' = script[c].archive.off
  /\ Goto(c, "reload")
  /\ UNCHANGED <<served, archives>>

\* reloadScript(): tested once more.  The reload itself may fail, which leaves
\* Nginx with what it had.
ReloadSites(c) ==
  /\ AtStage(c, "reload")
  /\ Exit(c)
  /\ \/ Valid(siteFiles) /\ served' = siteFiles
     \/ served' = served
  /\ UNCHANGED <<siteFiles, off, archives>>

------------------------------------------------------------------------------

NginxInit ==
  /\ siteFiles = NoFiles /\ off = NoFiles /\ served = NoFiles
  /\ archives = {}
  /\ script = [c \in Callers |-> NoScript]

NginxNext ==
  \E c \in Callers :
    \/ Archive(c) \/ Write(c) \/ Test(c) \/ RollBack(c) \/ RestoreFiles(c) \/ ReloadSites(c)
    \/ \E archive \in archives : Restore(c, archive)
    \/ \E d \in Domains :
         \/ RemoveSite(c, d) \/ AnsibleRemove(c, d) \/ IssueCertificate(c, d)
         \/ \E site \in Sites, enabled \in BOOLEAN : SaveSite(c, d, site, enabled)
         \/ \E upstream \in SiteUpstreams : AnsibleUpsert(c, d, upstream)

NginxSpec == NginxInit /\ [][NginxNext]_nginxVars

------------------------------------------------------------------------------
(* Properties.                                                               *)

\* No sequence of saves, edits, removals and restorations, refused by Nginx or not,
\* ends with files that Nginx would refuse to start with, or with backups of such
\* files; and what it serves always passed its test.
HostStaysServable ==
  /\ (\A c \in Callers : AtStage(c, "idle")) => Valid(siteFiles)
  /\ \A archive \in archives : Valid(archive.live)
  /\ Valid(served)
==============================================================================
