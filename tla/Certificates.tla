-------------------------- MODULE Certificates --------------------------
(***************************************************************************)
(* The certificates of one target: issuing one (ssl-service.ts issue()),   *)
(* the sweep that renews the managed ones (renewDue()), and the listing    *)
(* that publishes what is on the host.  What they keep of a certificate is *)
(* in five places: its files, the Nginx site, what Nginx has loaded, the   *)
(* managed list in the settings and the runtime plan.                      *)
(*                                                                         *)
(* Every await is a step, but for the second reading of the settings by    *)
(* their update(), which takes everything but the managed list from it.  A *)
(* certificate is the number of the key pair it was issued for, a greater  *)
(* number being a later certificate.                                       *)
(***************************************************************************)
EXTENDS Naturals

CONSTANTS Domains, Issuers,   \* the windows that can issue at the same time
          Listers,            \* the listings that can be under way
          MaxSerial           \* bound on the certificates ever made

Authorities == {"letsencrypt", "cloudflare-origin-ca"}
None == [serial |-> 0, authority |-> "none"]
NoCertificate == [serial |-> 0, status |-> "none", https |-> FALSE, redirect |-> FALSE]
NoSite == [present |-> FALSE, ssl |-> FALSE, redirect |-> FALSE]

VARIABLES files,     \* the certificate files on the host
          due,       \* certificates that end within renewBeforeDays
          loaded,    \* the certificate Nginx serves, 0 if it serves none
          site,      \* the Nginx sites
          managedDomains, \* the list in the settings
          recorded,  \* the certificates in the runtime plan
          issue, sweep, listings,
          serials    \* number of certificates made so far

certificateVars ==
  <<files, due, loaded, site, managedDomains, recorded, issue, sweep, listings, serials>>
calls == <<issue, sweep, listings>>
host == <<files, due, loaded, site, serials>>

NotCalled == [stage |-> "idle"]
Loads(sites) == [d \in Domains |-> IF sites[d].ssl THEN files[d].serial ELSE 0]

------------------------------------------------------------------------------
(* Parts of the steps.                                                       *)

\* NginxService.saveSite(): written, tested and reloaded, or rolled back.
SaveSite(d, new) ==
  /\ site' = [site EXCEPT ![d] = new]
  /\ loaded' = Loads(site')

\* Certbot leaves a certificate that is not due, and refuses the directory of one
\* it did not make.  An Origin CA certificate is always a new one.
Obtain(d, authority) ==
  \/ /\ authority = "letsencrypt" => files[d] = None \/ due[d]
     /\ authority = "letsencrypt" => files[d].authority # "cloudflare-origin-ca"
     /\ serials < MaxSerial /\ serials' = serials + 1
     /\ files' = [files EXCEPT ![d] = [serial |-> serials', authority |-> authority]]
     /\ due' = [due EXCEPT ![d] = FALSE]
  \/ /\ authority = "letsencrypt" /\ files[d].authority = authority /\ ~due[d]
     /\ UNCHANGED <<files, due, serials>>

\* RuntimePlanService.upsertCertificate()
Accept(d, serial, https, redirect) ==
  recorded' = [recorded EXCEPT ![d] =
    [serial |-> serial, status |-> "valid", https |-> https, redirect |-> redirect]]

\* RuntimePlanService.replaceCertificates(): another certificate than the one that
\* was accepted is reported, not accepted; one that is gone is missing.
Observed(d, serial, s) ==
  LET old == recorded[d]
  IN CASE serial = 0 -> IF old = NoCertificate THEN old ELSE [old EXCEPT !.status = "missing"]
       [] serial # 0 /\ old.serial \notin {0, serial} ->
            [serial |-> old.serial, status |-> "changed", https |-> s.ssl, redirect |-> s.redirect]
       [] OTHER ->
            [serial |-> serial, status |-> "valid", https |-> s.ssl, redirect |-> s.redirect]

------------------------------------------------------------------------------
(* issue()                                                                   *)

IssueAt(i, stage) == issue[i].stage = stage
IssueGoes(i, stage) == issue' = [issue EXCEPT ![i].stage = stage]
IssueFails(i) ==
  /\ issue[i].stage # "idle"
  /\ issue' = [issue EXCEPT ![i] = NotCalled]
  /\ UNCHANGED <<host, managedDomains, recorded, sweep, listings>>

\* The DNS record points here and the site was found, as it is now.
Issue(i, d, authority) ==
  /\ IssueAt(i, "idle") /\ site[d].present
  /\ issue' = [issue EXCEPT ![i] =
       [stage |-> IF authority = "letsencrypt" THEN "challenge" ELSE "obtain",
        domain |-> d, authority |-> authority, site |-> site[d], serial |-> 0,
        managed |-> {}]]
  /\ UNCHANGED <<host, managedDomains, recorded, sweep, listings>>

PrepareChallenge(i) ==
  /\ IssueAt(i, "challenge")
  /\ SaveSite(issue[i].domain, issue[i].site)
  /\ IssueGoes(i, "obtain")
  /\ UNCHANGED <<files, due, serials, managedDomains, recorded, sweep, listings>>

ObtainIssued(i) ==
  LET c == issue[i]
  IN /\ IssueAt(i, "obtain")
     /\ Obtain(c.domain, c.authority)
     /\ issue' = [issue EXCEPT ![i].serial = files'[c.domain].serial,
                   ![i].stage = IF c.authority = "letsencrypt" THEN "managed" ELSE "apply"]
     /\ UNCHANGED <<loaded, site, managedDomains, recorded, sweep, listings>>

ReadManaged(i) ==
  /\ IssueAt(i, "managed")
  /\ issue' = [issue EXCEPT ![i].managed = managedDomains \cup {issue[i].domain},
                            ![i].stage = "settings"]
  /\ UNCHANGED <<host, managedDomains, recorded, sweep, listings>>

\* A failure to write is not reported.
WriteManaged(i) ==
  /\ IssueAt(i, "settings")
  /\ managedDomains' \in {managedDomains, issue[i].managed}
  /\ IssueGoes(i, "apply")
  /\ UNCHANGED <<host, recorded, sweep, listings>>

\* The site as it was found, with TLS.
ApplyCertificate(i, redirect) ==
  /\ IssueAt(i, "apply")
  /\ SaveSite(issue[i].domain, [present |-> TRUE, ssl |-> TRUE, redirect |-> redirect])
  /\ issue' = [issue EXCEPT ![i].stage = "record", ![i].site.redirect = redirect]
  /\ UNCHANGED <<files, due, serials, managedDomains, recorded, sweep, listings>>

RecordIssued(i) ==
  LET c == issue[i]
  IN /\ IssueAt(i, "record")
     /\ Accept(c.domain, c.serial, TRUE, c.site.redirect)
     /\ issue' = [issue EXCEPT ![i] = NotCalled]
     /\ UNCHANGED <<host, managedDomains, sweep, listings>>

------------------------------------------------------------------------------
(* renewDue()                                                                *)

SweepAt(stage) == sweep.stage = stage

StartSweep ==
  /\ SweepAt("idle") /\ managedDomains # {}
  /\ sweep' = [stage |-> "next", left |-> managedDomains]
  /\ UNCHANGED <<host, managedDomains, recorded, issue, listings>>

\* A certificate that could not be listed is renewed.
NextManaged(d) ==
  /\ SweepAt("next") /\ d \in sweep.left
  /\ \/ sweep' = [stage |-> "renew", left |-> sweep.left \ {d}, domain |-> d]
     \/ ~due[d] /\ files[d] # None /\ sweep' = [sweep EXCEPT !.left = @ \ {d}]
  /\ UNCHANGED <<host, managedDomains, recorded, issue, listings>>

EndSweep ==
  /\ SweepAt("next") /\ sweep.left = {}
  /\ sweep' = NotCalled
  /\ UNCHANGED <<host, managedDomains, recorded, issue, listings>>

\* The target cannot be resolved, or the renewal fails.
NotRenewed ==
  /\ SweepAt("renew")
  /\ sweep' = [stage |-> "next", left |-> sweep.left]
  /\ UNCHANGED <<host, managedDomains, recorded, issue, listings>>

Renew ==
  /\ SweepAt("renew")
  /\ Obtain(sweep.domain, "letsencrypt")
  /\ sweep' = [stage |-> "reload", left |-> sweep.left, domain |-> sweep.domain,
               serial |-> files'[sweep.domain].serial]
  /\ UNCHANGED <<loaded, site, managedDomains, recorded, issue, listings>>

\* Variant: the certificate is recorded whether Nginx has taken it or not.
ReloadRenewedUnchecked ==
  /\ SweepAt("reload")
  /\ loaded' \in {loaded, Loads(site)}
  /\ sweep' = [stage |-> "sync", left |-> sweep.left, domain |-> sweep.domain,
               serial |-> sweep.serial, site |-> site[sweep.domain]]
  /\ UNCHANGED <<files, due, site, serials, managedDomains, recorded, issue, listings>>

\* Nginx did not reload: what was last accepted stays recorded.  The site may then be
\* impossible to read, and is taken to redirect nothing.
ReloadRenewed ==
  /\ SweepAt("reload")
  /\ \/ loaded' = loaded /\ sweep' = [stage |-> "next", left |-> sweep.left]
     \/ /\ loaded' = Loads(site)
        /\ \E read \in {site[sweep.domain], [present |-> FALSE, ssl |-> TRUE, redirect |-> FALSE]} :
             sweep' = [stage |-> "sync", left |-> sweep.left, domain |-> sweep.domain,
                       serial |-> sweep.serial, site |-> read]
  /\ UNCHANGED <<files, due, site, serials, managedDomains, recorded, issue, listings>>

RecordRenewed ==
  /\ SweepAt("sync")
  /\ Accept(sweep.domain, sweep.serial, sweep.site.ssl, sweep.site.redirect)
  /\ sweep' = [stage |-> "next", left |-> sweep.left]
  /\ UNCHANGED <<host, managedDomains, issue, listings>>

------------------------------------------------------------------------------
(* list(), and the rest of the world.                                        *)

List(l) ==
  /\ listings[l].stage = "idle"
  /\ listings' = [listings EXCEPT ![l] =
       [stage |-> "sites", found |-> [d \in Domains |-> files[d].serial]]]
  /\ UNCHANGED <<host, managedDomains, recorded, issue, sweep>>

\* Without the sites nothing is published.
ReadSites(l) ==
  /\ listings[l].stage = "sites"
  /\ listings' = [listings EXCEPT ![l] =
       [stage |-> "publish", found |-> listings[l].found, site |-> site]]
  /\ UNCHANGED <<host, managedDomains, recorded, issue, sweep>>

SitesUnread(l) ==
  /\ listings[l].stage = "sites"
  /\ listings' = [listings EXCEPT ![l] = NotCalled]
  /\ UNCHANGED <<host, managedDomains, recorded, issue, sweep>>

Publish(l) ==
  /\ listings[l].stage = "publish"
  /\ recorded' = [d \in Domains |-> Observed(d, listings[l].found[d], listings[l].site[d])]
  /\ listings' = [listings EXCEPT ![l] = NotCalled]
  /\ UNCHANGED <<host, managedDomains, issue, sweep>>

BecomesDue(d) ==
  /\ files[d].authority = "letsencrypt"
  /\ due' = [due EXCEPT ![d] = TRUE]
  /\ UNCHANGED <<files, loaded, site, serials, managedDomains, recorded, calls>>

\* A timer of the host renews a certificate, and may not tell Nginx.
RenewedElsewhere(d) ==
  /\ due[d] /\ Obtain(d, "letsencrypt")
  /\ UNCHANGED <<loaded, site, managedDomains, recorded, calls>>

------------------------------------------------------------------------------

CertificatesInit ==
  /\ files = [d \in Domains |-> None] /\ due = [d \in Domains |-> FALSE]
  /\ site = [d \in Domains |-> [NoSite EXCEPT !.present = TRUE]]
  /\ loaded = [d \in Domains |-> 0]
  /\ managedDomains = {}
  /\ recorded = [d \in Domains |-> NoCertificate]
  /\ issue = [i \in Issuers |-> NotCalled] /\ sweep = NotCalled
  /\ listings = [l \in Listers |-> NotCalled]
  /\ serials = 0

CertificatesNext ==
  \/ \E i \in Issuers :
       \/ \E d \in Domains, authority \in Authorities : Issue(i, d, authority)
       \/ PrepareChallenge(i) \/ ObtainIssued(i) \/ ReadManaged(i)
       \/ WriteManaged(i) \/ RecordIssued(i) \/ IssueFails(i)
       \/ \E redirect \in BOOLEAN : ApplyCertificate(i, redirect)
  \/ StartSweep \/ EndSweep \/ NotRenewed \/ Renew \/ ReloadRenewed \/ RecordRenewed
  \/ \E d \in Domains : NextManaged(d) \/ BecomesDue(d) \/ RenewedElsewhere(d)
  \/ \E l \in Listers : List(l) \/ ReadSites(l) \/ SitesUnread(l) \/ Publish(l)

CertificatesSpec == CertificatesInit /\ [][CertificatesNext]_certificateVars

------------------------------------------------------------------------------
(* Properties.                                                               *)

\* Once a certificate of a domain was accepted into the runtime plan, another one
\* takes its place only when Nginx serves it, or a later one, or serves the domain
\* without TLS: a renewal that Nginx has not loaded, or one made by somebody else,
\* is reported and never recorded as the certificate of the domain.
AcceptedIsServed ==
  [][\A d \in Domains :
       recorded[d].serial # 0 /\ recorded'[d].serial # recorded[d].serial
       => loaded[d] = 0 \/ loaded[d] >= recorded'[d].serial]_certificateVars
==============================================================================
