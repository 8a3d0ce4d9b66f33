--------------------------- MODULE VpsPreflight ---------------------------
(***************************************************************************)
(* What a preflight makes of a host, and what preparing it changes.        *)
(*                                                                         *)
(* A check is ready, a warning, repairable or blocked.  Checks that only   *)
(* warn are left out, and those that fail and pass together are one: the   *)
(* distribution, the architecture, the privilege, the package manager, the *)
(* shell, the disk and the memory of a host are whether it is sound, and   *)
(* whether a profile fits is its service manager, its memory and the       *)
(* packages it conflicts with.                                             *)
(***************************************************************************)
CONSTANTS Profiles,
          Listening,   \* profiles with a port of the host
          Fetched      \* profiles installed from a repository of their own

ASSUME ProfilesListen == Listening \subseteq Profiles

None == "none"

Hosts ==
  [sound : BOOLEAN, locked : BOOLEAN, dns : BOOLEAN, egress : BOOLEAN, curl : BOOLEAN,
   offered : BOOLEAN,               \* the distribution has a Python that is new enough
   python : BOOLEAN, ansible : BOOLEAN, ss : BOOLEAN,
   fits : SUBSET Profiles, taken : SUBSET Profiles, \* whose port another process has
   services : SUBSET Profiles]

\* Installing anything needs all of these.
Installable(host) == host.sound /\ ~host.locked /\ host.dns /\ host.egress

------------------------------------------------------------------------------
(* The report.                                                               *)

Held(holds) == IF holds THEN "ready" ELSE "blocked"
Provided(holds) == IF holds THEN "ready" ELSE "repairable"
\* Whether a server is reachable cannot be said without curl.
Reachable(host, holds) == IF host.curl THEN Held(holds) ELSE "repairable"

GeneralChecks(host) ==
  {Held(host.sound), Held(~host.locked), Held(host.dns),
   Provided(host.python), Provided(host.ansible), Reachable(host, host.egress)}

\* A port that is not free may be the profile's own.
PortCheck(host, profile) ==
  IF ~host.ss THEN "repairable" ELSE Held(profile \notin host.taken)

ProfileChecks(host, profile) ==
  {Held(profile \in host.fits)}
    \cup (IF profile \in Fetched THEN {Reachable(host, host.dns /\ host.egress)} ELSE {})
    \cup (IF profile \in Listening THEN {PortCheck(host, profile)} ELSE {})

Checks(host, profile) ==
  GeneralChecks(host) \cup (IF profile = None THEN {} ELSE ProfileChecks(host, profile))

Report(host, profile) ==
  IF "blocked" \in Checks(host, profile) THEN "blocked"
  ELSE IF "repairable" \in Checks(host, profile) THEN "needs-repair"
  ELSE "ready"

------------------------------------------------------------------------------
(* Preparing the host.                                                       *)

\* The packages, and what there is of Python in the distribution.
WithPackages(host) ==
  [host EXCEPT !.curl = TRUE, !.ss = TRUE, !.python = @ \/ host.offered]

\* The isolated runtime, which the Python must be new enough for.
WithRuntime(host) == [WithPackages(host) EXCEPT !.ansible = TRUE]
==============================================================================
