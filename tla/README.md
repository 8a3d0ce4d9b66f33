# Verification of the CloudOps desktop workspace

This directory holds TLA+ models of the program in `src/`: a desktop
application (Electron, TypeScript) that manages isolated *projects*, each with
its credentials, cloud servers, SSH targets, DNS records, certificates,
pipelines and deployments. The models are checked with TLC on small instances
and, where it matters most, proved with TLAPS for instances of any size.

The program's difficulty is not in computation but in its awaits. The main
process is one JavaScript thread, but more than a hundred kinds of IPC call, two
schedulers, SSH sessions and database transactions interleave at every `await`,
and a project can be locked, switched or deleted under any of them. A unit test
runs one call at a time; the models run them all.

**Conventions.** An action is what the code does between two awaits. Names are
the source's where TLA+ allows it. `PROJECT.json` maps each definition to its
lines. An operator whose comment starts with "Variant:" is a deliberate bug: no
specification uses it; it replaces the definition it follows to show that the
property aimed at that hazard does notice.

---

## 1. The system

### 1.1 How it is layered

The renderer (React) only issues IPC calls. `apps/desktop/src/main` is the
composition root: it checks every call against the open project, owns the
timers and the window, and wires `packages/core` (services and pure rules) to
`packages/database` (Prisma on SQLite), `packages/deployment` (SSH, Docker,
Nginx, Jenkins, Ansible, certificates), `packages/providers` and
`packages/pulumi` (cloud infrastructure) and `packages/service-providers`
(Cloudflare). Services share four things: the SQLite file, the project context,
the operation registry, and the remote hosts themselves, which other programs
also change.

### 1.2 Components

*State* is what outlives a call; *hard* is what makes it more than a function.

| Component | State | Operations | Interacts with | Hard | Correct when |
|---|---|---|---|---|---|
| Project session (`project-session-service.ts`, `project-context.ts`) | the open lease, the generation, a chain of exclusive operations | unlock, lock, switch, delete, change/remove passkey | registry, terminals, key files, schedulers, project rows | many awaits in one switch; a transition waits behind another whose outcome changes its meaning | one project at a time; leases never revive; a deletion deletes what it closed |
| Operation registry | registered operations, promises awaited | begin, complete, deactivate | every long-running handler | listed before an await, used after it | nothing registered outlives the session |
| IPC boundary (`ipc/registry.ts`, 22 handler files) | none (one registration per scoped call) | scope check, run, complete | all services | registration before or after an await that throws | every call is answered and leaves no registration |
| Schedulers (`container.ts`) | two "running" flags, the cached snapshot | SSL sweep, Cloudflare synchronization, recovery | context, registry, settings | flag tested before an await and set after it | one run at a time; results of a stale session are dropped |
| SSH terminals (manager, service, page) | connections by session id; what the page shows | connect, write, resize, close, closeAll | SSH, the page, session teardown | the id outlives the connection; callbacks of a connection that ended; an open that was given up and completes | only terminals of the open project; the page shows what there is |
| Key files | files on disk | write, remove per project, remove all at start | SSH handlers, session teardown | crash between write and removal | no key file of a closed project |
| Project aggregate, configuration, duplication | project rows | create, update, rename, delete, configure, duplicate | session, infrastructure plan store | load - change - upsert; compensation that overwrites | no lost column, no resurrected row |
| Runtime plan (`runtime-plan-service.ts`, store) | a versioned plan per target; previews, applying set | get, save, setMode, adopt, release, topology and DNS mutations, preview, apply, delete | drift, operations, applier, SSL, Nginx, Jenkins, firewall, DNS | optimistic concurrency over three awaits; approvals that go stale | no lost update, no false conflict, only approved changes run, once |
| Plan rules, drift (`vps-runtime-plan.ts`, `runtime-ownership.ts`, `runtime-drift.ts`) | none | validate, canonicalize, classify ownership, compare | runtime plan | rules that must agree with each other: the report and the operations are computed apart | an owned resource is never somebody else's; what an apply does was reported |
| Runtime operations, applier | Docker on the host | derive an ordered change, run it over SSH | inspector, Docker | stops anywhere; others change the host | order is executable; a retry does the remainder; foreign things survive |
| Runtime inspection | none | read Docker, ports, packages over SSH | drift, preview | parsing; partial answers; several bindings of one port | an unknown is never taken for "absent" |
| Infrastructure service, plan store | preview tokens, saved plan, stack | preview, apply, destroy, outputs | Pulumi, target synchronization | token tested before an await and spent after the apply; three-step destroy | what is applied is what was shown |
| Infrastructure plan, templates | none | validate references, expand | infrastructure service | references between resources | accepted plans build |
| Pulumi engine and programs | Pulumi's own | up, destroy, outputs | infrastructure service | another program's lock and state | (not this program's) |
| Cloud providers (Oracle, AWS) | none | list, test, sign requests | infrastructure, connections | paging, signing | (protocol of others) |
| VPS targets, managed synchronization | target rows, one default | create, update, preflight, remove, reconcile with a stack | runtime plans, SSH | reconcile = remove, look up, create, over many awaits | one target per server |
| Deployments | deployment rows | run, cancel, recover at every opening | SSH, session, registry | a run is three awaits and an SSH connection; the process ends under it; a command outlives its connection | a row says what became of its run |
| SSH transport, key generator | host-key pins | connect, exec, upload | everything remote | timeouts, host-key change | no connection to an unpinned host |
| SSL certificates | managed list inside settings | issue, renew, attach, remove, sweep | settings, runtime plan, Nginx | list read once and walked over many awaits | no certificate is lost from the list |
| Nginx sites | files on the host | archive, write, test, reload, roll back, restore | runtime plan, SSL, Ansible | three writers of one directory, each with its own rollback | files are always such that Nginx starts |
| Jenkins pipelines | pipeline rows, jobs on the server | save, move, status, remove | Jenkins, Nginx, runtime plan, HTTP | four stores written in turn, no compensation | a save that succeeds made all agree; a move loses no job |
| Cloudflare service, DNS automation | cached snapshot | zones, records, set replacement | HTTP, runtime plan | retry of a create that did succeed | no duplicate or missing record |
| Ansible | what it prepared and installed on a host | inspect, prepare, run a profile, restart a service | SSH, VPS targets, runtime plan | a connection is tried again, a command outlives it, a cancel is heard at some awaits only | nothing is begun twice or after a cancel; success is said of what was done |
| Host firewall | rules in force, rules of the next boot | open, close, open what is required, inspect | SSH, runtime plan, the provider's firewall | a script per port over four backends, cut off anywhere | an open port stays open |
| Containers | none | start, stop, logs | SSH | none: one command per call | - |
| Credentials, SSH keys | rows, encrypted | CRUD | cipher, key files | rotation while in use | - |
| Ciphers, hashing, portable backup format | key in the OS keyring | seal, open, hash | credentials, session, backup | cryptography | round trip |
| Provider connections | rows | probe, save | providers | row written after a slow probe | - |
| Database bootstrap, ownership migration | schema, rows | create, upgrade, give rows to projects | start-up | statements are committed one by one | no row lost or shared |
| Snapshot and backup | a file; rows and files | export, import, restore, roll back | session, database, key files | three stores replaced in turn | all old or all new |
| Settings | key/value rows | get, update | SSL, schedulers | read - merge - write without a version | no lost setting |
| Activity, templates, plugins | rows | append, list, save | all services | none | - |
| Update manager, window, logger, diagnostics | Electron's | check, download, log | renderer | none of our own | - |
| Renderer: gate, project page, query cache | the open project, cached data | unlock, lock, read, change | the main process, by calls and answers in two queues | requests name no project; the caches outlive a page | one project is seen and changed |
| Renderer: Ansible, VPS runtime, Infrastructure, Cloudflare pages | forms, selections, previews, dialogs, pending calls | inspect, preview, confirm, apply, batches | the services above | answers of earlier calls arrive in a page that shows something else | what is confirmed is what was shown, and what is reported was done |
| Renderer: other pages, shared, UI | view state | issue calls | IPC | calls in any order | (environment of the models) |

`PROJECT.json` lists each with its sources, what is modelled, and the hazards at
their lines.

---

## 2. The modules

```
ProjectContext      OperationRegistry               RuntimeOperations
        \               /                           /               \
        WorkspaceSession --implements-->      RuntimeDrift      RuntimePlan --implements--> PlanRegister
        /      |        \   IsolatedWorkspace      |            /        \
MCWorkspace-   |    WorkspaceSession_proofs   RuntimeApplier  MCRuntimePlan  RuntimePlan_proofs
Session        |        |                          |
               |                                   |
MCHostComponents:    RuntimeApplier     PublishedPorts      NginxSites
                     HostFirewall       VpsPreflight <- RemoteRuns
MCServiceComponents: JenkinsPipelines   InfrastructureStack ProjectAggregate
                     ProjectDuplication ProjectBackup       DatabaseUpgrade
                     SshTerminals       Deployments         RuntimeTopology
                     Certificates
MCRendererPages:     WorkspacePages
                     PageCalls <- AnsiblePage  RuntimePage
                                  InfrastructurePage  CloudflareConsole
DnsRecords (with its own run)

HostComponents_proofs:    HostFirewall, NginxSites, PublishedPorts, RuntimeApplier
RemoteRuns_proofs:        RemoteRuns
ServiceComponents_proofs: InfrastructureStack, Deployments, SshTerminals, Certificates,
                          JenkinsPipelines
ProjectStores_proofs:     ProjectBackup, ProjectAggregate, ProjectDuplication,
                          DatabaseUpgrade
RendererPages_proofs:     RuntimePage, WorkspacePages, InfrastructurePage, AnsiblePage,
                          CloudflareConsole
DnsRecords_proofs:        DnsRecords
```

`MCHostComponents`, `MCServiceComponents` and `MCRendererPages` do not compose what
they name: the components share nothing, and each behaviour is one of a single
component, its *subject*, while the others rest. So the state spaces of one run add
up instead of multiplying, and every property of the run is about its own component.
A component with theorems is extended, so that the run checks the very definitions the
theorems are about; the others are instances.

### 2.1 Workspace session

* **`ProjectContext`** - the lease of the open project and the generation that
  every activation and every clearing advances (`project-context.ts`). The
  random session id is left out: it changes exactly when the generation does.
* **`OperationRegistry`** - registrations under unique keys, and
  `deactivate()`: refuse when something cannot be aborted, otherwise note what
  is there and wait for it. The abort signal is left out, because no operation
  ends *because* of it: it may end at any time.
* **`WorkspaceSession`** - composes the two with
  - *the chain of transitions* (`queue`, `running`, `phase`, `prior`). Each
    `phase` is an await of `ProjectSessionService`: `starting` and `preparing`
    are the look-ups before anything is closed, `draining` the await in
    `deactivate()` after which terminals are closed, `closing` the removal of
    key files, `clearing` the return of `beforeDeactivate()` after which the
    context is cleared, `saving` the row of the project being opened, `recovering`
    and `synchronizing` the two of `afterActivate()`, `deleting` the deletion
    of the row, `rekeying` the hashing of a passkey;
  - *scoped calls* (`request`): six kinds that differ in what they hold over an
    await - a load followed by an upsert, a terminal, a key file, a deployment
    with a second registration, a passkey change that queues itself in the
    chain, and a synchronization on demand;
  - *the schedulers* (`sweep`, `sync` and their flags): each invocation reads
    the settings before it raises the flag, so two may pass the same test;
  - *what a session leaves*: `cloudflareSnapshot`, `terminals`, `keyFiles`;
  - `Restart`: memory is lost, rows and files are not.
* **`IsolatedWorkspace`** - what all of that promises, without mechanism: at
  most one project is open; things are held only for it; it is closed only when
  nothing is held. `ImplementsIsolated` maps `open` to the context's lease and
  `held` to every project for which anything is registered, cached, open or on
  disk.

`Disturbances` names what the environment may do: `lateRegistration` (work is
registered while a teardown is under way; the code does not prevent it),
`recoveryFails` (`afterActivate()` throws), `targetUnresolved` (a deployment's
SSH target does not resolve), `cleanupFails` (files of a crashed process cannot
be removed). A run lists those it allows; the theorems say which they exclude.

### 2.2 Runtime plans

* **`RuntimeOperations`** - pure operators: what is ours, what conflicts, which
  operations a change consists of and in what order, what Docker accepts, does,
  and leaves behind when a command is interrupted. A host is an owner for each
  name and a link for each container and network; `stale` is an attachment that
  lacks an alias of the plan.
* **`RuntimeDrift`** - the report of the differences between a plan and a host,
  which the code computes apart from the operations. `OperationsReported` relates
  the two: what an apply will do is what the report leads to.
* **`RuntimeApplier`** - one change executed command by command, interrupted
  anywhere and tried again; every plan and every host an apply is not refused
  for is an initial state.
* **`RuntimePlan`** - the service and its store, one action per await. `plans`
  are the rows (version 0: no row), `previews` and `applyingTargets` the two
  maps the service keeps in memory, `shown` the approvals the windows were
  given, `call` the calls under way. A write reads the plan (`base`), is
  compared by the service (`CheckVersion`), read and compared again by the
  store (`ReadRow`, which keeps `seen`), and made by a conditional update
  (`WriteRow`). A synchronizer that loses the race derives its change again, up
  to three attempts. `InspectForApply` is the four gates of `apply()` and the
  spending of the token, which have no await between them. `Drift` is anything
  else changing the host, `Fail` and `ConnectionLost` the database and SSH,
  `Restart` the process.
* **`PlanRegister`** - what the stored plans promise without any of that: a register
  per target which every change replaces in one step by something one change makes of
  what it holds, with the next version. Nothing is promised of a removed target, whose
  row a late write may bring back.

### 2.3 On a host

* **`PublishedPorts`** - which ports `validateRuntimePlan()` accepts, what Docker
  binds for a container (on a host with IPv6, a second binding for every
  interface), how an inspection orders the bindings, and what `comparePorts()`
  reports.
* **`NginxSites`** - the shell scripts, a command per step: archive, write, `nginx
  -t`, roll back, reload, of the manager and of the Ansible page, interleaved.
  The scripts take no lock, so `Callers` run at the same time.
* **`HostFirewall`** - the open and close scripts of four backends, a port per step.
  `live` are the rules in force, `kept` those of the next boot. `Interrupted` cuts
  a script off, `Reboot` loads `kept`, `HandAdd` and `HandRemove` are other
  people. `firewallRequirements()` and `checkConnectivity()` are operators on it.
* **`VpsPreflight`** - what a preflight says of a host, and what preparing it and a
  profile change there: checks that are ready, repairable or blocked.
* **`RemoteRuns`** - the Ansible manager's operations as rows of SSH sessions and
  sessions as rows of commands; the transport's attempts at a connection, the pinned
  host key, cancels and timeouts, and the commands on the host, which go on unheard or
  die when their connection does.

### 2.4 Services of the main process

* **`JenkinsPipelines`** - save, move, status and removal over the job, the site,
  the row and the plan; `Fault` fails any request.
* **`InfrastructureStack`** - the saved plan, approvals, runs of the engine, and
  the synchronization of the target catalog with the outputs, target by target.
* **`ProjectAggregate`** - the three writers of the whole project row and the saved
  plan's region, with the compensation of a failed update.
* **`ProjectDuplication`** - row, clone transaction, link, and removal on failure.
* **`ProjectBackup`** - backup, restore and import over rows, secrets and
  checkpoint; each step fails, or the process ends at it.
* **`DatabaseUpgrade`** - every statement of a start, which ends anywhere and is
  begun again.
* **`SshTerminals`** - the page, the calls on their way (`toMain`), the answers and
  events on their way (`toPage`), and the connections (`links`) behind the one
  entry of the manager's map. Every callback of a connection is an action, and
  acts on whatever the id has by then.
* **`Deployments`** - `DeploymentService.run()`, the deployer's connection and
  steps, the commands on the host, which nobody can call back, `deploy:cancel`,
  the end of the process, and `recoverInterrupted()`.
* **`RuntimeTopology`** - routes, applications and host endpoints in one plan, as
  Nginx and Jenkins synchronize them: `upsertRuntimeRoute()`,
  `ensureRouteEndpoint()`, `cleanupTopology()`, `validateRuntimePlan()` and the
  refusal of `mutateTopology()`.
* **`Certificates`** - `issue()`, `renewDue()` and `list()` with every await a step,
  over five places a certificate is kept in.
* **`DnsRecords`** - records at Cloudflare, edited by others, and the rows in the
  plans; create, update, delete, refresh and `ensure()`, a step per await.

### 2.5 The renderer

* **`PageCalls`** - what `@tanstack/react-query` makes of a mutation, as far as the
  pages rely on it (external): a hook follows one call, and an answer to an earlier
  one reaches nobody.
* **`WorkspacePages`** - the gate, the picker, the project page and the query cache,
  the session of the main process, and calls (`toMain`) and answers (`toPage`) in
  transit. The pages are one view of the data of one project. `patient` is a user who
  waits for the answers of transitions, and of saved forms, before the next one: what is
  promised is promised to such a user.
* **`AnsiblePage`** - form, fingerprint, report, repair, run, service actions, access
  details and live states, each a hook, over a catalog of targets that others edit.
* **`RuntimePage`** - preview, typed names, dialog and apply, and the main process that
  derives the change again. A change is known by the versions of plan and host it was
  derived from.
* **`InfrastructurePage`** - editor, preview and apply through leaving the page and
  coming back; the engine's side is `InfrastructureStack`.
* **`CloudflareConsole`** - zones, batches over records, settings, Page Rules and
  Redirect Rules, which are saved by reading a zone's ruleset and putting all of it
  back, while the account is managed elsewhere too.

### 2.6 Where the models simplify

* A passkey is right or wrong (`Reject` is possible wherever it is verified).
* Rows are identities in the session model: their columns do not matter to what
  it states.
* The content of a plan is reduced to what operations and approvals depend on,
  plus an opaque set `topology` for routes, records and certificates.
  `fingerprintChange()` is the change itself: no collisions are modelled.
* A renamed, unreadable or half-inspected host is not modelled: an inspection
  either answers or the call fails.
* Tokens are counted; `newUuid()` never repeats.
* A terminal is one page with its one session id; ids share only `closeAll()`.
  Window sizes are writes that nobody listens to the failure of.
* A deployment's template is a number of steps. Its target resolves; what happens
  when it does not is the session model's (`targetUnresolved`).
* Of the Ansible page the lists of sites and networks are left out, and saving and
  removing a site (`NginxSites` has their scripts); of the Infrastructure page the
  plan's refresh and the destruction of a managed stack. An editor that is filled again
  loses what was not saved: nothing is promised of that.
* A host with a second, newer Python without pip, and the wait for a socket to close,
  are not modelled in `RemoteRuns`.
* Docker publishes a port on every interface, on loopback, or not at all; other
  addresses and UDP behave as these do.

---

## 3. The runs

| Run | Question | Answer |
|---|---|---|
| `SessionIsolated` | With no failed recovery or cleanup and no late registration, does anything survive a switch, lock or deletion? Do two schedulers run at once, a stale lease revive, a deleted row come back? | No; and the session implements `IsolatedWorkspace` (1.3 M states) |
| `SessionLiveness` | When recovery and cleanup fail and work registers late, is every transition and every call answered, even a passkey call that waits behind transitions its own registration blocks? Does a deletion delete its own session's project? | Yes |
| `SessionLeak` | ... even when a deployment's target does not resolve? | **No** |
| `SessionLateWork` | Is "No background task survives its project session" true? | **No**, not of work registered during the wait |
| `RuntimeWrites` | Is a plan that is edited over three awaits a register that changes in one step, so that no edit is lost? Can a conflict be invented? Do retries end? | Yes, no, yes (0.1 M states) |
| `RuntimeApply` | Can anything run that was not shown, or run twice? | No (1.2 M states) |
| `RuntimeOverlap` | "One in-flight Apply per target"? | **No** |
| `HostComponents` | May an apply stop anywhere and be finished, and was all of it reported? Is what is published what the report says? Do Nginx and the firewall survive interruption and reboots? Is a remote command begun twice, after a cancel, or reported without being done? | Yes, and never (1.0 M states) |
| `ServiceComponents` | Does what is kept in several places agree after any single failure, and does a page or a row say what there is? Are certificates and topologies refused only for reasons a user sees? | Yes (1.2 M states) |
| `RendererPages` | Is what is confirmed what was shown, what is shown of the project or host the user is at, and what is reported done, although answers come late? | Yes (1.5 M states) |
| `DnsRecords` | Do the plans end as Cloudflare has it? Does automation leave other people's records alone? | Yes (0.5 M states) |
| `StartKeepsProjects` | "this is safe to call on every startup"? | **No** |

### 3.1 Disagreements found

1. `deploy.handlers.ts:31` registers an operation and awaits
   `resolveSshTarget()` before the `try` whose `finally` completes it. When that
   throws, the operation is never completed: the next lock, switch or delete
   waits for ever, and every transition behind it (`SessionLeak`).
2. `project-operation-registry.ts:67` waits for the operations it listed;
   `begin()` is open meanwhile. Work that registers during the wait is neither
   refused nor awaited (`SessionLateWork`).
3. `runtime-plan-service.ts:543` tests the guard against a second apply before
   two awaits that end with it being set (line 592). Two applies with two
   approvals, minted one after the other, pass (`RuntimeOverlap`). What runs is
   still approved: `OnlyApprovedRuns` holds regardless.
4. `schema-bootstrap.ts:234` drops `Project` before line 235 renames its copy, as
   two statements. A process that ends between them leaves every project in
   `Project_new`, which no later start reads: the next start fails, the one after
   runs with no project and gives all rows to a new one (`StartKeepsProjects`).
   Only the file that `onBeforeProjectRebuild` copied (`container.ts:183-187`)
   still has the rows, and nothing reads that.

### 3.2 Bounds, and why they are enough

* *Session.* Two projects make a switch, and a third would behave as the second
  does. One request slot overlaps every phase of every transition; the calls of
  a run differ by `Kinds`. Two sweep slots are two invocations past the same
  test, the most that can matter for a boolean flag. `MaxQueue = 1` is a
  transition waiting behind another, whose authorization may have changed when
  its turn comes. `MaxGeneration` stops new unlocks: 3 allows a project to be
  opened, closed and opened again (a lease of the first session meets the
  third), 2 (liveness) a switch. The bound is on asking, so what was asked for
  always completes.
* *Components of one run* share no variable, so one subject at a time shows what
  all of them together would.
* *Applier.* One container and two networks give every operation kind, a network
  that is left and one that is joined, and the removal of an unrelated one.
* *Plans.* One target: no state in the service is shared between targets but
  the database connection. Two calls: every property concerns a pair. In
  `RuntimeWrites`, `MaxVersion = 3` and a deletion that starts versions again
  let a synchronizer lose three races, the last of its attempts. In
  `RuntimeApply`, `MaxToken = 2` is an approval and the one that replaces it,
  `MaxDrift = 1` a change of the host between any two steps, one network and
  one container the operations create, attach, detach, remove. `Kinds` splits
  the calls between the two runs: writes do not read approvals, applies write
  no plans; `edit` is in both, because it is what makes an approval stale.

* *Ports.* One service with two container ports, on two host ports and two kinds of
  address, at most two mappings: two bindings of one port, one port moved to the
  other's place, and the loopback beside the public binding. Services meet only
  where Docker refuses a port that is taken.
* *Topology, Nginx, firewall, certificates.* Two pipelines and two sites for two
  ports; two files with one upstream that Nginx refuses and one archive; two
  required ports and the port of SSH, rules entered by hand for all sources and for one,
  one interruption and any number of boots; two certificates of a domain, the second made while the first is used.
* *Terminal.* Three connections: one opened over another while a third, older one
  still ends. Two calls on their way: a close overtaken by nothing but followed by
  an open.
* *Deployments.* Two runs that overlap, two steps (a step after a step), one end of
  the process and any number of closings and openings.
* *Stores written in turn.* Two faults: one in the work and one in its
  compensation. `FailedUpdateIsUndone` counts them, because the code promises
  nothing of the second.
* *Upgrade.* Three starts: an interrupted one, one that continues and is interrupted
  again, one that ends.
* *Remote runs.* Two operations that overlap on one host, one profile on top of what the
  other installs, two attempts at a connection (a retry), one failure outside the program.
* *Workspace of the renderer.* Two projects make a switch; two calls under way are a
  transition and what overtakes it or is overtaken; one failure half-way. The inductive
  invariant was also checked with three calls.
* *Pages.* Two hosts, targets, zones or visits: what is shown is of one and what is
  answered of the other. One call under way when another is made, but
  on the Cloudflare page, whose property does not survive a zone being added behind a
  dialog (section 3.4); `ReportsAreTrue` excludes just that.
* *DNS.* Two targets, two records and two calls: a record that moves between the
  targets under a listing that is already old.

Symmetry is used only in runs without liveness, over projects, requests, callers and
operations, which no definition tells apart.

`CHECK_DEADLOCK FALSE` everywhere: a workspace that is locked with its bounds
reached, or an apply that is done, may stop. That no *call* is stuck is what
`TransitionsAnswered`, `RequestsAnswered` and `CallsAnswered` say.

### 3.3 Fairness

Only the continuation of what is under way is fair: weak fairness on the running
transition, on each call that was accepted, each sweep, each synchronization
(`WorkspaceSession!Fairness`), and on each runtime call
(`WF_vars(Proceed(c))`). The code's reasons: SQLite and scrypt answer, HTTP
calls and SSH commands run under timeouts, and a rejected promise is an outcome
too. Nothing obliges the user to ask, a timer to fire, the process to restart,
an editor to submit the plan it views, or a failure to happen.

`RefreshRepairs` assumes what the scheduler does (`DnsFairness`): a refresh is begun
again and again and each call proceeds. Disturbances are bounded, which stands for
"once nobody changes the zone any more"; nothing is assumed of when.

Liveness of the session is checked without `targetUnresolved`, which breaks it
(finding 1), and with every other disturbance.

### 3.4 Observations

The models also show behaviour that contradicts no statement of the repository, so
that no run is about it. Each is reachable in the module named.

*Session.* An update accepted during the teardown of a deletion writes the row back
(a consequence of disagreement 2; theorem `DeletionIsFinal` shows it cannot happen
otherwise). A failed opening clears the context without the teardown, and leaves
terminals and key files that calls made meanwhile. A deletion that fails after the
session was closed leaves the window with a session that is gone, and its lock is
refused.

*Terminals.* Disconnecting does not wait: the `terminal:closed` of the old connection
can arrive while the next one is connecting, the page then offers Connect again, and
of two connections opened under one id the first is in no map. `closeAll()` does not
reach it: its shell survives the lock, and its end closes the later session. The same
holds of a shell that opens after the timeout was answered. A page that is left while it
connects closes nothing.

*Deployments.* The abort signal is listened to once a step has begun on the host, so a
cancel between the check and the beginning is not heard until the next step; if there
is none the deployment is recorded as a success. A timeout or a cancel ends the
connection, not the command. If the last write fails, the row is called running
until the next opening, and then failed, whatever the deployment did. Two
deployments to one host interleave their steps. The models have one process; a second
one of the application that opens the same project recovers, that is fails, the
first one's live deployments.

*Drift.* Of several bindings of one container port only the last is compared: with the
planned one on loopback and a second, public one the report can be empty
(`ReportedExactly` excludes such containers, and says so). On a host with IPv6 the
second binding for every interface makes each such port "modified". A container whose
application writes its own Compose file is detached from a network the report does
not mention. A planned name held by another target's resource is neither reported
nor a blocker.

*Topology.* One port on `0.0.0.0` and on loopback by two services is accepted, which
Docker refuses.

*Nginx, firewall, certificates.* A rollback of one script erases what another wrote
meanwhile. A port script that is cut off before it saved leaves a rule that no later
script saves, since it finds it unchanged; a nftables port that is closed is open again
after a boot. On ufw, a port that a rule of somebody else's opens to one source is taken
for open to all (`host-firewall-script.ts:168`): it is left as it is and reported open
(`OpenedStaysOpen` excepts such ports, and says so). `issue()` ignores that its managed list was not saved, and that
certificate is renewed by nobody.

*Stores written in turn.* An interrupted move leaves the application in the old
target's plan; `status()` writes back a row it read before a save. Synchronizing
after a destroy creates a target of a server that is gone. An update of a project
and a change of its passkey each revert the other if they overlap. A credential
added or removed while a backup is made gives a backup that no restore accepts; a
crash during a restore leaves a mix, and the safety copy is read by nothing. A crash
after `CREATE TABLE "Project_new"` makes every later start fail. A plan that names a
cloned credential is not rewritten by the ownership migration.

*Renderer's workspace.* Two unlocks made from the picker without waiting show the first
project's data in the second (`WorkspaceContext.tsx:81`); a deletion that fails half-way
leaves the renderer in a project that is locked (`WorkspaceContext.tsx:108`).

*Ansible page.* A host edited during its inspection keeps the fingerprint of the one
before (`AnsiblePage.tsx:117`); live states fill in variables after the report did (316);
access details stay when the form is edited (434, 901); "New target" selects the first
saved one again (293). A late preflight is recorded in a row whose connection changed
meanwhile (`vps-target-service.ts:120`). Releasing a resource does not drop the preview
of the runtime page (`VpsRuntimePage.tsx:345`); its apply is then refused.

*Cloudflare.* "All zones" cannot stay selected and a zone just added is deselected. What
was selected or edited outlives a change of zone. A setting or a purge confirmed for a
zone that vanished is applied to the first one that is left; and a zone that is added
while such a dialog is open replaces the zone on show under it (`CloudflarePage.tsx:506`),
so that what was confirmed for one zone is applied to another (TLC finds it with
`MaxSending = 2`). Saving or deleting a redirect
rule rewrites every other rule of the zone and blanks destinations that are expressions;
of two saves that overlap one is lost. After a save the draft stays, and saving again makes
a second rule.

*Ansible.* A cancel ends the connection, so the job directory with its variables stays on
the host, and the playbook may go on beside the next one. Post-checks of some profiles
decide by their last command. The Python that a repair installs is the distribution's,
whatever version was announced.

*DNS.* A marker that is removed between the decision and the write is not respected;
a record moved to an address of no saved target stays claimed.

---

## 4. The theorems

All are proved for any sets of projects, calls, targets and names, and hold
whatever the bounds.

### 4.1 Workspace session (`WorkspaceSession_proofs`, its first half)

`BaseInv == TypeOK /\ PhaseInv /\ LeaseInv` is inductive. `TypeOK` alone is not:
`SaveAndActivate` opens `running.project`, which is a project only if something
is running in that phase, and `CloseTerminals` closes `prior`, which is a lease
only if a session is open. `PhaseInv` says what each await may rely on; the
important conjunct is that from `starting` to `clearing` the session being
closed is still the open one. `LeaseInv` says that leases were captured from an
open session and are not of the future.

* `TypeCorrect` - `[]TypeOK`.
* `DeletionOwnsSession` - a row disappears only at the end of a deletion of the
  very project whose session was closed. The last conjunct of `PhaseInv` is
  needed: the request's project and the closed one are compared in `prepare()`
  and stay equal until the row goes.
* `OpenProjectExists` - `[]ActiveProjectStored`; by `DeletionOwnsSession`'s
  lemma, rows go only when nothing is open.
* `StaleForever` - a generation is never used twice, so a lease that is not
  current will not become so.

* `OneRunAtATime` - `[]SingleFlight`. The flags are tested before an await and raised
  after it, so they decide nothing by themselves; what does is the unique key of the
  registration. `SweepInv` says that the renewal's key is registered exactly while a sweep
  is at work, and that one that may still begin beside it, in the open session, works for
  the same lease, so that its `begin()` finds the key taken. A synchronization tests
  its flag and raises it in one continuation.

These assume nothing about disturbances.

### 4.2 Isolation (`WorkspaceSession_proofs`, its second half)

Under `Undisturbed` (no `lateRegistration`, `recoveryFails`, `cleanupFails`;
`targetUnresolved` is allowed), `IsolationInv` strengthens the two isolation
properties with: an accepted call and a running synchronization hold a
registration that blocks a teardown, so none is in flight during one
(`CallsBlock`, `SyncBlocks`); and what each phase of a teardown has already
emptied (`TeardownInv`). Without these, a call accepted earlier could open a
terminal after terminals were closed.

* `SessionIsolation` - `[]NothingOutlivesSession`: neither registered work nor a cache,
  terminal or key file is another project's than the open one's.
* `DeletionIsFinal` - `DeletedStaysDeleted`: every upsert is of a call or of a
  transition whose project is open or was just looked up.
* `SessionRefinesIsolatedWorkspace` - `ImplementsIsolated`.

That `lateRegistration` must be excluded is what the run `SessionLateWork` shows;
with `recoveryFails`, `NothingOutlivesSession` fails as the observations say.

### 4.3 Runtime plans (`RuntimePlan_proofs`)

No assumption but those of the module on its constants.

* `PlansAreARegister` - the refinement of `PlanRegister`, whose variables are the stored
  targets and plans themselves. Only `WriteRow`, `DeletePlan` and `RemoveTarget` are steps
  of it; all others stutter. It rests on `WriteInv` below and on `MadeInv`: what a call
  wants to store is a change of the plan it works from, also after a retry.
* `NothingLost`, from `WriteInv`: *the plan a write of a stored target is
  based on is the plan that is stored, or of a smaller version*. It is needed
  because the conditional update compares with `seen`, read late,
  while the change was made from `base`, read early, possibly in an earlier
  attempt; equal versions must mean equal plans, and that would be false across
  a deletion that starts versions again. So the theorem is about targets that
  are stored.
* `ConflictsAreReal` - the same invariant, read in the other direction: equal
  plans pass all three comparisons.
* `OnlyApprovedChangesRun`, `TokensAreSingleUse`, `SpentForever`, from
  `ApprovalInv`: tokens are never minted twice, an approval kept by the service
  was shown, and the token of an apply under way is not that of its target's
  preview any more. The second theorem rests on the token being spent in the step that
  tests it.

`NothingLost` and `SpentForever` (a spent token authorizes nothing any more) have no run
of their own: they are what the refinement and the other two rest on, and what a reader
would ask for.

### 4.4 Services of the main process (`ServiceComponents_proofs`)

* `ApplyRunsWhatWasShown` - the approval of the stack is one of a plan that was shown
  under its token, tokens are never minted twice, and a call between its check and the
  end of its apply presents the token and has the plan that were compared.
* `TargetsAreUnique` - however synchronizations overlap: the database's unique index
  refuses a second row of a server, and an update by row number keeps the server, because
  numbers are not used again.
* `RecordIsTrue` - what a call knows of its steps is what the host did, as long as the
  connection is not given up (`KnowsHost`), and what the row says is what the call has come
  to (`RowFollows`).
* `ShownConnectionIsOpen` - needs what each message on its way to the page says of the
  connection it came from: of what is told of a session only the last counts, and every
  end of a session is told.
* `AcceptsWhatIsServed` - `AcceptedIsServed`, an action property, for any domains and overlapping calls. What
  a call has obtained is never later than the certificate in the files (`Obtained`), and
  after its reload not later than the one Nginx serves (`Serves`), because at every step a
  certificate gives way only to a later one and Nginx takes only what the files have
  (`HostGrows`). What a listing saves never says more than was accepted.
* `SavesAgree` - `[]SavedMeansConsistent` for any targets and ports, *where calls follow one
  another*: a status that was read before a save writes its copy of the row back after it
  (section 3.4), so that the theorem assumes a single caller, as the run does. The
  invariant `SaveIsAt` says for each stage of a save which stores hold what it saves
  already; people who edit jobs in Jenkins change parameters and remove no job.

### 4.5 What keeps a project in several stores (`ProjectStores_proofs`)

* `OneFailureIsUndone` - `RestoreIsAllOrNothing`, an action property: what a call that ends
  may leave depends on how far it had come. So the invariant says, for each await of a
  restore and of an import that nothing else disturbs, what each store holds
  (`RestoreIsAt`, `ImportIsAt`): until its first write the safety copy is the project as it
  was, and after it a failure has been counted wherever the way back is taken. That an
  envelope has every secret is true of a backup that was made undisturbed
  (`SecretsAreComplete`), and a backup that was not counts as the one failure.
* `UpdatesLeaveNothingHalfDone` - `FailedUpdateIsUndone`. `UpdateIsAt` says what an update
  knows of the row and of the plan at each await, and that it compensates only where the
  region differs, after a write that failed. Two updates that overlap are disturbed by
  each other at their next steps, so that the invariant is about each one by itself. The
  assumption `FormsAreChanges` is the type of a form.
* `CopiesStandAlone` - `[]CopyStandsAlone`: a name is a clone's, or of a credential the
  source does not have; the source never gets one again.
* `UpgradesIsolate` - `[]UpgradeIsolates` for any projects, credentials, targets and
  pipelines, in any order, and any number of interrupted starts. The inductive invariant
  `UpgradeIInv` has two halves: while rows have no owners they are what earlier releases
  left (`EarlierRows`), and once they have, they are isolated, also while the application is
  down or starting. `Project` is rebuilt only in the first half, because a table whose rows
  have owners never has the old key (`RebuiltBefore`); and a fresh schema, which is owned
  from the moment it has `Credential`, has no rows then. The transaction itself
  (`GiveRowsIsolates`) is about every reference of every row: one whose credential went to
  another project refers to a clone, which belongs to the project it was made for and is
  none of the credentials there were (`ClonesAreNew`), since names of credentials are
  sequences of one element (`CredentialsAreNames`) and of clones of two; and the first
  that refers to a credential exists because the lists are sequences
  (`OrdersAreSequences`), whose least index the natural numbers give (`FirstIsOne`).

### 4.6 DNS records and the host (`DnsRecords_proofs`, `HostComponents_proofs`)

* `AutomationChangesMarked` - `AutomationKeepsForeign` for any zone, listing and number of
  overlapping calls: what carries CloudForge's marker, in the zone or in a listing, had it
  when it was listed (`MarkersKnown`), and `ensure()` comes to an update only through a
  listing that showed the marker (`ByMarkerOnly`).
* `OpenedPortsStayOpen` - `[]OpenedStaysOpen` for any ports, plans, native services, rules
  of the provider and rules of others. ufw and firewalld keep what is in force and what is
  saved the same (`OthersSaved`); of the rules of iptables and nftables only the running
  script has made one that is not saved, and it will save it (`OursSaved`) unless it is cut
  off (`torn`). It assumes that plans and native services
  name ports (`PortsOfPlans`, `PortsOfNatives`). The proof is how the exception for ufw's
  rules for one source was found: an instance in which all rules are for all sources does
  not show it.
* `ScriptsLeaveSitesServable` - `[]HostStaysServable` for any domains, upstreams and
  archives, *where scripts follow one another*: the theorem assumes a single caller, as
  the run does. Nothing in the code excludes that two scripts overlap, and then one's
  archive may hold the other's unchecked file; no such claim is made. The invariant
  `ScriptOK` says how far the files may be from the archive: in the running script's own
  site, and in no other, until `nginx -t` or the way back has settled it.
* `ReportIsExact` - `[]ReportedExactly`, whatever order Docker lists bindings in, for a
  port that is published once for every interface and address family.

* `AppliesCanBeFinished` - `[]ApplyCanBeFinished` for any plan, host and networks agreed
  to be removed. `ApplierIInv` has what is still to be executed as a set, computed from
  the plan and the host as they are now (`ToSet(pending) = Outstanding(...)`), and its
  order: networks are created first and removed last (`Orderly`). So the proof is that
  every operation, when Docker has done it, takes itself off that set and leaves the rest
  of it (`CreateDone`, `AttachDone`, `DetachDone`, `RemoveDone`), which is false of a list
  in any other order: a network that is created makes no attachment wanted that was not,
  and one that is removed has none, because those were ended before. That
  `executableOperations()` keeps the order of the list and drops exactly its manual tail
  is `ManualsCutOff`, that `SetToSeq` lists a finite set once `InSomeOrder`.
* `ReportMatchesOperations` - `[]OperationsReported`. The report and the operations are
  computed independently; the theorem relates them for every plan and well-formed host,
  difference by difference (`ReportedIsOutstanding`, `OutstandingIsReported`).
* `AppliesKeepForeign` - `ForeignUntouched`, an action property, for whatever an
  interrupted command leaves behind.

The containers' and networks' names are assumed to be distinct and finitely many
(`NamesDistinct`, `NamesFinite`).

### 4.7 Runs on a host (`RemoteRuns_proofs`)

* `RemoteRunsAreExact` - `[]RunsAreExact` for any profiles, hosts and operations, attempts
  and faults. `RemoteIInv` follows an operation through its row of sessions: the one it is
  at, those that come after it and nothing else (`OperationOK`), what is left of a
  session's commands, and that nothing of what is to come has begun. A session that is
  tried again has begun none of its commands, because the transport tries again only where
  no command was sent; a command that is heard belongs to the operation that is at it, one
  that is not heard has no operation any more (`ProcessesOK`); and the directory of a job is
  there only while a command of it is left, or its operation was cut off (`JobsOK`).
  Without the second a playbook that goes on unheard could end another operation's run.

### 4.8 The renderer (`RendererPages_proofs`)

* `AppliesWhatWasConfirmed` - a preview that the page shows, or that is on its way, is the
  one of its token in the main process; names count for the preview they were typed under;
  and the apply compares what it derives with what was approved.
* `PatientUserSeesOneProject` - `WorkspaceIsOne` for any number of projects and of calls
  under way. The requests name no project, so the invariant is about order: a user who
  waits has one transition under way, at one place - on its way, at work, or answered
  (`OneAwaited`); no change is behind an unlock (`Asking`); what was asked in a project
  finds that project open or none; a read that was cleared is told apart from those of the
  next session (`ReadOK`); and between the step that changes the open project and its answer
  the renderer and the main process may differ, and only then (`Moved`, `Agreeing`).
* `AppliesWhatIsOnScreen` - `[]OfferedAndApplied`. What the page of the infrastructure
  offers to apply is the preview the main process has approved, through leaving the page
  and coming back, because the operations of a user who stays follow one another
  (`OneAtATime`), the page learns of the engine in that order (`PageFollowsEngine`), and a
  confirmation is of the approval that is held (`HoldsApproval`).
* `AttendedPageIsTrue` - `[]AttendedPageIsOfOneHost` for any hosts, rows and number of calls
  under way (the run has one at a time). Every hook waits for, and shows, what is of the
  connection in the form (`AreOf`); a confirmation that is open has nothing awaited behind
  it (`ConfirmationIsOfForm`); and only where there is no row the page shows none, so that
  the row a save makes is the one the form shows (`RowsAreTrusted`).
* `BatchesAreComplete` - `[]BatchIsComplete` of the Cloudflare page, for any zones, records
  and number of calls under way, whatever others change in the account: a batch checks every
  record before it deletes the first one, Cloudflare gives an id once, so a record that was
  deleted is never there again (`CallOK`), and one that is gone by its turn ends the batch
  without a report.
* `ReportsAreTrue` - `[]ReportedIsDone` for any number of calls under way, if no dialog is
  open while a zone is being added (`WaitsForZones`). An id of a Redirect Rule is of one zone
  for good (`IsOf`), counting the rulesets that calls have read and will put back, so a
  deletion that puts back the ruleset of one zone does not leave the rule in another; and a
  call is for the zone it was asked for, or that zone is gone and stays gone (`GoesTo`). The
  list of zones replaces the one on show under an open dialog only when it is gone; a zone
  that has been added replaces it always, which is why the assumption is needed (section
  3.4). `SingleReportsAreTrue` derives it for a user who makes one call at a time, as in
  the run (`MaxSending = 1`). That an overlapping save can still undo what was reported a
  moment ago is not excluded, and is listed there too.

### 4.9 Checked and not proved

Liveness (all of it), and with it `RefreshRepairs`; the full `TypeOK` of `RuntimePlan`.

`TopologyServes` walks a sequence of changes with folds, and says something of the result
for every sequence: that is induction over data.

---

## 5. Plan

Still to be modelled: the pages of Jenkins, Nginx, certificates, the firewall, secrets and
settings; settings beside the managed list; the rules of plans that are about names,
volumes and dependencies.

### Not modelled, and staying so

A third of the implementation is pages and forms of the renderer, of which the five with
state that a late answer can meet are modelled, and another thousand lines are the schemas
of IPC calls; elsewhere the models issue the calls in any order. Of the rest, what changes no state another call
could meet is left out: clients of cloud APIs and their request signing, Pulumi's programs
and its own state, ciphers and hashing, what Ansible playbooks do and print, the SSH
transport below "a command answers, fails or is cut off", rendering and parsing, logging,
the window, updates, activity and plugins. So the map covers a fifth of the lines: the
protocols among them.
