# Verification of the Headscale management platform

The platform lets operators run Headscale tenants on worker hosts and monitor
networks through gateways. A Django control plane (`backend/`) keeps the state
in PostgreSQL; an agent on each worker and gateway (`backend/agent_daemon/`)
polls it for commands; operators work with a console in the browser
(`frontend/`). The repository also carries the tools its developers and their
agents work with (`.cursor/`): planning tools, which keep a project's plans in
files, and an editor kit of hooks, installers and stores. This directory holds
TLA+ models of the parts whose correctness depends on the order in which
requests, replies, file accesses and failures happen, the TLC configurations
that check them and TLAPS proofs. Line numbers refer to the repository this
directory belongs to; "Planning tools" are `.cursor/gsd-core/bin/lib`, "editor
kit" is `.cursor/scripts`.

## The system

Facts about the deployment the models rest on:

- Two server processes with a 120 s timeout serve requests (`backend/Dockerfile:29`).
  The database runs at READ COMMITTED and requests are not wrapped in
  transactions, so handlers interleave between statements except inside
  `transaction.atomic`. Only `schedule_policy_scan` locks a row.
- Agents are single-threaded loops (heartbeat, poll, execute, acknowledge; the
  gateway's adds a pool of threads for vulnerability scans). Their HTTP client
  gives up after 30 s and never repeats a request (`agent_daemon/client.py:22`).
  systemd restarts them (`scripts/worker-agent.sh:162`,
  `scripts/install-gateway-agent-systemd.sh:111`). What they hold is in memory only.
- The scheduler is a process of its own that runs every 60 s (`docker-compose.yml:88`).
- Every subprocess an agent starts has a timeout.
- A page of the console is one thread that leaves off at every `await`. Requests of one
  page overlap, replies come back in any order, and most of them change the page
  whatever has happened to it since.
- Every command and hook of the tooling is a process of its own. Several of them run at
  once on the same files, in whole reads and whole writes, and each may be killed
  between two of them (by the user, or by the editor's time limit for hooks).

### Inventory

| Component | State | Operations | Talks to | Hard behaviour | Correct when |
| --- | --- | --- | --- | --- | --- |
| Command queue (`agents/`) | `AgentCommand` rows: state, result, `dispatched_at` | enqueue, poll (expire, hand over), ack | every app enqueues; agents poll and ack; an ack triggers tenant and monitoring updates | overlapping requests of one agent, lost acks, killed handlers, sweeps | a command runs at most once and in order, settles once, with the outcome it had |
| Agent daemons | batch and current command, in memory | heartbeat, poll, execute, ack, shutdown | the queue | restart or a lost response with a batch in hand | what they hold is DISPATCHED; nothing is run twice |
| Tenants (`workers/tenant_services.py`, `lifecycle/services.py`) | tenant row: runtime and bootstrap status, keys | provision, start, stop, bootstrap, remove, sync, poll of a command | queue, DNS, the worker's host | enqueue and status write are separate; old results applied again; removal overtaken | status and key agree with the host; removal ends; no stack without a row |
| DNS (`dns/`) | `ManagedDnsRecord` rows, records at the provider | ensure, remove | Cloudflare | provider fails half way | running tenants resolve |
| Enrolment and connection (`workers/services.py`, `agents/liveness.py`) | worker status, agent credentials, token uses | register, heartbeat, check, disconnect, delete | queue, daemons | revocation against authenticated requests; unlocked reads | credentials end with the worker; a live worker comes back ONLINE |
| Gateway monitoring (`gateways/`) | policy and cursor, hosts, alerts, scan marks | schedule, trigger, ack, rescan, push | queue, scheduler, gateway agent | scheduler against operator, overlapping acks, stale cursor | hosts announced once, chunks all scanned |
| Vulnerability pool (`vuln_worker.py`) | active jobs | tick, run, report | control plane | acts on an old queue, lost reports | no host starves |
| Stack provisioner (`stack_provisioner.py`) | `stack-state.json`, `compose.yml`, tenant directories, containers, databases | provision, start, stop, deprovision | Docker, PostgreSQL | failure between two of these | state, files and containers agree; tenants do not disturb each other |
| Access scoping (`accounts/`) | users, roles, grants | grant, revoke, list, open | all views, the users page | inheritance between levels; grants outlive roles | what is listed can be opened |
| Console pages (`frontend/src/pages`, `components`) | what each page shows, its timers, requests under way | load, poll, filter, act, confirm, watch | the control plane | replies overtake each other, pages are left, two tabs share cookies | a page shows what is so, sends what it shows, and gets back to rest |
| STATE.md (`state.cjs`) | the document, its lock, its archive | every command that rewrites it | agents of one project | a lock file that is broken when old | one inside; no entry lost; progress does not go back |
| Phases and roadmap (`phase.cjs`, `roadmap.cjs`, `milestone.cjs`) | ROADMAP.md, directories, REQUIREMENTS.md | add, insert, remove, complete, archive | STATE.md, planning lock | renames outside the lock, a write of several that fails | numbers and directories agree; a completion is whole |
| Manager and readers of the phases (`init.cjs`, `core.cjs`) | files of phases | recommend, plan waves, index | agents that write those files | recommendations grow old | no two dependent phases at once |
| Worktrees (`worktree-safety.cjs`) | worktrees, branches, the manifest | clean up a wave, reap orphans | git | a session dies or git refuses between two commands | committed work is never lost |
| Workstreams (`workstream.cjs`) | directories, pointers | create with migration, complete, set, clear | — | moves file by file without a lock | no file is lost, moves are whole |
| Configuration and health (`config.cjs`, `verify.cjs`) | `config.json`, MILESTONES.md | set, migrate, load, check, repair | every command loads | loading writes | keys and meaning are kept; repairs converge |
| Installers (`installer-migrations.cjs`, `install-executor.js`, `install-lifecycle.js`, `install-manifests.js`) | files of an editor's configuration, install state, journals | plan, install, migrate, roll back, repair, uninstall | the user, who edits the same files | any step fails, rollbacks fail, locks of the dead | a failure restores; a user's files and keys survive |
| Tmux orchestrator | session, worktrees, branches | start, replace, roll back | git, tmux | two runs of one name | nobody takes away another's work |
| Hooks (`hooks/`) | small files per session or project | before and after a call, start and end of a session | the editor | overlapping hooks, death in a write | asked once and not again; words, edits and verdicts are kept |
| Stores (`state-store`, `session-aliases`, `skill-evolution`, `learnings`, `intel`, `graphify`, `drift`, `surface`) | whole files in memory and on disk | write, query, compare, prune | agents, git | read, work, write back while others write | no row lost; answers are those of the data |

Resource metrics, tenant health history, rendering and validation of
configuration, scanners, settings and deployment are pure, appended to, or
outside the program; `PROJECT.json` lists them with the reason they are left
out, and the hazards of the code, each at its line.

## The modules

### `AgentCommands`, `CommandLifecycle`

`AgentCommands` is one agent's queue, the control plane's handlers and the
daemon. A handler is a process with a phase; each phase is one database
statement or one atomic block of `AgentPollView`/`dispatch_commands` (`expire`,
`read`, `update`, `reply`) or `AgentCommandAckView` (`ack_get`, `ack_commit`,
`ack_reply`). `rows` is the local list the handler works with: its update
selects by id and so can act on an old list, as the code's does. The daemon's
cycle is `StartPoll`, `StartCommand`, `FinishCommand`, `SendAck`, `EndCycle`.
`RequestFails` is every reason for which the client raises: the daemon drops its
batch while the handler works on, so requests of one agent overlap.
`CrashDaemon` and `KillHandler` are the restarts on both sides. Time is an age
per dispatched command, counted up to the first value past the cutoff; nothing
tells greater ages apart.

`CommandLifecycle` is what the queue promises to the code that enqueues: a
command is created, handed over once, and settles once, with the reported
outcome or without one. `AgentCommands!ImplementsLifecycle` says that handlers
and daemon implement it (the refinement mapping is the identity on `status` and
`result`). It holds when requests of one agent do not overlap.

### `TenantLifecycle`

One tenant: its row, DNS record, commands, the agent, and the host's containers
and keys. A request of an operator is a process that reads the row once (`seen`)
and then goes through the statements of its service: `Find` (look for an open
command), `EnsureDns`, `EnqueueFor`, `UpdateStatus`; for removal of a tenant that
is PENDING, `UndoDns` and `DeleteRow`. `Sync` is everything an acknowledgement
does to the row in its transaction: the status, the key, the bootstrap queued
after a provision, the removal of DNS and row. `PollCommand` is
`WorkerTenantCommandPollView`, which applies `Sync` to a settled command again.
The queue is that of `AgentCommands` while requests do not overlap; there it
implements `CommandLifecycle`. A command of a kind may fail at any point of its
effect on the host (`Effect`): a removal that fails may have dropped the database,
and since the bootstrap status stays BOOTSTRAPPED a later provision does not renew the
key on record, so `KeyOnRecordWorks` holds only up to such a failure. Of the stack
that tenants share, this module keeps what concerns the one tenant. Requests the code rejects change nothing and are
left out; access rights are taken as given. `env` is the environment a behaviour
lives in: how many commands, lost acknowledgements and requests cut short there may
be, whether a command may settle before its request has written the status, and
whether clients poll old commands.

### `StackProvisioner`

The stack of one worker: `stack-state.json` (`state`), the tenants' directories
(`dir`), the two generated files that matter (`ini`, `compose`), containers,
databases, what the running PgBouncer has read (`pool`) and the last report of each
tenant (`told`). The agent executes one command at a time; `job` is the command and
its next step. `provision` is `BeginProvision`, `TenantDir`, `WriteIni`,
`WriteCompose`, `ComposeUp`, `EnsureDatabase`, `RestartPgbouncer`, `SaveState`;
`deprovision` is `ComposeRm` and the same steps with `DropDatabase`. A step that fails
ends the command (`Fail`), and `Abort` is an exception, a timeout or the end of the
process between two steps. What Docker does is modelled from how the code calls it:
`compose up` makes the containers what the file says and removes the others, a
failed one does so for some of them, services that are not in the file are an error,
and PgBouncer reads its file when it starts. A tenant's snippet is generated from its row
and so is taken to differ only by the mode. `docker restart pgbouncer`, whose result the
code ignores, is taken to succeed.

### `WorkerConnection`

One worker, its enrolment token and the hosts on which the installer runs:
registration (a read and a write that another registration can come between),
authenticated requests under way (`call`), heartbeat, poll, liveness check (read,
write), disconnection (three updates), crash and restart of daemons, and deletion, whose
view reads the worker with its agent (`BeginDelete`) before the transaction that deletes
both (`DeleteWorker`): a registration may come between. `past` remembers which agents
registered after that read (`late`) and which lost the worker to another (`replaced`).

### `GatewayMonitoring`

One gateway: policy and cursor, the scheduler's transaction, an operator's
immediate scan, scan commands, their acks (read of the known hosts, then insert;
the unique constraint makes the second of two inserts fail), marks for
vulnerability scans, and the agent's pool: `TickFetch` and `TickSchedule` are the
two halves of a tick, between which jobs end and start. `late` in `Poll` is a sweep
that reaches a command whose ack is on its way. `env` says which policies there are,
whether an operator asks for scans, how many acks are recorded at once and how often
something is lost or changed.

### The console: `MCConsole` and the pages

A model of a page is the thread of the page and its requests. Loops with an `await` in
them are split there; a request under way remembers what the server said when it took
the request up (the reply may then come late), and a page's effects are actions that are
enabled by what they depend on. What the server answers is what the models of the
control plane allow, or, for pages that only show records, any record.

| Module | Page | Actions are |
| --- | --- | --- |
| `GatewayScanPage` | `GatewayDetailPage.tsx`: a scan is started, followed and reported | start, reply, the head of each poll loop and what it finds, loads of the row, installation of modules, leaving |
| `TailscaleConnect` | `TailscaleConnectPanel.tsx`, `RouteSelectionTree.tsx` | context asked for and answered, tenant picked, routes chosen, submit |
| `MonitoringPanel` | `GatewayMonitoringPanel.tsx` | page and filter changes, debounce, polls, replies in any order; clicks on Refresh and on a scan, whose awaits end before they read the tables for the page and filter of the time of the click |
| `EnrollmentWatch` | the watches of `GatewaysPage.tsx` and `WorkersPage.tsx` | token made, gateways listed, polls, replies of replaced watches, expiry |
| `ConsoleSession` | `auth.tsx`, `api.ts`, `App.tsx`, `LoginPage.tsx` | bootstrap, login, logout, reload and expiry in several tabs; a request is built with the token of its time and handled in a later step, with the cookie of that time |
| `TenantBoard` | `WorkerTenantsPage.tsx` | refreshes, actions of several rows under way together with the one mark they share, bulk requests, dialogs, edge switch |
| `FleetPages` | the lists of workers, gateways and tenants with their dialogs | reading, filter, poll, confirm, enrolment command |
| `RecordPages` | `ConsoleSettingsPage.tsx`, the tenant pages, the metrics | load, edit, save, verify, refresh |
| `UsersPage` | `UsersPage.tsx` with `accounts/admin_views.py`, `scoping.py`, `grants.py` | select, grant, revoke, change of role, the server's part of each |

A browser shows one page at a time and pages share only the session, so that
`MCConsole` chooses one of the models at the start (`focus`, from the constant `Opened`, which
has all nine in the run): its states are those of the models one after the other. `UsersPage`
is the one that has a part of the control plane in it: the grants, and the two ways in which the code derives access from them
(`Listed` and `MayOpen`). The constants of all pages are those of `MCConsole`, whose
`ConsoleAssumption` says what the pages take for granted of them: bounds are numbers, a
host has not the name of a subnet, and no identifier is taken for the word by which a
page says "nothing".

### The tooling: `MCTooling` and the tools

Every tool has the same four variables: `env`, what a behaviour exposes the files to
(commands, kills, writes that fail, edits by people); `disk`, the files; `procs`, what
each process is doing and what it has read; and `past`, what happened, as far as
properties ask for it. `InitIn(e)` are the initial states of one environment.
`MCTooling` chooses a tool (of `gsd-core`, of the editor kit with its hooks, installers and
stores, or the orchestrator of tmux sessions) and one of its environments; the tools' files
are disjoint.

| Module | Code | What is modelled |
| --- | --- | --- |
| `PlanningState` | `state.cjs` | every command on STATE.md, with the lock and how it is broken, the rebuilt frontmatter, summaries that are removed meanwhile, pruning and the archive |
| `PhaseLedger` | `phase.cjs`, `roadmap.cjs`, `milestone.cjs`, `planning-workspace.cjs` | phases added, inserted, removed, completed and archived, under and outside the planning lock; writes that fail |
| `PhaseManager` | `init.cjs`, `core.cjs`, `plan-scan.cjs`, `workstream-inventory*.cjs` | what each reader makes of a phase's files; agents that work from recommendations |
| `WorktreeSafety` | `worktree-safety.cjs` | cleanup of a wave one git command at a time, reaping, deaths and refusals |
| `Workstreams` | `workstream.cjs`, `active-workstream-store.cjs` | creation with its migration, completion, the way back of both file by file and the removal of the directory after it, pointers |
| `PlanningConfig` | `config.cjs`, `configuration.cjs` | creation, keys set, migrations, and a load that writes back |
| `PlanningHealth` | `verify.cjs`, `core.cjs` | checks and repairs while milestones come and go; the readers of the current milestone |
| `InstallerMigrations` | `installer-migrations.cjs` and its records | lock, plan, questions, journal, rollback |
| `KitInstallation` | `install-executor.js`, `install-lifecycle.js`, `install-state.js` | install, repair and uninstall beside a user who edits |
| `InstallPlan` | `install-manifests.js`, `install-targets/` | resolution of modules and the files it comes to |
| `TmuxOrchestrator` | `tmux-worktree-orchestrator.js` | runs that create, replace, fail and roll back |
| `McpHealth` | `mcp-health-check.js` | verdicts on tool servers with probes and back-off |
| `FactGate` | `run-with-flags.js`, `gateguard-fact-force.js`, `config-protection.js` | refusals before a tool call and what is remembered of them |
| `EditLog` | the hooks after a call and at the end of an answer | paths remembered, formatted and checked in batches; the log of calls |
| `SessionNotes` | `session-end.js`, `session-start.js`, `observer-sessions.js` | the note of a session, what the next one is shown, the observer's leases |
| `SessionNames` | `session-aliases.js`, `session-manager.js` | names of sessions, saved with backup and rename; lists of sessions |
| `StateStore` | `state-store/` | a database that is read, changed and written whole |
| `SkillVersions` | `skill-evolution/` | versions, ways back, provenance, health |
| `SkillSurface` | `surface.cjs`, `install-profiles.cjs` | the skills a tool is shown against the record of it |
| `LearningStore` | `learnings.cjs` | learnings of all projects, one file each |
| `IntelIndex` | `intel.cjs` | the index that agents write and commands read |
| `CodebaseDrift` | `drift.cjs` | what was added since the structure was written down |
| `KnowledgeGraph` | `graphify.cjs` | search, budget, age and comparison of a graph built elsewhere |

### Proofs and instances

`AgentCommandsProofs`, `TenantLifecycleProofs`, `GatewayMonitoringProofs`,
`WorktreeSafetyProofs` and `PlanningStateProofs` extend the module of that name and hold
the proofs about it; those about `WorkerConnection` and `StackProvisioner` stand at the
end of these modules. `ConsoleProofs` extends `MCConsole`: a section for each page, and the
console put together from them at its end. The environments of the runs are at the end of
`TenantLifecycle` and `GatewayMonitoring`, and in `MCTooling` beside each tool.

## The runs

| Run | Shows | Bounds |
| --- | --- | --- |
| `overlap` | commands run in order and at most once, recorded results are real, however requests overlap, and every command settles for good | 2 commands, 2 handlers |
| `serial` | the sweep fails nothing the daemon holds, confirmed results stay, the life cycle is implemented | 3 commands, 1 handler, 1 kill |
| `tenant` | status and key tell what the host has and removals end; running tenants resolve, no row is deleted over a stack; work is doubled only by a request that looked for an open command before the other had queued its own | calm: 4 commands, 1 request cut short; rough: 3 commands, 2 losses, slow requests, old results applied again, in both one request at a time; crowded: 2 server processes, 2 commands, 1 loss, slow requests |
| `removal_overtaken` | finding 1 | calm, nothing cut short |
| `worker_connection` | revoked credentials stay revoked and their agents fall silent, live ones return ONLINE; a deletion leaves credentials only to an agent that registered after its view had read the worker | 1 host, a token of 1 use, 1 crash |
| `worker_shutdown` | finding 2 | 1 host |
| `worker_enrolment` | finding 3 | 2 hosts |
| `gateway` | hosts announced once, every chunk scanned again and again, no host waits for ever | rotating: 1 host, 1 or 2 chunks, 2 acks at once, 1 loss, 1 change; queueing: 2 hosts, 1 worker thread, 1 loss, 1 change |
| `gateway_full_sweep` | finding 4 | 3 chunks, `chunk_count` 2 |
| `stack` | tenants do not disturb each other, modes are not mixed, a removal leaves nothing | 2 tenants, 2 modes, any number of commands and failures |
| `console` | every page of the console: scans are reported, abandoned polls change nothing, commands carry what is shown, pages at rest show what is so, a row gets a second action only after another row's has taken its mark, a request is refused for its token only when overtaken by a login, pages recover | per page 2 scans, 2 replies under way, 1 failure, 2 rows, 2 tabs, 2 users, 3 tokens, 4 requests of a board's operator |
| `tooling` | locks exclude, what agents wrote is lost in the named windows only, a user's files and keys survive, what was asked is done, failures restore, records agree | per tool 1 to 3 processes, 1 kill or 1 or 2 failures, the environments in `MCTooling` |

The properties of `console` and `tooling` each ask one question of several models; the comment
above each names the code it is about and the conditions under which it is asked, and the part
of each model is stated in that model's module.

Why the bounds suffice to meet the cases. Two handlers are what the server has,
and the overlaps that matter are of an abandoned request with the next one. Two
commands are enough to run one too often or out of order. `serial` needs a third
to have a batch of two with a command that comes later. The poll interval of one
tick makes the cutoff three ticks, more than the phases of a request apart. Killed handlers
beside overlapping ones are left to the proofs, which bound neither. `stack` needs no
bound besides its sets: one tenant and a neighbour, and the two modes there are. Four
commands of a tenant are provision, the bootstrap that follows, and two more
(for instance stop and deprovision). One host per gateway is enough for two acks
to announce it twice, two hosts and one thread for one to starve behind the other.
A loss or a change is bounded because each can happen at any point: one is enough
to reach each single-failure state, and liveness cannot be demanded of a network
that fails for ever. Two replies under way can overtake each other, which is all a page
can notice of any number; two scans are the one followed and one started meanwhile; two
tabs are the one that signs in and the one that does not know. Four requests on the board are
the creation of the second tenant, an action of each row, and the first row's second one. A command of the tooling
is crossed by one other, and a third matters only where two wait for the lock of a
third; one death or failure at any step reaches each state that one leaves, and the
environments pair every two commands of a tool (`StateEnvs`, `LedgerEnvs`) or those
that touch the same files.

Bounds named by constants: `MaxCommands`, `MaxKills`, `MaxCrashes`, `Handlers`,
`Requests`, `Hosts`, `Totals`; in `MCConsole` all constants named `Max...`, among them
`MaxBesides` (bulk requests and the edge switch are among the first so many requests of the
board; a deletion, `AskLast`, is the last one) and the `Loads` of the board; bounds that
belong to an environment (`commands`, `losses`, `kills`, `faults`, `edits` and the like)
are fields of `env`. `TenantLifecycle` bounds the number of commands by beginning no
request once there are that many; a command that a request under way or an
acknowledgement adds may exceed it. The `worker_*` runs set `CHECK_DEADLOCK FALSE`: a
deleted worker whose hosts were never enrolled has nothing left to do. So do `console`
(a page that was left, or has used up its operator's actions) and `tooling` (when the commands
of the environment have ended).

### What has to be assumed

In the environment `CalmOne` of `tenant`, TLC refutes `StatusTellsStack` without these
conditions:

- not `slow`: if a command is executed and acknowledged before the
  request that queued it writes PROVISIONING, the write overwrites the result and
  `StatusTellsStack` fails. The agent polls every few seconds and executes for
  seconds to minutes, so this needs a request that stalls.
- no `repolls` and no `losses`: applying an old result again undoes a
  later one; and a lost ack leaves the status as it was, since the sweep does not
  touch the tenant.

`Rough` has none of these conditions, but its requests run one at a time
and are not cut short: otherwise a provision that dies
between the enqueueing and the status write leaves a tenant PENDING whose command
will run, and a deletion then removes row and DNS record at once although the
stack is about to start. In `Crowded` the requests of two processes overlap: the
look for an open command and the enqueueing are separate statements, so two requests can
queue the same work, and `OneOpenCommand` says that this is the only way in which it is
queued twice. Of overlapping requests one can also provision a tenant that the other deletes
as new, so `RunningIsResolvable` and `NoStackLeftBehind` are of environments in which requests
follow each other (`Serial`). `HeldUntilRecorded` and the
refinement need one handler at a time, as said above: an abandoned poll that works
on can set a settled command DISPATCHED again.

`stack` says nothing of tenants that are not on record, because the code does not
keep them: one whose provision failed after its containers were started, and which an
operator then starts, is reported as running and removed as an orphan by the next
command for a neighbour. Nor do stopped tenants stay stopped, since every provision and
removal brings up the whole file. A removal that failed after rewriting `compose.yml`
cannot be repeated, as `compose rm` no longer knows the services. And a provision that
is repeated finds its database and does not restart PgBouncer, which may have been
restarted without it. TLC finds each of these; no text in the repository says otherwise.

A heartbeat that was authenticated before a disconnection writes ONLINE over
DISABLED; the status then becomes OFFLINE when the heartbeat is stale. Nothing in
the code says that DISABLED lasts, so no property does either.

The view that deletes a worker has read it and its agent before the transaction, although the
service is to remove the "worker record after cleaning up agent state"
(`workers/services.py:183`): an agent that registers in between outlives the worker with valid
credentials. So does one that lost the worker to an overlapping registration.
`DeletedHasNoCredentials` names both (`past.late`, `past.replaced`), and TLC refutes it
without the first. With one host only the first case occurs; the second is left to the
theorem, which is for any hosts.

Of the console:

- `MonitoringPanel`: with replies out of order a table may show the rows of an older
  filter until the next poll; `RestingTableShowsItsKey` is stated for replies in order,
  recovery for any order. So is `ShownIsTrue` of the other lists, with no reply lost. And a
  click on Refresh or on a scan reads the tables last, for the page and filter its closure
  was made with: a table that has gone on since comes to rest on those rows, which
  `RestingTableShowsItsKey` names as its one exception (`late`).
- `GatewayScanPage`: a gateway row that was read long before it comes puts an older result
  on the screen, and one that names another open scan makes the page follow that; both are
  in the model and named in `SilentStep` and `owed`.
- `EnrollmentWatch`: after a listing that failed, the first poll takes every gateway for
  new; `AnnouncedIsNew` is stated without failures. A machine is sure to be announced
  only while one watch is there: the reply of a watch that was replaced ends the new one.
- `TenantBoard`: `actionLoading` is one mark for all rows, which the next action takes and
  the first answer clears; `OneRequestPerRow` says of each row that it has a second action
  under way only after its mark went that way (`unmarked`).
- `ConsoleSession`: a request that was built before another tab's login and handled after
  it is refused and not repeated. `RefusedIfOvertaken` says that nothing else is refused.
- `UsersPage`: a viewer who still holds an edit grant from the time as an editor is
  listed the tenant and cannot open it; `ListedCanBeOpened` leaves those users out.

Of the tooling, each stated at the property as a guard or by the environment:

- Locks. The lock of STATE.md and that of the installer are broken when they are old,
  by unlinking a path: two who wait for a dead holder, or one who waits for a slow one,
  get inside together. `OneInside`, `EntriesKept`, `ProgressStep` hold for holders that are
  not slow, and after a death for one who waits. With the lock trusted entries are still
  lost in three windows, which `EntriesKept` names and the history variable `past.raced`
  records: a `sync` reads before it locks, although the lock is "to prevent parallel agents
  from overwriting each other's changes" (`state.cjs:1076`); two prunes write the archive
  outside the lock, although what is pruned is "Recoverable" (`state.cjs:1864`); and a prune
  dies between STATE.md and the archive. TLC finds each when its window is left out of
  `EntriesKept`. The frontmatter's counter
  falls at a milestone switch, at a `sync` that counted too early, and when it is
  recomputed after summaries were removed (`ClearPhase`).
- Planning lock. `LedgerAgrees` and `CompletionIsWhole` are stated at rest and undisturbed: removal of
  a phase renames directories before it takes the lock, and a holder loses it after ten
  seconds. A completion of which a write failed and whose undoing failed as well is left out.
- `Workstreams` has no lock at all; its properties are those of commands that do not
  overlap, with kills and failing moves. A failed command moves its files back one by one,
  passes over what does not go, and removes the directory with everything in it: files that
  went that way (`past.unreturned`) are named as lost.
- `PhaseManager`: a phase whose executor has not written a summary is recommended again,
  so that agents are dispatched each on a phase of its own.
- `TmuxOrchestrator`: a run that lost the race for the session's name kills the session and
  removes the notes of the other when it rolls back; `OthersKeptStep` is of worktrees and
  branches, while no run is asked to replace what is there.
- `InstallerMigrations`: a rollback that cannot restore a file deletes its backup all
  the same, so the properties are those of rollbacks that restore. A plan that was
  blocked by questions is applied after the lock is released.
- `KitInstallation`: a second installation with another selection, or of another
  version, writes a state of its own over the first one's; the state tells what is on
  disk for one selection.
- `McpHealth`: overlapping hooks write back old verdicts of other servers; the back-off
  is stated for hooks that follow each other and do not die. `VerdictsAreRecent` holds for all.
- `SessionNames`, `StateStore`, `SkillVersions` and `SessionNotes` let one process begin
  when the one before has ended: their code reads a file, works and writes it back
  with nothing to keep two apart, and the last one wins. What they model are deaths and
  failures inside one. The state store still loses its file to a death in the middle of
  writing (it is written in place); the properties name that case.
- `LearningStore`, `IntelIndex`, `CodebaseDrift`, `KnowledgeGraph`, `SkillSurface`,
  `FactGate` and `EditLog` do overlap; what an overlap can spoil is in the guard of the
  property it would break.

### Fairness

`AgentCommands`: each handler goes on (it is served or killed by the timeout), the
daemon goes on (`run_forever` catches everything and subprocesses have
timeouts), a request that is not answered fails (client timeout), and time passes.
Weak fairness is enough, since each of these stays enabled until taken. Enqueueing,
crashes and kills have none. `TenantLifecycle`: the agent and a request that has
begun go on. `WorkerConnection`: daemons cycle and are restarted (systemd),
handlers finish, time passes; operators and the liveness check (it runs when a page
is viewed) have none. `GatewayMonitoring`: the scheduler's loop, the agent, its
threads and handlers go on and the interval passes; operators have none, except
that a request that has begun ends.

`MCConsole`: what is due happens (`Due`, weak fairness): a loop goes on, a timer or an
interval fires, a request is answered. Strong fairness (`DueAgain`) is assumed of three
things that may be possible only from time to time: the deadline at the head of a scan's
loop, since the code compares clocks there and the clock goes on between two polls; the
answer to the oldest request of a table, which other answers may precede but not for
ever; and the poll that finds a newcomer, since failures are bounded. Operators have
none. The tooling has no liveness: a command ends or is killed, and nothing waits but
for locks that are broken when old.

## Findings

1. `removal_overtaken`: `_reject_if_deleting` refuses work on a tenant "being
   removed", but the acknowledgement of an earlier command overwrites DELETING, and
   work is then queued behind the removal.
2. `worker_shutdown`: "disconnect revokes the agent token and sends shutdown"
   (`agent_daemon/worker_daemon.py:50`), in this order: the daemon can no longer
   poll for the shutdown.
3. `worker_enrolment`: a "single-use or limited token" (`workers/models.py:66`) can
   be used twice by two registrations at once.
4. `gateway_full_sweep`: "every /24 chunk runs each cycle" (frontend,
   `GatewayMonitoringPanel.tsx:760`), but a full sweep is cut to `chunk_count` chunks.

## The proofs

`AgentCommandsProofs` proves for any number of commands and handlers, any poll
interval and any number of kills, from `ConstantsAssumption` alone (which says
that the numbers are naturals and that `NoHandler` is not a handler):

- `TypeCorrect`: `Spec => []TypeOK`. `TypeOK` is inductive only together with
  `DaemonInv` (what the daemon's state says of `current`, `batch` and the phase of
  the handler it waits for): an ack's outcome is that of `current`, so it has a type
  only because a reporting daemon has a current command that ended.
- `ExecutionOrder`: `Spec => []ExecutedInOrder`. `log` alone says nothing of what is
  appended next, so the invariant `OrderIInv` follows a command through its whole
  way: what was started precedes the batch, which precedes everything not yet handed
  over (`OrderInv`); the list of a poll the daemon still waits for also lies behind
  the log (`AwaitedInv`), which is what makes abandoned polls harmless although
  they rewrite states; and such a list has no gap below its newest row (`ListInv`),
  because rows appear in creation order (`CreationInv`) and only ever leave the fresh
  states (`FreshShrinks`).
- `OutcomesAreReal`: `Spec => []RecordedOutcomeIsReal`. A posted outcome is the
  outcome of the command (`OutcomeInv`), which never changes again because the
  command is not started twice: it rests on `OrderIInv`.

- `HeldIsSafe` and `Refinement`: `HeldUntilRecorded` and `ImplementsLifecycle`, under
  `OneHandler`. With two, an abandoned poll can set a settled command DISPATCHED again;
  TLC shows it. The refinement is proved step by step: each step of a handler or of the
  daemon is one step of `CommandLifecycle` or changes neither `status` nor `result`.

`TenantLifecycleProofs` proves for any bounds of the environment (commands, losses,
requests cut short, old results applied again) and any set of requests:

- `TypeCorrect`, which needs what a command list may become in one step (`Grown`): none
  goes, none opens again, one is added at most.
- `WorkIsNotRepeated` (`OneOpenCommand`) for any number of server processes: a request that
  is about to enqueue has found nothing that was opened since, unless another one enqueued
  the same work after its look (`OpenInv`), and only such a request makes two open commands
  of one kind (`past.late`, `past.doubled`).
- `RunningResolves` (`RunningIsResolvable`) and `RowsOutliveStacks` (`NoStackLeftBehind`)
  for environments in which requests follow each other (`Serial`): of two at a time one can
  provision a tenant that the other deletes as new. Their invariant `IInv` says that a tenant looks new only while it
  is, or while the request that queued its provisioning still has to write the status
  (`PendingInv`, `LeaveInv`), from where the clause about requests cut short comes; that
  the record precedes the provisioning (`DnsInv`); and that a removal that was
  acknowledged left no containers and no row (`RemovedInv`).
- `QuietStatusTells` (`StatusTellsStack`) and `RecordedKeyWorks` (`KeyOnRecordWorks`)
  without such a hypothesis. The row of a tenant tells what the host had when the last
  command ended that was not yet acknowledged (`ToldInv`), so the invariant speaks of the
  command in the agent's hands; the key on record is one that the database accepts until
  a removal has run (`KeyInv`); and a status that only an open command can end has one
  (`WaitInv`).

`StackProvisioner` proves for any set of tenants and of modes, from
`StackAssumption` alone (a missing file is not a mode): `TypeCorrect`, `NeverMixed`
(`NoMixedStack`), `ListedRun` (`ListedKeepRunning`), `RemovalIsComplete`
(`RemovedLeavesNothing`), `DropsAreSafe` and `NeighboursConnected` (the two action
properties). They share one inductive invariant, `IInv`: the command under way fits the
record (`ModeInv`), the generated files list what they are generated for (`BundleInv`),
the containers of the command's tenant run or are gone from some step on (`JobInv`), and
nothing runs or is known to PgBouncer before it was first started (`FileInv`, `PoolInv`).
`RemovalIsComplete` needs more: PostgreSQL creates on its first start what the bundle
lists, which could bring back the database of a tenant removed before that start.
`FirstStartInv` says why it does not: until then the stack knows one tenant at most, so
no other tenant can start it with the removed tenant's files. TLC checked each part
of `IInv` before it was proved.

`WorktreeSafetyProofs` proves `WorkSurvives` for any sessions, any worktrees, any
manifest of them and any environment `e`: `RunIn(e) => [](CommitsKept /\ SummariesKept)`,
which is what `NothingLost` asks of the worktrees. A cleanup checks first and acts
later, one git command after the other, with reaping, refusals and deaths in between, so
the invariant `SafeInv` carries what was checked to where it is used: no agent works
beside a cleanup (`AgentsDone`, since the cleanup begins when all have returned and dead
agents do not come back), therefore a worktree that was clean stays clean and what is removed
is merged (`MergedFirst`), and a summary that was copied stays copied
(`RescuedFirst`); `GoneIsSafe` then says of everything that is gone why it may be.

`PlanningStateProofs` proves for any finite set of processes, each with any command, any
plans, deaths and plans finished meanwhile (`Environments`):

- `OneWriter`: `OneInside` of STATE.md. Who is inside holds the lock (`Held`), the lock is
  old only when its holder has died (`OldIsDead`), and only after a death is a lock taken
  for stale (`StaleAfterDeath`). The unlinking of a stale lock preserves this because the
  dead, the one that unlinks and one inside would be three at work, and `LockTrusted`
  admits two; with a third, two could be inside together.
- `EntriesAreKept`: `EntriesKept`, with any number of syncs, prunes and deaths. What was
  written is in the document, in the archive, with a prune that moves it or was lost in one
  of the three windows (`Kept`, `past.raced`), and the same holds for the document that a
  process inside is about to write (`ReadKeeps`), which needs `OneWriter`; and a process
  holds pruned entries only between its two writes (`Carried`).
  On the way each of the fourteen commands is shown to keep all entries
  (`TransformedEntries`), except those that `resolve` takes out and `prune` carries away.

`WorkerConnection` proves `TypeCorrect`; `RevokedStaysRevoked` (`RevokedForGood`, the first part of `QuietAfterRevoke`), for any
hosts; and `DeletionRevokes` (`DeletedHasNoCredentials`), for any hosts and uses of the
token: only agents that registered after the view had read the worker, or had lost the
worker to an overlapping registration, keep their credentials. The invariant relates
registrations under way to the token's uses (`ReadUses`), agents to the worker
(`Enrolled`), and what the deletion has read to what is so (`Known`). That a revoked agent
falls silent, the second part of `QuietAfterRevoke`, is liveness.

`GatewayMonitoringProofs` proves for any finite set of hosts and any chunks, processes and
worker threads: `TypeCorrect`, with the cursor inside the chunks after each change of the
policy; `HostsAnnouncedOnce` (`AnnouncedOnce`), where the unique constraint is what makes
the second of two overlapping acknowledgements harmless; and `PoolKeepsItsSize`, the bound
of the agent's pool, which no run lists. What the queue takes of a list is written as a
subsequence of positions (`Nth`, `Subsequence`) instead of a filter, about which nothing
could be proved; `NthIsOne` shows by ranks that there is such a position.

`ConsoleProofs` proves everything but liveness that `console` checks, for any machines,
rows, tenants, subnets, tabs, users, texts and requests under way, from
`ConsoleAssumption`: `TypeCorrect` (`TypeOK`), `PagesShowTheTruth` (`ShownIsTrue`),
`RefusedOnlyIfOvertaken` (`RefusedIfOvertaken`), `RowsActOneAtATime` (`OneRequestPerRow`) and
`PagesStepAsShown` (`StepsAsShown`), and `RoutesAreGuarded`, which no run lists.
`OnlyOpenMoves` says that a step of the console is one of the open page, so that each page
needs an invariant of its own, and `ConsoleInv` joins them:

- `WatchInv`: until a request fails, what had enrolled before a watch's token is known to
  it (`BeforeIsKnown`).
- `BoardInv`: a row has no more requests under way than were made, and a row that has
  one is marked and has no other, unless another row's action took its mark
  (`ActingIsMarked`).
- `ConnectInv`: every request for the context has a cause that is bounded
  (`RequestsBounded`), hosts are selected under their subnet (`SelectionTyped`), and once
  nothing is being loaded the preview is of the tenant picked (`PreviewIsSelected`).
- `ScanInv`: one loop is live while the page polls, that of the scan it follows
  (`OneLiveLoop`); scans are numbered as they are created, and tables and rows on their
  way hold scans of their mode (`ScansInOrder`, `TablesHoldTheirMode`), from where it
  follows what changes a table, and that only a row read long before puts it back;
  `FollowingKept` adds that the following ends with the scan's own loop only.
- `PanelInv`: a table that waits for a reply waits last for the page and filter it
  shows, or for what a click has read late (`TablesForTheirKeys`).
- `SessionInv`: a tab has a token in its cache only when the browser has a cookie
  (`CookieFirst`), and a request that nobody signed in after would be accepted if it
  arrived now (`InTime`).
- `FleetInv`: the page waits for an action exactly while its only request is under way
  (`FleetActing`); the latest reading is of the page's filter, and what it found is on
  record or about to be read again (`FleetCalm`).
- `RecordInv`: what came last of the record is the record, or a request is under way after
  which it will be read (`RecordFresh`); the fields follow it unless something was typed
  (`RecordDraft`).
- `UsersInv`: the server takes up requests in their order (`UsersOrder`); the list follows
  the last change of each account that was answered (`UsersListed`); the grants of the
  selected user are read after everything that was asked before the selection
  (`UsersSelected`); and of the replies that tell of one grant the last one stands, while
  without one what was read stands (`UsersKnown`).

What the proofs found in the models is now changed there. Arms of several CASEs
overlapped (first in `Routed`, then in thirteen modules of the console and the tooling), so that
TLA+ left open which of them applied; each arm now excludes those the code tries before
it. `SentAsShownStep` could be proved only if no host is in two subnets of a scan, which the
code does not promise: `buildAdvertiseRoutes` leaves out what it has `seen`, because
targets may overlap. The property now says which hosts the routes reach, the instance has
a host in two subnets, and the assumption is gone.

Each step lemma has one step per action of `Next`. Every invariant was checked by TLC
before it was proved.

Only model-checked are: liveness (`QueueDrains`, `RemovalEnds`, `ComesBackOnline`,
`EveryChunkScanned`, `QueueIsServed`, `PagesRecover`, the last part of
`QuietAfterRevoke`), which TLAPS does not reach; `TypeOK` and `ProgressStep` of
`PlanningState` and other properties that depend on sums and folds, whose values for every
input would need induction over data; and what `tooling` asks of the
tools not named above, also where it asks it of several at once (`TypeOK`, `OneInside`,
`NothingLost`, `FailureRestores`, `RecordsAgree`, `NoStepBack`).

## Not modelled

- Rendering and validation of configuration, scanners and the parsing of their output,
  metrics, health history, framework configuration and deployment: pure, appended to
  without being read by a decision, or outside the program.
- Gateway enrolment: the statements of the worker half with other names.
- Verification of a tenant on its worker: one step that succeeds or fails.
- Tailscale and module commands on the host: lists of shell commands without state.
- The console's charts, notices and layout.
- Of the tooling, the command router, the commands that only gather facts or write one
  report, and everything that is a text for an agent.

## Plan

1. Proofs about the other tools with a lock or with moves of files: `Workstreams`
   (`FilesKept`), `InstallerMigrations` (`OneInside`), `TmuxOrchestrator`
   (`OthersKeptStep`).
2. A tenant's verification and health history in `TenantLifecycle`.
