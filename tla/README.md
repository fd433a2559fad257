# A TLA+ model of ClusterShell

ClusterShell runs agents in sandboxes on Kubernetes. A **gateway** (a Rust gRPC
server with a SQLite or Postgres store) keeps sandboxes, policies, settings,
providers and SSH sessions; a **supervisor**, PID 1 of each sandbox, isolates the
agent, proxies its traffic by the policy it fetches from the gateway, runs an SSH
server and reports denials and logs; operators use a **command line**, which also
deploys gateways, or a **terminal interface**. Almost all of the gateway's
handlers are lock-free async functions: they read a row, await, and write
something that depends on what they read. This directory models these programs,
checks them with TLC and proves their safety properties, for any number of
requests, users, connections and sandboxes, with TLAPS. Paths below are relative
to the repository; `crates/` is `src/crates/` in `PROJECT.json`.

## Inventory

| Part | State | Operations | Works with | Module |
|---|---|---|---|---|
| policy revision store (`clustershell-server/src/persistence`) | rows (sandbox, version) with payload, hash and status; draft chunks; one table of messages | insert a revision (UNIQUE on sandbox and version), update a status, supersede older ones, upsert, delete and list messages | every handler, one statement at a time | `PolicyStore` |
| policy and draft handlers (`grpc.rs`) | none between requests; what one request has read | update_config, get_sandbox_config, report_policy_status, submit, approve, approve all, reject, undo, edit, clear | the store, the supervisor, operators | `PolicyHandlers`, `PolicyLog` |
| supervisor policy sync (`clustershell-sandbox/src/lib.rs`, `grpc_client.rs`) | the engine, the tracked revision and hash | load or discover a policy, enrich it, poll, reload, report | the gateway, over a network | `PolicySync` |
| sandbox lifecycle (`grpc.rs`, `sandbox/mod.rs`, `sandbox_watch.rs`) | Sandbox messages, the custom resource, the watch bus | create, delete, watcher events, orphan reconciler, watch streams | Kubernetes, the store, clients | `SandboxLifecycle`, `SandboxSpec` |
| SSH sessions and tunnels (`ssh_tunnel.rs`, `grpc.rs`) | session rows, two connection counters | create, revoke, connect, tunnel end, reap, clean up with the sandbox | the store, the sandboxes, clients | `SshTunnel` |
| settings (`grpc.rs`) | one global and one blob per sandbox, the global policy's revisions, one mutex | set, delete, set or delete the global policy, read | supervisor poll | `Settings` |
| inference (`inference.rs`, `clustershell-router`, `l7/inference.rs`) and providers | provider records, two managed routes, the supervisor's two route caches | create, update, delete, set a route, bundle, refresh, route a request | gateway, supervisor, upstreams | `Inference` |
| proxy and engine (`proxy.rs`, `opa.rs`, `l7/`, `identity.rs`) | the engine behind a mutex, binary hashes, certificates | one task per connection, reload | supervisor sync, DNS | `OpaEngine`, `Egress` |
| supervisor start and reaper (`clustershell-sandbox/src/lib.rs`, `process.rs`, `sandbox/linux`) | namespace, rules, children | run_sandbox, spawn, wait, reap | kernel | `Supervisor` |
| SSH server (`ssh.rs`) and exec (`grpc.rs`) | nonces, channels, threads of a session | handshake, shell, exec, forward, exit | clients, gateway | `SshServer` |
| denials, log push, buses (`denial_aggregator.rs`, `mechanistic_mapper.rs`, `log_push.rs`, `tracing_bus.rs`, `sandbox_index.rs`) | a window of summaries, a batch, tails and broadcast channels | ingest, flush, push, reconnect, publish, subscribe, replay, remove | draft handlers, watch streams | `Reports` |
| command line (`clustershell-cli`, `forward.rs`) and bootstrap | configuration directory, PID files, Docker resources | all commands, deploy, stop, destroy | gateway, Docker | `CliRequests`, `Bootstrap`, `Cli` |
| terminal interface (`clustershell-tui`) | the App, background requests | keys, ticks, answers | gateway | `Tui` |
| operator (`clustershell-operator`) | custom resources only | reconcile | Kubernetes | none: does not compile |

What is hard here, and what the properties are for:

* **Read, await, write.** Revisions are numbered `latest + 1` by handlers that
  race; whole Sandbox messages are written back after a read; a draft decision is
  taken from a status that is stale by the time it is acted on; a dialog shows a
  list that is refreshed under it.
* **Two stores without a transaction.** A sandbox is a row and a custom resource;
  a decision is a policy revision and a chunk status; a session limit is two
  counters behind two locks; a gateway is Docker resources, secrets and files.
* **Failure between two steps.** A request is dropped when its client goes away, a
  Kubernetes call times out with or without effect, a watch restarts and skips
  events, a report or a log batch is lost, a deployment is interrupted, a process
  restarts.
* **One decision, several questions.** A connection asks the engine for a decision,
  for allowed addresses and for L7 rules, each under its own lock, and DNS answers
  several addresses.
* **Must happen eventually.** A new policy or route reaches its cache, an orphaned
  record is swept, a stream shows the last state, a stale session is reaped, a
  zombie is collected, a form is released.

`PROJECT.json` lists each hazard at its line, with the properties that cover it.

## Modules

| Module | Models |
|---|---|
| `PolicyStore` | the statements on one sandbox's `sandbox_policies` rows, as operators on a table; no state of its own |
| `PolicyLog` | abstract: an append-only log whose every entry is one outstanding request applied to the entry before it |
| `PolicyHandlers` | the policy and draft handlers, one action per store call, plus dropped futures and failing best-effort writes; implements `PolicyLog` |
| `PolicyHandlersProofs` | its theorems, with the refinement of `PolicyLog` |
| `PolicySync` | the supervisor's startup and poll loop, with the gateway's answers, a lossy report channel and restarts |
| `PolicySyncProofs` | its theorems, and those about `Inference` |
| `SandboxSpec` | pure: validation of a create request, the custom resource and its pod template, status and phase from the resource |
| `SandboxLifecycle` | creates and deletes of one name against Kubernetes, the watcher, the reconciler and a WatchSandbox stream |
| `SandboxLifecycleProofs` | its theorems |
| `SshTunnel` | sessions, CONNECT requests, tunnels, counters, cleanup and the reaper |
| `SshTunnelProofs` | its theorems |
| `Settings` | the global and setting branches of update_config, the reads of get_sandbox_config |
| `SettingsProofs` | its theorems |
| `Inference` | provider records, managed routes, bundle, route caches, intercepted connections and the router |
| `OpaEngine` | pure: loading a policy and the Rego rules |
| `Egress` | one task per proxied connection, against reloads, replaced binaries and DNS |
| `EgressProofs` | its theorems |
| `Supervisor` | run_sandbox, children, waiters and the zombie reaper |
| `SshServer` | extends it with the SSH server, its sessions and the gateway's exec |
| `Reports` | extends that with denials, proposals, log push, the two buses and a watch stream |
| `SupervisorProofs` | theorems about these three |
| `CliRequests` | commands that only talk to the gateway, and its answers |
| `Bootstrap` | extends it with deploying, stopping and destroying a gateway |
| `Cli` | extends that with sandboxes, sessions, forwards, registration and login |
| `CliProofs` | theorems about `Bootstrap` and `Cli`, and those about `Tui` |
| `Tui` | the event loop of the terminal interface and its background requests |
| `MC*` | the small instances; each `.cfg` file is one run |

**How state and actions correspond.** A variable is a table, a map of the server,
or what an async function keeps across an await (`loc`, `op`, `conn`, `calls`,
`cmd`, `sup`). A `pc` names the await it is at. An action is the code from one
await (or lock) to the next, so all interleavings of the real program at store
level are behaviours of the model. Requests arrive through an action with a guard
that is the handler's validation; everything a client chooses is picked with `\E`.

**Data.** A policy is its static part (paths and identity) and its set of network
grants; a grant is identified with the draft chunk that proposes it, because
chunks are unique per (host, port, binary) and the rule name is derived from host
and port. Hashes and revisions are the values they hash (no collisions). In
`PolicySync` a policy is its network rules and whether the baseline paths are in
it; some rules are ones the engine refuses. In `OpaEngine` it is the rules
themselves, with hosts and binaries as sequences of labels. Tokens, ids and
connections are numbered in the order they are drawn, and the first idle slot
takes a request: they are never compared, so this only removes symmetric copies.

**Composition.** `PolicySync` treats one writing handler as one step;
`PolicyHandlers` is the module that interleaves them. `SshTunnel` contains the
part of delete_sandbox that removes sessions, `Settings` the part that removes the
settings row, `SandboxLifecycle` the rest. `Supervisor`, `SshServer` and `Reports`
are one process and share one run; so do `CliRequests`, `Bootstrap` and `Cli`.
`PolicyStore` is shared by the two policy modules.
`Tui` and `Inference` have specifications with names of their own (`TuiSpec`,
`InferenceSpec`), because their proofs share a module with those of `Cli` and
`PolicySync`, with which they share no state.

### PolicyHandlers

Requests: `set` (update_config with a policy for a sandbox), `approve`,
`approve_all`, `reject`, `undo`, `config` (get_sandbox_config and its lazy backfill)
and `report`. Submitting, editing and clearing chunks are single statements and
single actions. The merge and remove loops re-read the latest revision after a
UNIQUE violation, `MERGE_RETRY_LIMIT` times; update_config does not retry. A row
of a cleared and resubmitted chunk is told from the old one by a generation
number. The global policy may come and go; handlers check it where the code does.

### PolicySync

get_sandbox_config is two steps, since it reads revisions and settings
separately. Reports are messages that may be lost or arrive when the supervisor
has moved on. `everLoaded` and `inSync` are history variables. A supervisor may
fail to start, fail to connect (the poll task then ends) or be restarted.

### SandboxSpec and SandboxLifecycle

Rows are keyed by id and unique by name, the resource is addressed by name. A
Kubernetes call that times out or is dropped may have had effect. `gone` records
which rows were removed and whether a failed create did it. The reconciler's grace
period is modelled by its consequence: a record whose create is still in its
Kubernetes call (30 s timeout) is never old enough (300 s). A sweep lists one page
of the oldest rows, whatever their phase (`SweepPage`, 500 in the code); `older`
counts the rows of other sandboxes before the one modelled, which come and go. A restart of the
gateway, or of the watch, loses undelivered events and lists what exists. The
resource carries the pod template that `SandboxSpec` computes: environment from
template, spec and gateway in the code's order, security context, volumes and
mounts, resources and GPU. There is one sandbox name, so the check of a name's
length is left out, as are malformed limits and the wording of conditions.

### SshTunnel

Counters are total functions, 0 standing for a missing entry. The lock of the
per-sandbox counter is kept while the token's slot is rolled back, so that is a
label of its own that excludes others. No await lies between taking the first
slot and spawning the tunnel, so a drop happens only before. revoke_ssh_session
writes back the row it read, which may re-insert a deleted one. The reaper and
the cleanup see one page of the oldest rows.

### Settings

One action per await of the three writing branches; the mutex is a variable that a
call holds from its lock to its last store call, and a drop releases it. `seen`
records which effective configurations were in force while a reader was under way.

### OpaEngine and Egress

The rules are evaluated as the Rego does, with the same order of maps. A connection
goes through identity (the /proc walk, ancestors, hashes), decision, address
resolution, connect, and then copies, terminates TLS, or relays inspected
requests one at a time; every query of the engine is its own step. HTTP is kept to
method, path, status and the framing headers that decide whether a connection is
reused. Clients may pipeline: what they send behind a chunked body may go along
with it, since relay_chunked reads in bulk (`beyond`); behind any other body it is
the next request. Addresses are classes: public, private, loopback, link-local,
unspecified.
`RulesPackage` is the package of the baked rules; the run reads it as
`clustershell.sandbox`, the one the queries name (see the observations).

### Inference

A request of the gateway is its store calls; the verification ping may fail. The
refresher reads the bundle route by route, compares the revision, then writes the
two caches, each behind a fair read-write lock that requests hold for reading
from the choice of a route until the client has taken the answer. Nothing makes a
client do so: `ClientsRead` is the premise of the properties that need it.

### Supervisor, SshServer, Reports

A process is named by the channel that started it; pids are not reused. run_sandbox
is one step per thing it sets up, and `setup.faults` says which of them may fail. A
session has its writer, its readers and its exit thread; output is counted. The
exit thread's waits for the readers may run out at any time, as a recv_timeout does
(`timedout` records it).
russh errors after the exec request never have a text that is retried; a connection
lost after it reports code 1. A denial window is drained, mapped and submitted chunk
by chunk; the confidence step at ten denials is left out. A stream replays the
whole tail (the default of 200 lines is a client's choice).

### CliRequests, Bootstrap, Cli

Users each run a script of commands against one configuration directory, one
Docker host and one table of processes; a set-up (`Setups`) is what is there at the
start, and the scripts. A command stops at each request, file or
child it waits for; calls may fail and Ctrl-C may come there. The gateway's answers
are atomic, since its own interleavings are the other modules'. kill -0, ps and
kill of a stopped forward are a step each, and so are stopping, removing and
creating a container; a PID file may be of the old form, without a sandbox id. A
stop before a forced removal always has effect, printing is left out, and the
bootstrap path inside sandbox_create is left out because no caller reaches it. The sandboxes of a gateway are a set; `--all`
takes them in any order.

### Tui

A handler runs to its end before the next event, so a key, a tick or an answer is
one step; requests are a set (identical ones in flight are merged) answered from
what the gateway may hold at that moment. An empty set of answers means that every
such request fails. Text fields are empty, a number or something else; drafts fit
the viewport; the log pane may have no row at all. The filtered log is the set of
the positions that pass the filter, and the chunks of the approve-all dialog are a
set: nothing depends on more than how many lines there are and which chunks.

## Runs

A bound named `Max...` only limits how many inputs a behaviour has; the table
gives what the bounds still allow.

| Run | Checks | Bounds, and why they suffice |
|---|---|---|
| `PolicyRaces` | `TypeOK`, `VersionsContiguous`, `LatestNotSuperseded`, `CurrentVersionSettled`, `RefinesPolicyLog` | 2 handlers, 1 chunk, 3 policies, 4 requests, 2 attempts, failing backfills, with and without a baseline; one loser, its retry, and a late report of a third request fit. About 1M states |
| `PolicyDrafts` | `DecisionPersistedBeforeMark`, `RetryMakesProgress`, `StaticFieldsHeld`, `HandlerReturns` | 2 handlers, 2 chunks of which one is flagged, 3 requests, 3 attempts: approve_all over two chunks races with a submission. 89k states |
| `PolicySync` | `StatusTruthful`, `TrackedIsEnforced`, `ConvergesWhenInSync` | 2 operator changes, 1 restart, 3 rule sets of which one is refused, created with a policy or discovering one: a change and its rollback, a report that arrives after both. 418k states |
| `Lifecycle` | `PlaceholderOnlyAfterRemoval`, `PodRunsItsSandbox`, `ProvisioningOrphansCleaned`, `StreamCatchesUp` | 2 ids, specs that are plain, refused, or set the variables the supervisor needs, 2 handlers, 4 inputs counting requests, status changes, faults and restarts; a bus of capacity 1, so that a receiver lags; a page of one row and at most one older row, so that the page is full or not. 1.6M states |
| `SshTunnel` | `SlotsAccounted`, `TunnelLimits`, `RevokedNotAdmitted`, `StaleSessionsReaped` | 3 connections, 2 tokens, 2 sandboxes, limits 1 and 2, a page of 1, 5 inputs: a token is refused its second tunnel, a sandbox its third while another is being released, and the page is too short. 1.3M states |
| `Egress` | `ConnectsOnlyCheckedAddress`, `GoldenHashKept` | 2 connections, 4 policies (one invalid, one that withdraws a host) with inspected, plain, audited, SQL and mistyped endpoints, one reload, a binary rewritten once, lookups that answer public and private addresses together, bodies of every framing. 2.4M states |
| `Settings` | `EffectiveValueWasInForce`, `NoLostUpdate`, `SetPolicyInForce` | 2 calls, 4 requests, one registered key with two values, two global policies, one sandbox that is deleted meanwhile. 2.0M states |
| `Inference` | `RoutesConverge`, `RequestsAnswered`, `ProviderKeepsIdentity` | 2 calls, 3 requests, a provider that changes its key or is deleted and made anew under another type, both routes, file, cluster and no source, one intercepted connection. 315k states |
| `Supervisor` | `SessionFaithful`, `AtMostOnce`, `LinesReachStream`, `OrphansReaped` | one set-up per concern: starts with every fault in three network modes, a session with a background process, two sessions on one connection, a terminal, forwards, exec with two attempts, denials, pushes over two streams, streams that lag; buffers of 1 to 3; any wait may run out. 992k states |
| `Cli` | `DeployedReachable`, `FailedDeployCleaned`, `EphemeralGone` | 2 users with scripts of up to eleven commands, 3 gateways of which one is behind an edge proxy, 3 pids so that one is reused, 3 certificate bundles so that one is rotated, two deployments that contend for one container. 2.1M states |
| `Tui` | `LogIndexesInBounds`, `CreatingReleased`, `ApprovedWereOffered` | seven kinds of users, 2 requests in flight, 3 log lines against panes of 0 to 5 rows. 216k states |
| `PolicyRejected` | violates `RejectedNotGranted` | 2 handlers, 1 chunk: one approve and one reject suffice; see the findings |

Deadlock is not checked: with bounded inputs every behaviour of a server ends in
a state where nothing is left to do. `HandlerReturns`, `RequestsAnswered` and
`CreatingReleased` say instead that what was begun ends.

What the passing runs show, in words:

* the policy history is a log: versions without a gap, each revision one request
  applied to its predecessor, nothing rewritten, no approval lost under a
  concurrent update (`RefinesPolicyLog`); the served revision is never
  superseded, and `current_policy_version` never runs ahead of a report;
* a draft decision is in the policy before the chunk shows it, and optimistic
  retries end after as many writes of others as there were attempts;
* a status is truthful although reports are late or lost; a poll loop that started
  in step with its engine never takes for current what the engine does not run,
  unless the engine refused it, and enforces every later change;
* creating the row first keeps the watcher from inventing a record before its
  spec; provisioning orphans are swept once they get into the page;
  an open stream shows the stored record;
  a pod runs the supervisor under its own id whatever the request sets;
* connection slots are exact, both limits hold, a revoked token is not admitted
  again and stale sessions disappear;
* the proxy connects only to addresses that it checked and keeps the first hash of
  a binary;
* settings under the mutex lose no update, and unlocked readers answer values that
  were in force;
* a provider's name keeps its record while it is taken; route caches reach what the
  gateway would answer, and no request waits for ever, while clients read;
* a session's client gets a true exit status, and all output before it unless the
  wait for the readers ran out; orphans are reaped,
  nothing is reported twice, and a stream misses no line silently;
* a deployment that succeeds can be used, one that fails leaves no half gateway,
  and a temporary sandbox is deleted however its session ends;
* the terminal interface never indexes outside a log pane that has a row, releases its forms and
  approves only what it listed.

### Fairness

Weak fairness, only on tasks that the tokio runtime polls or that a timer drives:
a handler's own steps (`PolicyHandlers`, `SandboxLifecycle`), the watcher, the
reconciler and the stream loop, the poll loop and the delivery or loss of a report,
the session reaper, and the passing of a session's expiry; in `Supervisor` the
start, the waiters, the reaper and its timer; in `SshServer` the threads of a
session; in `Tui` the redraw and the creation under way; in `Inference` the caches'
writer and each connection up to its answer: writing that to the client has no
fairness, since nothing in the code bounds it. The refresher's reads have strong fairness there: a
fetch may fail, but not every one from some time on. `Finalized` is fair because
Kubernetes finishes deletions. Nothing is assumed of operators, clients, faults,
restarts, tunnels that end or failing calls. `StaleSessionsReaped` is checked with a
session lifetime: when `ssh_session_ttl_secs` is 0, a full page of live sessions
keeps the reaper from ever reaching the rest.

## Findings

**A rejected chunk stays granted** (`PolicyRejected`). reject_draft_chunk reads the
chunk as pending, an approve merges it, the reject marks it rejected and leaves the
rule in place. A dropped approve has the same effect.

### Claims the code does not keep

Docs and comments say more of the code than it does. Each such claim is a formula
of its module, and TLC refutes it with the constants of the run named here (put it
in the place of the run's properties). What does hold is what the passing run
checks.

| Claim | Run | Who says so | What the code does |
|---|---|---|---|
| `GlobalPickedUp` | `PolicySync` | `architecture/security-policy.md:249`: sandboxes pick a global policy up "on their next poll" | the poll loop records its first answer as current without comparing it with what the engine was built from (`lib.rs:1325`): a policy set between the two is not loaded until another change |
| `HotReload` | `Inference` | `docs/inference/configure.md:185`: changes "are picked up within about 5 seconds" | the read lock of the route cache is held over untimed writes to the client (`proxy.rs:944`): a client that stops reading keeps the refresh out, and behind it every later request |
| `AllOrphansCleaned` | `Lifecycle` | `sandbox/mod.rs:419`: a sweep lists "all sandboxes in the store that are still `Provisioning`" | it lists the 500 oldest rows of any phase (`sandbox/mod.rs:430`) |
| `ResourceFirst` | `Lifecycle` | `sandbox/mod.rs:532`: create_sandbox "creates the k8s resource first, then writes to the store" | it writes the row first, as `grpc.rs:247` says; the comment is out of date |
| `WatcherFindsSpec` | `Lifecycle` | `grpc.rs:247`: the watcher "always finds the record with `spec` populated" | a create call that timed out with effect is undone in the store only, and a delete may fall between the two: the watcher then stores a record without a spec |
| `RestInspected` | `Egress` | `architecture/security-policy.md:679`: of a REST endpoint the proxy "parses each HTTP/1.1 request" | decision and L7 rules are two questions (`proxy.rs:503`); a reload in between that withdraws the endpoint answers none to the second, which is read as an endpoint without inspection |
| `StopsAtBodyEnd` | `Egress` | `l7/rest.rs:254`: "stop exactly at the end of the current message body" | relay_chunked writes each buffer out before it looks for the end in it (`l7/rest.rs:285`) |
| `OutputBeforeStatus` | `Supervisor` | `ssh.rs:787` and 824: "data → EOF → exit-status → close", "Two seconds is enough" | the wait runs out whatever is left (`ssh.rs:826`, 975); with a slow client status and close overtake output |
| `PositionsInLog` | `Tui` | `sandbox_logs.rs:33`: "Clamp cursor to visible range" | with a pane of height 0 (about six terminal rows) nothing clamps it, j scrolls to the end with a positive cursor (`app.rs:1567`), and v, y slice out of range at `app.rs:1514`: a panic |
| `SignalsOnlyForwards` | `Cli` | `architecture/sandbox-connect.md:171`: stop "validates PID ownership and then kills" | the pid may change hands between ps and kill (`forward.rs:168`) |
| `SignalsOnlyItsPort` | `Cli` | `forward.rs:107`: a process "matching the expected port" | `80:127.0.0.1:80` is a substring of `8080:127.0.0.1:8080` (`forward.rs:123`): stopping port 80 may kill the forward of 8080 |

## Observations

Met while modelling; the models contain these behaviours unless the module says
otherwise, and the properties are stated so as not to claim more than the code does.

Policies and settings:

* two first updates of a sandbox without a baseline policy both take the backfill
  path and are not compared with each other, although
  `architecture/security-policy.md:86` calls static fields immutable
  (`StaticFieldsHeld` is checked with a baseline);
* the enriched policy a supervisor syncs back at start may overwrite an operator's
  update made in between, is not reported on, and stays pending until superseded;
* when the first connection of the poll loop fails, the loop ends for good;
* the settings row of a sandbox removed in Kubernetes stays under its name, and the
  UNIQUE name makes every later set for a new sandbox of that name fail;
* the baked rules are in package `openshell.sandbox` (`sandbox-policy.rego:4`) while
  the engine queries `data.clustershell.sandbox.*` (`opa.rs:249`): as committed,
  every request is refused;
* a chunk is approved or rejected by id alone, into the policy of whichever sandbox
  the request names.

Sandboxes and sessions:

* a restart in the middle of a delete leaves a record in phase Deleting that no
  sweep looks at;
* a create that fails removes its row without a notification, so a stream opened
  on that id stays open and silent (`StreamCatchesUp` leaves these ids out);
* the SSH listen address and TLS variables of a pod are forced only when configured;
* revoking a session does not cut open tunnels (`architecture/README.md:147` says
  access is cut off immediately), and `architecture/gateway-security.md:267` gives
  10 tunnels per token, the code 3;
* all channels of an SSH connection share one input sender and one terminal; a
  window change on any of them resizes the last one;
* SSH sessions apply the provider environment after the proxy's, the entrypoint
  before it; a child that exits before it is registered may lose its status to the
  reaper, and its client sees 1; an exec timeout reports 124 and leaves the command
  running;
* in proxy mode a namespace descriptor that cannot be opened is only warned about.

Reports and inference:

* L7 denials never reach the aggregator, so the mapper's L7 rules are unused; an
  unknown binary is reported as "-", and its proposal names that path;
* after a reconnect up to 200 buffered lines go out in one batch, of which the
  gateway takes 100; the end of the process loses what is pending;
* a line half published when a stream subscribes may be missed, and one published
  after the sandbox's removal recreates the bus entries;
* updating a managed route is a read-modify-write without a check.

Command line:

* `status` of an unreachable gateway is an error, never "Disconnected"; a mistyped
  gateway name starts the default gateway anew, and two such starts destroy each
  other; a port conflict leaves the volume behind;
* `sandbox connect` from a terminal replaces the process before the last sandbox is
  saved; a temporary sandbox stays when its upload fails or its watch times out;
  the watch accepts a stale Ready;
* PID files are keyed by name, whichever gateway it is on; the managed SSH configuration is a
  read-modify-write; the staging path of a push is fixed and a build tag has the
  resolution of a second;
* `provider update --from-existing` may apply credentials of a type read earlier;
  either end of the edge tunnel's stream aborts the other direction.

## Proofs

The theorems of the eight proof modules hold for every value of the constants that
satisfies the named assumptions: any number of handlers, chunks, policies,
connections, tokens, sandboxes, users and gateways, any limits. The assumptions are
the types of the constants; that "none" values differ from real ones (`NoPolicy`,
`NoCall`, `NoRow`, `NoSession`, `None`); that `Conns` of `SshTunnel` is finite (a
server has finitely many connections); and what a set-up is: in `Reports`, that the
attempts of an exec use distinct channels and exit codes differ from the "none"
values; in `Cli`, that at the start a container has its volume, secrets are in a
volume and sandboxes have ids that no new one gets, that a command that starts or
adds a gateway names it, and that `--all` is an option of delete only. TLC
evaluates each of them in the run of its module.

Hardly any of the properties is inductive: whether a step is right depends on what
its task read some awaits ago. Each module therefore has an invariant `IInv` (under
another name where it has parts of its own) that says, label by label, what a task
still knows. TLC checked it before it was proved. The shape of the argument is the
same everywhere: the task's own step establishes the knowledge of the next label,
and the steps of the others keep it because shared state moves in one direction
only, or is guarded by a lock.

**`PolicyHandlersProofs`**

* `TypeCorrect`, `Contiguity`, `LatestIsLive`, `RetriesProgress` (an action
  property: a further attempt has a newer base than the one before, whatever the
  history), `DecisionsPersisted`. `HandlerOk` says what a handler at each label still knows of
  the table: the revision it read is still there with the policy it read, what it
  is about to insert is its request applied to that revision, what it inserted
  carries its decision. This survives the others' steps because tables only grow
  and payloads are never rewritten (`Keeps`), and `PutAtEnd` is the step where it
  pays: an insert that finds `base + 1` free, in a table without gaps, is an insert
  at the end.
* `VersionSettled`. Every version that the record, or a handler about to write the
  whole record back, carries is 0 or that of a settled row (`SettledInv`), and a
  settled row stays settled (`Forward`).
* `StaticFieldsImmutable`, for sandboxes that start with a policy and a store that
  does not fail; the theorem states these hypotheses, and the observations say what
  happens without the first. Every row and every policy in a handler's hands agrees
  with the policy of the sandbox's spec (`StaticInv`).
* `HistoryIsALog`, the refinement of `PolicyLog`: `PutRevision` is the log's
  `Commit`, by `PutAtEnd`; beginning and ending a request change the log's set of
  outstanding requests; every other step leaves the log as it is.

**`SshTunnelProofs`**: `TypeCorrect`, `SlotsExact`, `LimitsEnforced`,
`RevocationHolds`. The counters are related to the *sets* of connections at labels
between increment and decrement, and each step adds or removes one element of
such a set (cardinality lemmas of finite sets). `CountsBounded` keeps both under
their limits, because an increment follows a test inside the same critical
section. Revocation needs three facts: a token is created once, so no create puts
an unrevoked row after a revoke; a stored row or one carried by a revoke of an
acknowledged token is revoked or about to be; a late request has a revoked token.

**`SettingsProofs`**: `TypeCorrect` (with the mutual exclusion of writers),
`EffectiveValueInForce`, `UpdatesKept`, `PolicySetInForce`. What the holder of the
mutex has read is still stored, except for what a deletion, which takes no mutex,
removed (`Knows`). For the readers without a lock, the answer about each key
was in force at some moment since their first read (`Witnessed`).

**`EgressProofs`**: `AddressesChecked`, `EveryRelayAllowed`, `HashesKept`. Per label
of a connection: its addresses were checked, its decision is the one the engine gave
under the policy it was asked with, the request being relayed was granted, and what
went upstream beyond a request did so behind a chunked body (`Behind`).
`EveryRelayAllowed` states `NothingUnasked`, which is proved and not run; it names
the pipelined bytes as the one exception.

**`PolicySyncProofs`**: `StatusIsTrue`, `EngineFollowsTrack`. The answer a supervisor
reads is a revision of the table (`ReadOk`), so the report it sends tells what its
engine did with that revision (`ReportOk`), and it stays true under way, since
what was ever loaded or refused is never forgotten (`Keeps`). `TrackInv` is
`TrackedIsEnforced` with the fact that nothing is tracked before the first poll; it
is kept because an answer with the tracked hash has the tracked policy, and any
other answer with a policy is loaded or refused.

On `Inference`: `ProvidersKeepIdentity`, `ExchangesKeepRoutes`. A request that puts
a record has read, some awaits ago, a name that was free or a record that may be
gone by now. `ProviderInv` says that an id is drawn by one create, so that all
records stored or about to be put under it have one type, and that a create about
to put has an id nobody has used; a put whose name is taken by another id is
refused by the UNIQUE column, so what is replaced has the same id. `LockInv` says
that a connection is among the readers of the cache from the choice of a route
until its answer is written, and the refresh writes when there is none.
`ExchangesKeepRoutes` states `RoutesHeldStill`, which is proved and not run.

**`SandboxLifecycleProofs`**: `PlaceholdersFollowRemoval`, `PodsRunTheirSandbox`. An
id that Kubernetes, an event or a task mentions is *known*: its row is stored or was
removed, because create writes the row before it calls Kubernetes. The messages
that tasks hold between a read and a write are complete, or their row was removed.

**`SupervisorProofs`**: `CommandsReported`, `ReportedOnce`, `StreamShowsTails`. The
first follows what the exit thread, the readers and the writer of a session have
still to deliver unless a wait ran out, and which child is registered or ended
before it was. The second
bounds hits, flushes, summaries and queued denials together by the number of
denials, and gives the places a line passes through (channel, batch, wire,
publisher, tail) as disjoint sets of which a line is in at most one. The third
splits lines into those in a tail, which a stream without a lag has shown or holds,
and those half published.

**`CliProofs`**: `CommandsInvariant`, `FailedDeploymentsLeaveNothing`,
`DeploymentsAreReachable`. What matters of a gateway to
its deployment is its *view*: container, volume, secrets, served bundle, files and
registration. A ladder over the labels of a deployment says how far the view has
come (nothing yet; secrets signed; files stored; done). A step of another user
leaves the view alone or ends that deployment's claim of having been `alone`, the
history variable the properties are conditioned on. A deployment that first
removes an old gateway begins without secrets only because containers and secrets
never exist without a volume, which is therefore part of the invariant.

`EphemeralSandboxesGo`. A session that cannot be set up ends like one that ran. A
command deletes its sandbox by name, while the property
is about its id, and others may delete that name and create it again. The
invariant (`EInv`) says that ids are given once (`RowsOk`) and that, from the
create to the deletion, a sandbox with the command's id is on the command's
gateway and has the command's name (`Holds`); a step of others removes
sandboxes, adds one with a new id, or changes a phase (`RowsStep`), so deleting
the name leaves none with that id (`Gone`), and none comes back.

On `Tui`: `LogPaneStaysInBounds` (for set-ups without a pane of height 0),
`ApprovalsWereOffered`. The handlers leave the
positions inside the filtered lines (`LogOk`); the draw that follows every event
also leaves the cursor inside the visible part (`PaneOk`). The next key needs the
second: a line down at the end of the pane scrolls by one, which is in bounds only
if the cursor was not further down than the pane is high. An open dialog holds
chunks it was opened for only, whatever the refreshed list holds.

Only model-checked: liveness (`HandlerReturns`, `ConvergesWhenInSync`,
`ProvisioningOrphansCleaned`, `StreamCatchesUp`, `StaleSessionsReaped`,
`RoutesConverge`, `RequestsAnswered`, `OrphansReaped`, `CreatingReleased`), which is
out of the prover's reach. Every invariant and action property of a passing run is
a theorem.

The type invariants of `SshTunnel` and `Settings` are proved and not run.

## Plan

Done: the policy core, the sandbox lifecycle with its resource, SSH tunnels,
settings, inference, the egress proxy and its engine, the supervisor with its SSH
server and its reports, the command line with bootstrap, the terminal interface,
and the proofs of all their safety properties. What would come next:

1. Composing the sandbox index with `SandboxLifecycle`, so that the entry of a name
   that a failed create takes away is in the model.
2. The operator, once its crate compiles.

## Not modelled, and why

* The operator: the crate does not compile at this commit (`crd.rs` declares each of its
  four spec structures twice: lines 140 and 233, 241 and 291, 299 and 342, 350 and
  416), so there is no behaviour to model.
* Transport: protocol detection, TLS, OAuth relay and WebSocket copying in the
  gateway. I/O without state shared between requests.
* What the kernel enforces: Landlock, seccomp, packet filters. `Supervisor` models
  that they are installed, in which order, and what a failure does.
* Data processing: YAML and protobuf conversion, policy content validation, OCSF
  events, discovery of providers in a user's files, rendering and printing.
* The web console, the Python SDK and scripts: clients of the calls modelled here.
