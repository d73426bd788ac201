# SForum: a TLA+ development of its runtime protocols

SForum is a forum server whose features come, for a large part, from plugins: separate
processes that the Go API starts, drains, upgrades and removes while it serves requests.
What is hard in it is not the forum but the host: durable lifecycle operations driven by
processes that die, publications that must not be half done, staged rollouts over several
nodes, gates in front of running plugins, leases, and idempotent requests. This directory
models those protocols, checks them with TLC and proves the most important of their
properties with TLAPS.

Paths below are relative to `src/apps/api/app` unless they start with another top directory.

## The system

| Component | State | Operations | Who calls it |
|---|---|---|---|
| Admission gate (`Support/ExtensionRuntime/admission.go`) | per runtime instance: phase flags, active calls by class, idle channel | `Acquire`, `Release`, `BeginDrain`, `Quarantine`, `Resume`, `ForceCancel`, `Wait` | every call into a plugin; the lifecycle gates that drain it |
| Lifecycle state machine (`Models/Extensions/lifecycle_state_machine.go`) | the snapshot: operation, gate, completion, recovery point, marker, progress | `ValidateLifecycleTransition`, `ApplyLifecycleTransition` | the coordinator, before every write |
| Lifecycle coordinator (`Models/Extensions/lifecycle_coordinator*.go`) | a copy of row and snapshot for the length of one `Run` | `Run`: load, reconcile, resume, drive, revalidate, fail, succeed | HTTP requests, restarts, other nodes |
| Lifecycle repository (`lifecycle_repository*.go`) | rows `extension_lifecycle_operations` and `_steps` with revisions and leases | acquire, transition, complete, resume, begin/claim/renew/release/complete a step | the coordinator |
| Orphan reclaim, operator close (`lifecycle_repository_orphan.go`, `src/apps/api/cmd/sforum/recovery_lifecycle_close.go`) | none of their own | close an open row and its attempts | the plugin runtime coordinator's poll; an operator |
| Staged rollout (`Support/RuntimeRollout`) | a row per plan: phase, migration flag, acknowledgements, snapshot, error, revision | create, mark ready, acknowledge, lose a node, canary, health gate, drain, promote, roll back, fail | upgrades (`runtime_rollout_bind.go`), nodes, administrators |
| Idempotency middleware (`Support/Idempotency/middleware.go`, `store.go`) | one Redis record per key | begin, complete, abort | host routes that carry `Idempotency-Key` |
| Required replay (`required_replay.go`, `redis_backend.go`, `Routes/dispatcher_dispatch.go`) | one Redis record per key with owner and fingerprint | begin, complete, abort by compare-and-swap | plugin routes |
| Publication boundary (`Support/Extensions/lifecycle_composed_boundary*.go`, `lifecycle_publication_journal_postgres.go`, `lifecycle_jobs_*.go`, `lifecycle_registry_publication*.go`) | three transactions (state, registries, jobs), a commit marker, admissions of source and target | prepare, publish, commit, restore, compensate, reconcile, resume, retire | the last gates of an operation |
| Plugin runtime coordinator (`Models/Extensions/plugin_runtime_coordinator.go`, `Support/Extensions/plugin_runtime_full_set*.go`) | publication rows, node acknowledgements, the process's active set, a barrier | poll, apply, roll back, acknowledge, fence a revocation | one per process |
| Theme publication (`Models/Extensions/theme_publication_*.go`) | publication rows, watcher | apply, acknowledge | one per process |
| Runtime instances (`Support/Extensions/manager_*.go`, `protocol_instances.go`) | two registries of one plugin's processes, each with a pointer to the active one | stage, publish, roll back, drain, resume, force, quarantine, remove, stop | lifecycle gates, publications |
| Concurrency gate and circuit breaker (`Support/Extensions/resilience.go`) | slots, active calls, failure counter, open-until per extension | enter, release, remove | hooks and providers |
| Database runtime leases (`Support/Extensions/extension_database_runtime_lease*.go`, `protocol_database_lease.go`) | lease rows and PostgreSQL roles; the host's copy of expiry and revision | issue, renew, drain, fence, clean up, reap | the start and stop of plugin processes, a heartbeat per process, a reaper |
| Host cache (`Support/HostAPI/cache_registry_*.go`) | values and locks in Redis | get, set, remember | plugins |
| Sessions (`Support/AuthSession`) | session record, pending login, generation | renew, revoke, confirm | every request |
| Jobs, webhooks, mail (`Jobs`, `Models/Notifications`) | River jobs, delivery rows | claim, send, retry | workers |
| View counters (`Models/Forum/view_counter.go`) | counters and a dirty set in Redis | record, drain, apply | page views, a periodic job |
| Forum, identity, moderation, attachments, search, AI, options | PostgreSQL rows | transactions | controllers |
| Web frontend, SDK, CLI, deployment, built-in extensions | - | - | - |

`PROJECT.json` lists all of them with their sources and status. Modelled whole: the admission
gate, the state machine, the migration of version 1 snapshots, the rollout, the plain
idempotency middleware, the concurrency gate with its circuit, the view counters. In part: the
coordinator with its repository, the reclaim, required replay, the publication boundary, the
plugin runtime coordinator, runtime instances, database leases. The rest is not modelled; see
the end.

How they interact. A request to install, upgrade, enable, disable or remove a plugin creates
an operation row; a coordinator drives it gate by gate. Some gates drain the plugin's
admission gate, some start a new process (which is given a database lease first), the last
ones go through the publication boundary, which swaps state, registries and jobs and decides
with one marker which artifact serves. An upgrade also creates a rollout plan. The plugin
runtime coordinator of every process follows the published sets, does not apply one while an
operation is open, and its poll runs the orphan reclaim. Requests reach plugins through the
dispatcher, which takes a slot at the concurrency gate, a lease at the admission gate of an
exact process and, for mutating routes, a replay record.

What is hard: several processes over the same rows with nothing but revisions and leases
between them; crashes between two transactions that belong together; leases that run out
while their holder is only slow; Redis commands whose reply is lost; goroutines that wait on
a channel that is replaced under them. `PROJECT.json` lists these as hazards, each at its line.

What makes each part correct:

* admission gate: a completed drain is quiet, a forced cancellation reaches every call,
  no waiter sleeps through the last release, a quarantined gate never reopens;
* concurrency gate: slots and counters belong to the gate a call entered, an open circuit
  admits only who was already queueing, the first failed probe reopens it;
* state machine, coordinator, reclaim: what is stored can always be resumed, no gate is passed
  that was not executed or skipped, no gate is executed by two processes at once, the
  outcome is the one the machine reached, a success is final, every operation ends;
* publication boundary: the marker decides which artifact serves, a source comes back only
  over what was wholly restored, and what was interrupted can be completed;
* runtime set: what was revoked here stays shut, what is acknowledged was running as a whole,
  and the node catches up with the last publication;
* runtime instances: a call reaches the process it holds a lease of, an incident is final,
  the two registries agree when nobody is in between, a process is quiet when it is switched;
* rollout: one open plan per extension, no acknowledgement lost, promotion only over the
  last health of all nodes, closed plans stay closed;
* database leases: a process is killed before its lease expires, and no role outlives its use;
* idempotency: at most one execution per lifetime of a record, replays only of what really
  ran, no request touches another one's record;
* views: each is shown once, unless two runs of the flush read its topic before either takes it
  off, and never more than once by one worker; no topic stays marked for ever;
* not modelled: a cached value is only written under the lock it was loaded under; a revoked
  session is never renewed.

## Modules

| Module | Models | How state and actions correspond to the code |
|---|---|---|
| `RuntimeAdmission` | admission gate | one action per critical section; leases in two halves (cancel, leave); the idle channel is a numbered generation, a waiter holds the number it read |
| `ExtensionGate` | concurrency gate, circuit | a gate record per entry of the hub's map; a call looks at the circuit, waits for a slot, counts itself, frees the slot and accounts for its outcome in separate steps |
| `PluginRuntimeSet` | plugin runtime coordinator, full set apply, revocation fence | publications are functions from plugins to versions; the loop, the apply with its hooks and its rollback, the fence and the operations are step machines around one barrier |
| `LifecycleMachine` | state machine | paths, validator and transitions as operators, with the code's names |
| `LifecycleMachineRun` | every accepted sequence of transitions; migration of version 1 | a behaviour starts at a new snapshot or at the result of `migrateLifecycleCoordinatorV1` on any snapshot version 1 could store |
| `LifecycleCoordinator` | coordinator, repository, reclaim, operator | extends `LifecycleMachine`; one action per repository transaction; a program counter per process for `Run` |
| `LifecycleContract` | what an operation promises | abstract; refined by `LifecycleCoordinator` (`KeepsContract`) |
| `LifecyclePublication` | publication boundary | each of state, registries and jobs at source or target, durable and local side; the marker; one action per transaction, with lost commits |
| `RuntimeInstances` | manager and protocol starter of one plugin | the manager's map and pointer, the transport's map and pointer, admission flags per process; publications are split where the code releases the manager's lock; a process may end by itself, which the starter alone learns of |
| `RuntimeLease` | database leases | a status per row (the role changes with it in the same transaction), the interval counts to expiry in the database and as the host knows it, the host's steps, reconciliations |
| `RuntimeRollout` | rollout service and driver | callers read a plan, decide, and save by revision |
| `IdempotencyRecord` | the Redis record and its expiry | shared by the next two |
| `IdempotencyMiddleware` | middleware and store | one action per Redis command |
| `RequiredReplay` | required replay and the dispatcher around it | one action per Redis command |
| `ViewCounter` | view counters and their flush | one action per Redis command and per updated topic |
| `MC*` | - | instances for TLC, see the runs |
| `*Proofs` | - | theorems of the module they are named after; `RuntimeGuardsProofs` is about `RuntimeAdmission`, `ExtensionGate` and `RuntimeLease`, `PluginCallsProofs` about `PluginRuntimeSet` and the specification `MCPluginCalls` checks, `HostServicesProofs` about `RequiredReplay`, `IdempotencyMiddleware` and `ViewCounter` |

A repository method, a service save, a critical section under a mutex and a Redis command
are one action each: these are the units the code makes atomic. Everything between two of
them is a point where another process may run or this one may die. Each module keeps, next
to the code's definitions, a few variants marked "Deliberately wrong": bugs the properties
are shown to notice. History variables are marked as such.

`MCPluginCalls`, `MCHostServices` and `MCLifecycleOperation` put several modules side by side
in one run: the initial state picks a side (`part`, `aspect`), every step is a step of that
side and leaves the variables of the others alone. The state space is the sum of the parts,
not their product, and fairness is asked of each part alone.

Choices of the models worth knowing:

* `LifecycleCoordinator` keeps two counters of the schema as the comparison they serve:
  `fresh` (this copy of the row is current), `seen` and `begun` (this copy of the attempt is).
  The step status `waiting` is kept as `running`, and a cancelled execution takes the path of
  a failed one. `Crash` also stands for a coordinator that gives up on a database error: both
  leave the rows as they are and the lease to run out.
* An invocation that only replays a closed row, or refuses to load it, changes nothing and is
  not an action.
* A lease of a live coordinator runs out at most `MaxLate` times (the heartbeat is three
  times as frequent as the lease is long); one of a dead coordinator always may.
* A migrated snapshot counts as having passed the gates before its position, and the current
  one if it says so. Version 1 had no activation gate in the path of an upgrade; what it left at
  `upgrade.after` is moved behind today's activation gate, which counts as passed.
* `LifecyclePublication` has one executor at a time: the fences that stop a second live one are
  left out. After a crash nothing is active until the operation is run again. A rollback publishes and
  retires as an upgrade does and is modelled as one; it does both inside one gate
  (`lifecycle_composed_boundary.go:526-538`), which a failed retirement runs again from its start, where
  the model repeats the retirement.
* `RuntimeInstances` lets a process end between two operations of the starter, where
  `watchClientExit` gets its locks. A killed process is taken out by its `Stop`, so its watcher finds
  nothing.
* `ExtensionGate` takes the hub's lookup of the gate and the look at its circuit as one step.
* `PluginRuntimeSet` is one node. Operations on this and other nodes, revocations, incidents and
  restarts are events around it, at most `MaxEvents` after the first publication.
* `RuntimeRollout` lets a read and a save be separated by anything, and a caller give up in
  between. `newer` stands for the order of `updated_at`. A rejected call whose copy carries an
  error is saved as well, as `transition` does. The code stamps `updated_at` before the save; the model
  orders by the save itself.
* `RequiredReplay` and `IdempotencyMiddleware` assume that a Redis command takes effect
  before its caller goes on or not at all; its reply may be lost. The same goes for `ViewCounter`.
  That the Redis client may send a command again after a network error is not modelled: a command is
  executed once at most. In the middleware a record
  does not expire under a running handler: the TTL (a day) outlasts every request. Required replay
  makes no such assumption.
* `RuntimeLease` measures time in heartbeat intervals (30 seconds; a lease lasts four of them).
  Host and database agree on the time. `MaxStart` is an assumption: at most two intervals end
  during a start of a process, in which the lease is not renewed, so that it takes less than three of
  them, 90 seconds. go-plugin's start timeout of a minute (its source is not in the repository) and the five
  seconds each for handshake, health and readiness (`protocol_v2_client.go:298`, `:446` and `:462`)
  stay within the 90, and 30 more are left to the expiry. Nothing looks at the expiry at the end of a start.

## Runs

Bounds are in the cfg files. Deadlock is checked except where the system really stops.
Timings vary; the state counts do not.

| Run | Instance | Distinct states | Question |
|---|---|---|---|
| `plugin_calls` | 3 calls and 1 waiter at the admission gate; 3 callers, 2 gates, 1 slot, threshold 2; 2 plugins, 2 versions, 3 events | 374,614 | Is a drained runtime quiet and does every wait return; who gets through an open circuit; does the node catch up with the publications without reopening what was revoked |
| `lifecycle_race` | disable, 2 coordinators, 1 late lease, 1 retry, symmetry | 2,082,975 | Does the revision check keep snapshot, ledger and outcome together when two processes run one operation |
| `lifecycle_live` | uninstall, 1 coordinator, 2 crashes, 1 late lease, 1 retry, reclaim and operator | 308,055 | Does every accepted operation reach an outcome, and is a success never cancelled |
| `lifecycle_operation` | publication of install, upgrade and disable under 6 failures; every path of the machine; an uninstall driven by 1 coordinator with 1 crash, 1 late lease, 2 retries; 2 leases with 2 faults | 238,603 | Does one operation, seen from its gate, its machine, its coordinator and its database leases, keep its marker, its snapshot and its cut-off |
| `rollout` | 2 plans, 2 nodes, 2 callers, 6 revisions | 1,894,749 | Do two callers between read and save lose a report, or promote on an old one |
| `instances` | 3 processes, 2 calls, symmetry | 2,610,316 | Does a leased call reach the process it leased, and is a quarantined process never switched to |
| `host_services` | 3 requests each for replay and plain, 2 fingerprints, 2 expiries, 2 rounds; 2 topics, 1 visitor, 2 visits, 2 workers, 1 fault | 446,950 | Is a request executed once per record, and when is a counted view shown more than once |
| `reclaim_live_lease` | disable, 1 coordinator, reclaim | stops | Does the reclaim spare a live lease? No: see below |
| `reclaimed_row` | disable, 1 coordinator, reclaim | stops | Can a reclaimed row be loaded again? No |
| `revalidation_wedge` | disable, 1 coordinator, 2 crashes, fair | stops | Does a revalidation end? Not always |
| `rollout_lookup` | 2 plans, 2 nodes, 1 caller | stops | Does the lookup find the open plan? Not always |
| `reopened_source` | disable, 3 failures | stops | Is the source reopened only when restored? Not always |

Why the bounds are enough to be interesting:

* `plugin_calls`. Three calls at the admission gate are an ordinary one, a cleanup one and one that
  arrives while another is half released. One waiter is enough since waiters do not affect
  each other or the gate. Three callers for one slot are one inside and two that queue when the
  circuit opens, at a threshold of two failures; two gates are the removed one and its successor.
  Two plugins are one that is operated on and revoked and one reused beside it. Three
  events after the first publication let one be superseded under an attempt that fails, or
  a failure meet a second failure and a later publication.
* `lifecycle_race`, `lifecycle_live`, the part `drive` of `lifecycle_operation`. `uninstall` is the
  path with skippable gates, forced escalation, host and plugin gates and ephemeral state;
  `disable` is the shortest with all kinds of gates, which keeps two processes affordable. Two
  retries allow a retry of a skip and a skip after a retry. One stall past a lease is what makes
  a second process take over; more repeat it. No crash is allowed in `lifecycle_race`: a
  process that stalls for ever is one that died, and crashes are the subject of the other two.
* `lifecycle_operation`. Six failures of a publication let an attempt fail, its restore fail, its
  commit be lost and the next attempt meet the same. All six paths of the state machine are
  explored, new and migrated, without a bound: the machine is finite. Two starts of a plugin that
  may hold one lease (eight in the code) make a start meet a live, an expired and a pending
  one; two faults let a renewal fail twice, or a revocation and then its cleanup.
* `instances`. Three processes are a source, a candidate and the source's predecessor or
  successor; two calls are one held and one delayed between lease and lookup.
* `rollout`. Six revisions are the shortest life of a plan in which it is migrated, reported on by
  both nodes, selected and promoted or refused. The second plan is never read, it is what a
  stale save of the first may collide with. `Fail` is called with a text, as its only
  caller does; the proofs also cover the empty message.
* `host_services`. Three requests for one key are an owner that outlives its record, the one
  that claims it next, and one that reads; of the three fingerprints at least two agree, so at
  most one differs. Two visits are one that comes while a run drains the
  other; two runs of the flush
  overlap, which includes that both read a topic before either takes it. One failing command meets each of them.
* `CHECK_DEADLOCK FALSE` is set where all requests are used up, where a closed operation or
  the revision bound leaves nothing to do, or where a row can no longer be loaded.

Fairness.

* `RuntimeAdmission`: a holder releases its lease (handlers end), a waiter whose
  channel is closed is scheduled, a check is followed up; nobody is obliged to drain or to
  call.
* `LifecycleCoordinator`: a process that holds an invocation takes its next step; a gate
  that is executed ends (gates run under a timeout), strongly because progress
  reports interleave; a request that found the operation open is repeated (the client or the
  restart does); leases of dead processes run out (wall clock); a row nobody writes turns idle after
  its 45 seconds; the reclaim polls for ever and does not skip an orphan it could list for
  ever. A crash, a late lease or an operator is never obliged. `lifecycle_live` uses one
  process: two that keep repeating the request can undo each other's claims for ever, which
  the code leaves to timing.
* `LifecyclePublication`: a gate that was begun goes on, an operation that stopped is run again,
  and the database settles every transaction it was sent.
* `PluginRuntimeSet`: the loop polls and goes on with what it began, a fence ends; the apply enters
  the barrier strongly fairly (it is handed over in order of arrival), and an operation that
  keeps the row open is executed or reclaimed, strongly because incidents interrupt it.
  `NodeCatchesUp` asks that from some time on no operation is open: the code waits for each one, so
  operations without end keep a node behind for ever.
* `ViewCounter`: the flush is run again and again and goes on with what it began.
* `RuntimeLease`: time passes, the reaper runs every 30 seconds, a living host goes on, the
  database settles what it was sent. Faults are bounded and never obliged.

Every property of a passing run is paired, in `PROJECT.json`, with a mutation of the code
under which TLC finds it violated.

## What is proved

For every value of the constants, under the assumptions the modules name and nothing else.
`RuntimeAdmission` and `LifecycleMachineRun` need none: the first takes any sets, the constants of
the second are the six paths. `RolloutConstants`: there is a plan, nodes are a finite set of
numbers, the percentage is in 1..100. `RecordConstants` and `ReplayConstants`: there is a
fingerprint, at least one round, and a value that is no request. `ViewConstants`: the workers of the
queue are finitely many. `PublicationAssumption`,
`OperationAssumption`, `SwitchAssumption`: the operations are those of the code, the bounds are
numbers. Premises of the theorems of their modules are `GateConstants` (finitely many callers, a
threshold that is a number, a value that is no gate), `LeaseConstants` (finitely many starts, a
reaper that is none of them, at least one lease allowed, and an expiry that leaves two heartbeats
after the longest start), `SetConstants` (no version is the absent one, the first publication is a
set of plugins, what is operated on is a plugin), `InstanceConstants` and `CoordinatorConstants`
(values that are no instance, no coordinator).

* `RuntimeGuardsProofs`, the three guards around one process.
  The admission gate: `TypeCorrect`, `AdmissionCorrect`, `DrainSafety`, `WakeupSafety`,
  `ForceSafety`, `ClosureSafety`. The inductive invariant (`AdmissionInv`) adds to the
  properties which channels are closed: the gate's own channel is closed exactly when nobody is
  inside, all older ones are closed, and a waiter never holds a newer one. Without that a waiter
  could sleep on a channel nobody will close.
  The concurrency gate: `SlotsAreBounded`, `ActiveCallsNeverDrift`, `OpenAdmitsOnlyQueued`,
  `OneFailureReopens`. `GateInv` says that a call knows its gate as long as it is inside and no
  gate is made afresh under it (`EnteredInv`), that whoever waits at an open circuit was there
  when it opened (`QueuedInv`) and that the failures of a tripped gate stay at the threshold
  until a success (`TrippedInv`). That the active counters are exact is proved only; no run
  repeats it.
  The leases: `LeasesStayBounded`, `ProcessesEndFirst`. `LeaseInv` says for each step of the host
  which states of the row it may find (`Ordered`), and that what the host believes of the expiry is
  never later than what the row says, with an interval to spare from one heartbeat to the next
  (`Ahead`); a process that lost its row is already on its way out.
* `LifecycleMachineProofs`: `SnapshotsStayValid`, `NoGateIsLeftOut`, on every path, after any number
  of failures, retries, skips and writes of the host. `MachineInv` is the validator with the types
  it leaves to Go, and that every gate before the position is passed or skipped. The work is in
  `TransitionKeepsValid`: what `ValidateLifecycleTransition` accepts, `ApplyLifecycleTransition`
  turns into a snapshot `validateLifecycleMachine` accepts, and into one that is at most one gate
  further, with that gate complete. `MigrationIsValid` is the same for the snapshots of version 1.
* `PluginCallsProofs`: `PartsCorrect`, `CallTypes`, `RevokedPluginsStayShut`,
  `AppliedRevisionsWereWhole`, over the specification the run checks. `SetInv` says what an attempt
  of the loop may rely on from its plan to its commit (`Attempt`, `Planned`), that what it leaves
  was published (`RevokedLeft`, `Leaving`), how an operation in progress is ahead of the running set
  (`OpAhead`), what a fence has shut before its revocation is written (`FenceHolds`,
  `RevokedHere`), and that a set which is about to be acknowledged runs as a whole (`WholeInv`).
  The proof is for any number of plugins and events; TLC checked the invariant with two plugins and
  four events first.
* `RuntimeInstancesProofs`: `CallsReachTheirProcess`, `RegistriesAlwaysMeet`, `IncidentsAreFinal`,
  `SwitchesWaitForCalls`. `InstancesInv` says what an operation in progress may rely on at each of
  its steps: whom it bars and that those are idle (`SwitchInv`, `HeldInv`), how far the transport may
  be from the manager's pointer (`TransportInv`), and that an ordinary call which no incident has
  orphaned is on the active process, to which the plugin's name leads if it leads anywhere
  (`TrackInv`).
* `LifecycleCoordinatorProofs`: `AlwaysSafetyInv`, `ContractIsKept`, `LedgerAlwaysLeads`,
  `ShapesAreKept`, `RowsStayLoadable`, `RowsCloseAsReached`, `OneExecutorWithoutReclaim`, for any path,
  any number of coordinators, crashes, late leases and retries. `SafetyInv` says for every control
  point of `Run` what the copy says about row and ledger *if it is still fresh* (`RunOK`), what the
  ledger says about the snapshot (`LedgerOK`) and what the row says about both (`RowOK`).
  `ContractIsKept` is the refinement of `LifecycleContract`: `ContractInv` adds that the gates that finished are those the row's machine
  has passed and at most the one it stands at, and that nothing happens before the row exists; each
  step is then one step of the contract or none. `ShapeInv` is the type invariant with what it rests
  on: that every machine, stored or copied, is one the validator accepts, that a row is closed exactly
  when it has an outcome, that a fresh copy is forced exactly when the row is, that only a row with
  retries left is resumed, and that without the reclaim row and snapshot differ at most by a resume
  that has written only the row (`Agrees`). All hold with the reclaim too but two. `RowsStayLoadable` assumes it away because a
  row it closed cannot be loaded again (disagreement 2 below, run `reclaimed_row`), and
  `OneExecutorWithoutReclaim` because the reclaim can close the attempt of a live holder
  (disagreement 1). The latter counts late leases: while none has run out, whoever executes a gate
  holds its lease.
* `LifecyclePublicationProofs`: `PublicationTyped`, `MarkerDecidesAlways`, `TargetOpensCommitted`,
  `ActivationReopens`, for any operations and any number of failures. `PublicationInv` says what is
  left to move at each step (`WalkInv`), that nothing moves back once the commit may be under way
  (`MarkerInv`), that the source admits nothing past its drain (`DrainedInv`), when the target may be
  open (`TargetInv`), that a restore without a failure has put back all it tried (`RestoreInv`), and
  when an upgrade's source is active (`SourceInv`).
* `RuntimeRolloutProofs`: `RolloutTypes`, `OnePlanAtATime`, `NoReportLost`,
  `PromotionNeedsHealth`, `ClosedPlansStayClosed`. A caller between read and save holds a copy
  that may be stale; `SaveInv` says that *if* the copy's revision is still the row's, then the
  copy is a legal edit of the row as it is now and its reports are those of the row plus what
  the call said. Legal edits are shown to keep types, closedness and reports call by call
  (`PhaseEdits` and its companions), so the save needs a single proof.
* `HostServicesProofs`. Required replay: `ReplayTypes`, `OwnershipHolds`, `AtMostOneExecution`,
  `GenuineReplays`, `StandingAnswers`. `HolderInv` says that within one lifetime of
  the record there is at most one holder (a request that claimed it and may have run its
  plugin), and that the record is that holder's, pending or completed.
  The plain middleware: `OneSuccessPerTTL`. `MiddlewareInv` says that a handler with a claim runs
  in the lifetime of that claim, that after a success the record stays its own for the lifetime,
  stored or not, and that only a success completes a record.
  The views: `ViewsAreShownAsTaken`, for any number of topics, visits and faults and finitely many
  workers. `ViewInv` says that a visit about to be counted holds its visitor's key alone
  (`VisitorInv`), and for each topic what may still become of what was counted: what a worker has
  shown, has taken and may take never exceeds it (`OncePerWorker`); nor does what all have
  shown, have taken and may take unless two runs raced for the topic (`OnceUnlessRaced`); what a run
  has read and not yet taken is within these bounds too, and nobody else has read it without a race
  (`HoldInv`); and the database shows no more than the workers' shares together (`SumInv`). What
  the runs hold together is the number of elements of a set, a block of numbered views for each
  worker, and not a sum: a sum over a set of any size would need an induction, which is not available
  here, while cardinalities add up by the library's theorems (`BlocksAddUp`, `BlocksChange`,
  `BlocksBounded`).

Each theorem has the same three steps: `Init` establishes the invariant, a step keeps it (one
proof step per action), it implies the property. TLC checked the conjuncts on the instances
above before they were proved.

Every invariant and every action property a passing run checks is stated by one of these theorems.
Only model-checked:

* all liveness (`WaitReturns`, `OperationCloses`, `PublicationCompletes`, `NodeCatchesUp`,
  `MarkIsCleared`, `EndTogether`): fairness and `ENABLED` are outside what TLAPS proves here.

## Where code and documentation disagree

Five disagreements are kept as runs that TLC refutes:

1. `reclaim_live_lease` - the reclaim locks the row and looks again at `completed_at` and the
   revision but not at the leases; a gate claimed since the listing is closed under a live
   lease (`lifecycle_repository_orphan.go:131` against the comment at lines 36-37).
2. `reclaimed_row` - a row closed from outside says `failed` while its snapshot is still at its
   gate; the next invocation refuses it as diverged, so the retry that
   `src/knowledge/modules/extensions.md:959-961` promises cannot start.
3. `revalidation_wedge` - a process that dies during a revalidation leaves its attempt open,
   and every later one refuses to revalidate beside it. The reclaim ends that, a retry does not.
4. `rollout_lookup` - the lookup skips failed and rolled back plans only and takes the last
   written one; a promoted plan written late hides the open one (`postgres.go:203` against
   `store.go:20`).
5. `reopened_source` - a deactivation whose state or registries could not be restored reopens its
   source when the drain of its next attempt fails: only the marker and the jobs' phase are
   asked (`lifecycle_composed_boundary_publication.go:438` against the comment at lines 511-513).

Others were met and have no run of their own. Lifecycle:

* the same hole as 5 is reachable through `compensateLifecycleHostDrain`
  (`lifecycle_coordinator_host.go:342-368`); `lifecycle_composed_boundary_failure_test.go:151` covers
  the first attempt only. `restoreUncommittedPublication` of a deactivation ends in an error even after
  restoring everything, because a disable or uninstall has no target instance;
* a plugin that reports its step as `planned` drops out of the lease check of the reclaim
  (`lifecycle_repository_orphan.go:83` looks at `running` and `waiting`;
  `src/knowledge/modules/extensions.md:948-951` speaks of every unexpired lease);
* the newest attempt is read in one transaction and the next one opened in another, so a gate
  that another process finished in between is executed again (`lifecycle_coordinator_drive.go:222`);
* after a retry a failed revalidation is replayed from its old attempt
  (`lifecycle_coordinator_drive.go:467`);
* `PromoteAtomic` accepts a plan still in `canary`, without a drain (`service.go:236`), and
  `Fail` of an active plan leaves its snapshot flag (`service.go:281`).

Runtime set:

* `rollbackPluginRuntimeFullSet` takes the transport to be at the previous set when its own attempt
  had not published (`plugin_runtime_full_set.go:771`). After an attempt whose restore failed, a
  second one that fails before its publication reopens the old gates while the transport still names
  the first one's candidates, against the comment at 813-814;
  `TestPluginRuntimeFullSetRollbackKeepsCandidateWhenOldRepublishFails` covers the first attempt;
* a rollback resumes every gate it drained, also one that somebody else had drained already;
* that no operation is open is read before the apply (`plugin_runtime_coordinator.go:257-318`); one
  accepted in between is moved under, and its compensation may republish a source that a
  revocation on another node has just removed;
* a revocation whose commit stays unknown and was lost leaves the plugin quarantined for the
  boot, though granted and published, until the next publication;
* a revocation during an upgrade quarantines the active artifact only; if the operation is then
  refused, its compensation reopens the source until the removal is applied. `RevokedStaysShut`
  exempts what a rollback or compensation restored.

Leases, requests, views:

* a renewal that is committed without an answer leaves the host with an old revision: the next beat
  conflicts and the plugin is killed under a valid lease (`protocol_database_lease.go:186-204`);
* a heartbeat cancelled while its commit is under way makes the drain of the revocation conflict;
  the revocation gives up and the role can log in until it expires and is reaped (`:226-246`). The same
  holds for a lease whose issue was committed without an answer;
* cleanup that is pending blocks every new lease of the extension, for ever if it always fails;
* `SendMail` returns when its context ends while the goroutine of its call goes on
  (`Support/Extensions/protocol.go:804-834`), so the lease of the call is released before it ends;
* an `Abort` of the middleware that Redis loses leaves the key refused until its TTL
  (`middleware.go:58`), and `Complete` and `Abort` do not look whose record they write
  (`store.go:154`): only the TTL keeps a slow request from another one's record;
* two runs of the flush that both `GET` a topic (`view_counter.go:134`) before either `DECRBY`
  (`:144`) both take all its views and both add them to the database: nothing makes the job unique
  and its queue has more than one worker. One view is then shown twice, against
  `src/knowledge/plans/2026-07-12-iteration-a-engagement-loop.md:315` (one opened topic, "`view_count`
  +1 within flush window"). `ShownAsOftenAsTaken` says that this race is the only way;
* a view counted between the `DECRBY` that left nothing and the `DEL` is lost, and so is a delta whose
  `GET` failed, against the comments at `view_counter.go:116` and `:145`.

## Not modelled, and the plan

Left out for good: parsing, rendering, CRUD over single transactions, provider I/O, generated
code, the web frontend, deployment. Their correctness is not in interleavings, and they are most of
the repository: the map covers a small share of its 350,000 lines for that reason.

Hazards met there and not covered: the token version that is read before the session's lock
(`Support/AuthSession/renewal.go:76`), the loader's lock that may run out under a commit
(`Support/HostAPI/cache_registry_remember.go:183`), the secret that is stored before its document
(`Support/SettingsLifecycle/service.go:156`), the webhook sent again after a death
(`Jobs/Webhooks/deliver.go:157`).

Left out of what is modelled: audit rows and digests everywhere; what a gate does inside a plugin; the
attempt fences of the publication boundary, migrations and the cleanup of data; publication of
whole sets of plugins inside `RuntimeInstances`; readiness and the first publication in
`PluginRuntimeSet`; grants, powers and the leases of privileged kernel work in `RuntimeLease`;
response codecs and header policy in `RequiredReplay`.

What would come next, most important first:

1. Host cache remember, session renewal, settings with secrets, webhook delivery: a module each,
   beside the other services in `MCHostServices`.
2. The attempt fences of the publication boundary: two live executors.
3. Theme publication, which repeats the protocol of the plugin coordinator.
4. `RuntimeInstances` refined to one `RuntimeAdmission` gate per process.
