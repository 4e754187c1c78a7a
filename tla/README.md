# Gradatum: TLA+ models and proofs

Gradatum is a Rust memory server: a vault of Markdown notes behind an HTTP API
(`gradatum-server`), a worker process that curates, embeds, distils and forgets
notes (`gradatum-worker`), a gateway to language models (`gradatum-gateway`), a
supervisor for a local model (`gradatum-engine`), an operator CLI
(`gradatum-admin`) and libraries. This directory models the parts whose
correctness depends on the order in which processes, tasks and transactions
run, checks them with TLC and proves the central results with TLAPS.

## 1. Inventory

| Component | State | Operations | What is hard |
|---|---|---|---|
| Job table (`gradatum-db-sqlite/src/queue_store_sqlite.rs`) | one SQL row per job: status, lease, attempt count, deadline, payload | enqueue, dequeue, complete, fail, conflict, cancel, DLQ, recovery, retries, promotion of dependents, purge | several transactions per operation; every caller interleaves |
| Worker slots (`apalis_backend.rs`, `apalis_handlers.rs`, `monitor.rs`) | the task a slot holds | fetch, run, acknowledge | acknowledgements after the lease was lost; crashes; errors that are only logged |
| Sweep (`schedules.rs`) | snapshots read by a stage | recover leases, expire deadlines, retries, stranded dependents, key clean-up | stale snapshots, stages that fail half-way |
| Leadership lease (`leader.rs`, `main.rs`) | one SQL row: holder, expiry | acquire, renew, release | clock read before the statement, late renewals, crash without release |
| Job creation (`jobs_v2.rs`) | idempotency table | lookup, enqueue, insert | three transactions, lost answers and retries |
| Jobs API, operator CLI (`jobs_v2.rs`, `jobs_cmd.rs`) | none | cancel, message acknowledgement, DLQ replay and prune | check and act in two transactions |
| Gateway breaker and dispatch (`circuit_breaker.rs`, `chat.rs`, `messages.rs`, `embeddings.rs`) | per provider: state, failures in the window, probe flag | allow, record success, record failure, fallback, streaming | results that come after the state changed, results that never come |
| Chat library breaker (`circuit_breaker_llm.rs`) | five atomics and a locked window | classify | every atomic access is a step |
| Note write path (`gradatum-vault/src/lifecycle.rs`, `write.rs`, `privacy_rescan.rs`, `gradatum-cache`) | the `.md`, its `.history/`, the index row, a cache entry, the privacy mode | write, write if match, edit of the front matter, privacy sweep, read | compare, judge, snapshot, file and index are separate I/O steps without a lock; crashes tear the file; slow readers fill the cache |
| Note life cycle (`lifecycle.rs`, `gradatum-index/src/archive.rs`, `internal/persist.rs`, `admin.rs`, `delete.rs`) | vault file, history, index row, archived files, archive registry | delete, destroy, restore, purge, retention GC | file and database steps one after the other, any of which fails or is the last before a crash; retries over what is left |
| Privacy detectors (`privacy.rs`, `gradatum-privacy`) | none | detect, mask | text processing; what the write path does with the verdict is part of the write path |
| Engine supervisor (`supervisor.rs`, `bin/gradatum-engine.rs`) | child process behind a mutex, restart budget, last readiness, health, shutdown flag | spawn, wait ready, restart, shutdown, exit to systemd | a mutex held across awaits; startup timeouts of a living child; shutdown racing a respawn |
| Authentication (`gradatum-auth`, `gradatum-acl-auth`) | keys, tokens, revocations | issue, check, rotate, revoke | a cached verdict that outlives a revocation |
| Index, search, curator, distiller, embedder, ingest, markdown | derived data | pure functions or SQL | little concurrency of their own |
| Studio, SDK, MCP stub, benchmarks | none | none | user interface and clients |

How they interact: the server and the CLI insert and change job rows; the
worker leases them, calls the server's internal API to read and write notes and
acknowledges them; a completed job promotes the jobs that await it; the sweep
repairs what crashes leave behind. Only the process that holds the leadership
lease does any of this, which is what the queue relies on. Handlers that need a
model call the gateway, whose breakers decide which provider is asked; a local
provider is a llama-server that the engine supervises. The vault is owned by the
server process: writes, deletes, restores and the retention GC are calls or
tasks of that one process, and share the file system and the index.

## 2. Modules

| Module | Models |
|---|---|
| `JobStore` | the job table: one operator per SQL transaction |
| `JobQueue` | slots, sweep, clients, crashes and time around `JobStore`, and the properties of the queue |
| `JobLifecycle` | abstract specification: the transitions a job's status may make |
| `JobQueueProofs` | proofs about `JobQueue` |
| `WorkerLeadership`, `WorkerLeadershipProofs` | the leadership lease in relative time, and its proofs |
| `JobCreation`, `JobCreationProofs` | POST /api/v1/jobs and the idempotency table, and its proofs |
| `CircuitBreaker` | the gateway's breaker as a value and what its methods make of it |
| `GatewayDispatch`, `GatewayDispatchProofs` | requests that go to a primary and a fallback and report to the breakers, and the proofs |
| `LlmBreaker`, `LlmBreakerProofs` | the chat library's breaker, one step per atomic access, and its proofs |
| `NoteVault`, `NoteVaultProofs` | the write and read paths of one note, and the proofs |
| `NoteHistory` | abstract specification: which versions of a note are kept |
| `NoteArchive`, `NoteArchiveProofs` | delete, restore, purge, destruction and retention GC of one note, and the proofs |
| `EngineSupervisor`, `EngineSupervisorProofs` | the engine process, its child, shutdown and systemd, and the proofs |
| `MC*` | instances for TLC |

`JobQueue` is shown to implement `JobLifecycle` and `NoteVault` to implement
`NoteHistory`, each through an `INSTANCE ... WITH` whose specification is a
property of a run and the conclusion of a theorem.

Operators whose comment follows a plausible mistake (`ReplayFinished`,
`ClaimableEarly`, ...) stand directly before the definition they are a variant
of. They are in no specification; each is there to show that a property
notices it.

### Job queue

Each method of the store is one transaction under the connection's mutex, so it
is one step. A method with several transactions is several steps: `complete()`
commits (`AckOk`), then selects dependents (`CascadeBegin`) and, for each one,
checks its dependencies (`CheckDependent`) and promotes it (`PromoteDependent`);
`promote_retries` reads the failed rows (`SweepRetries`) and treats them one by
one (`SweepToDlq`, `SweepRetry`). `run_sweep_once` is a sequence of such stages
by which a storage error ends the current one (`SweepError`). `cancel_job` reads
the status (`CancelCheck`) and cancels later (`CancelCommit`). A crash
(`Crash`) empties the slots and the sweep of a process; the table survives.

Abstracted: a lease is fresh, expired or stale (older than the recovery limit),
a deadline is ahead or passed; `attempt_count` is saturated just above
`retry.max`, the only thing it is compared with. A handler is its outcome.
Apalis is external: it runs a handler, retries it within the task, and
acknowledges with the number of the attempt, which starts anew at each lease
(`FailAttempts`). Left out: tenants, session counters, listings, the order of
rows of one priority, and `schedule_retry`, which nothing calls, so that
`scheduled_at` is never in the future.

`JobLifecycle` is a table of transitions, not the wish of `is_terminal`: it
forbids what would make a job run early, twice, or again after it was Done, and
lists the transitions out of terminal statuses that the code really makes
(`Late`, `Stale`, `Replayed`).

### Leadership lease

Time is relative (`left = expires_at - now`), so the state space is finite
without a bound on the clock. A process reads the clock and executes its
statement up to `MaxDelay` later (`age`). The renewal loop is separate from the
work it protects: when it ends, the worker goes on, as in `main.rs`.

### Job creation

One call is lookup, enqueue, insert and answer, each a step. A retry of a client
is another call with the same key. `settled` and `before` are history: which
jobs had been stored and given out when a call began.

### Gateway

A method of the breaker holds a mutex and is one step; a call to a provider is
awaited, so a request is a sequence of steps with others in between. A provider
answers `ok`, not at all (`lost`), 5xx (`upstream`), 429 (`limited`) or an error
of the request's own (`rejected`). What a path makes of it (`Verdict`) differs:
the slot pass-through hands every HTTP error on as a response and reports a
success, embeddings do so with every 4xx (`PassedThrough`). `cooled` and
`failures` are the two comparisons of time the code makes.

### Chat breaker

No lock holds the state together, so loads and stores of `open_until`,
`open_count`, `consecutive_successes` and `probe_inflight` are steps of their
own. The library is public API; no other crate of the repository uses it yet.

### Note vault

A version is a stamp and a meaning. The stamp stands for `updated`, which enters
the content hash, so that two versions never have the same hash; the meaning is
the body, which `sha256_for_history` hashes together with the front matter to
decide whether a snapshot is taken: another body always differs, the same body
may.

A write is `Compare` (only with an expected hash; it reads through the cache),
`Judge` (privacy pass, read-before-write, new stamp), then one of three: a
snapshot (`SnapshotBegin`, `SnapshotEnd`) and the retention after it (`TrimList`,
`DeleteSnapshot` for each file too many), no snapshot (`NoSnapshot`), or the purge
of a masking write (`PurgeList`, `DeleteSnapshot`); then `WriteFileBegin`,
`WriteFileEnd` and `WriteIndex`. The snapshot, the listing and every deletion are
best effort: an error is logged and the write goes on. The privacy sweep
(`RescanBegin`) enters at `Judge` with the body it has read, an edit
(`EditBegin`: `update_status` and `add_tags`) with the body of the version that
the cache or the file gave it. A read is `ReadLookup` (cache and validator),
`ReadLoad` and `ReadInsert`.

Files are written in place, snapshots and the `.md` alike. Between its two steps
such a write leaves the file `Torn`, and it stays so if an error or the death of
the process (`Restart`) comes in between. Two writes of one file that overlap end
with the content of the last one or with a mixture of both (`InPlace`). `Torn`
means that the file does not parse: a truncated note that still parses is not
modelled. `Restart` ends every call, empties the cache and may change the
privacy mode, which is configuration.

`acked`, `superseded`, `hidden`, `won`, `waived` and `residue` are history
variables, and so is the `before` of a call. `before` holds the stamps of the
writes that had ended when the call began; when a call is answered they are
`superseded`. A write `Overlaps` when a stamp was given out that neither is its
own nor belongs to a write that had ended. `waived` holds the versions the code
decides not to keep: the successor means the same, the text is to be destroyed,
the snapshot failed or was dropped. `residue` holds the clear copies that a
purge could not list or delete, and those that a write took while it overlapped
another one.

The refinement maps `current` to the `.md`, `slot` to the snapshots, `erasing` to
a masking write that deletes, and `contended` to a write that overlaps: at such a
step `NoteHistory` lets the file be replaced unkept and snapshots be overwritten.
This is needed: with `contended` false TLC finds a snapshot that an overlapping
write overwrites with half a file. Without the overlapping part of `residue` it
finds a copy that is completed after a masking write has purged.

### Note archive

One note, and five kinds of calls: write, `vault_delete` (archive and de-index),
the worker's physical destruction, admin restore and admin purge; plus the GC
task. Calls overlap. `Fails` is an error that the code propagates, `Skips` one
that it logs; which step is which is `Fatal` and `AfterBestEffort`. An `exists()`
that fails counts as "path is free" (`ArchiveResolveBlind`). `Storage::delete` of
a missing file is an error on a file system and none on S3 (`DeleteGoesTo`).
`erased` records that the last copy was destroyed on request or by retention,
`condemned` which paths a purge or the GC has cleared, and `crossed` that a delete
has chosen, for its copy, the path that a restore, purge or GC in progress is
about to clear, or the other way round.

### Engine supervisor

`pc` is `main` until the first `wait_ready` is over and `supervise_loop` from
then on. `lock` is the mutex of the child where it is held across an await: by
the loop in `child.wait()`, by `shutdown()` until the child is reaped.
`spawn_child` starts the process first (`fresh`) and stores it under the mutex
afterwards (`Store`). `wait()` may fail (`WaitFails`), after which the loop goes on
without knowing its child to be dead; `unsure` records that. Time is three facts: a startup deadline may pass at any
poll, `last_ready_at` may become `min_stable_uptime_secs` old, a sleep ends.

## 3. What the runs check

Passing runs:

| Run | Instance | States | Properties |
|---|---|---|---|
| `queue` | 2 Curate jobs, the second awaits the first and has a deadline; 2 slots; 1 fault, 1 replay | 2.2 M | `DoneIsNotRerun`; `LeaseTracksRunning`; `AwaitGate`: a dependent is not runnable before all it awaits has been Done; `NoRevival`: no stale snapshot brings a terminal job back; `LifecycleSpec`: the queue implements `JobLifecycle` |
| `queue_live` | the same jobs and a message delivery; 1 slot, 1 fault | 331 k | `LifecycleSpec` for deliveries; `StrandedIsPromoted`; `RunningEnds` |
| `leadership` | 3 workers, 1 renewal error, 2 crashes | 99 k | `LeaseCoversLeader`: who still renews holds an unexpired lease; `OneActive`: two processes work at once only after a renewal error, and then one of them renews no more; `LeaseIsRespected`; `LeadershipIsFilled` |
| `creation` | 4 calls, 3 of them with one key; 2 faults | 175 k | `LateCallCreatesNothing`, `IdsAreReal` |
| `gateway` | a broken, an unreliable and a healthy provider; 4 requests of different modes | 20 k | `OneProbe`; `HealthyStaysClosed`; `BrokenStaysOpen`: only a path that passes HTTP errors through closes the circuit of the broken one; `OpenEnds`: an open circuit is tried again, unless fallback streams keep breaking at its expense |
| `llm` | 3 callers, both thresholds 2 | 167 k | `OneProbeAtATime`, `OpenEnds` |
| `vault` | 2 overlapping writers, 1 slow reader, 3 versions, history of 1, 1 I/O error, 1 restart | 2.5 M | `ReadsAreFresh`; `ConflictIsSeen`: no conditional write or edit goes on from a version already superseded; `MaskingErases`; `KeepsHistory`: the vault implements `NoteHistory` |
| `archive` | 4 calls, 2 of which overlap each other or the GC; 1 error, 1 crash | 613 k | `NoteSurvives`, `RegistryIsTruthful`, `ExpiredIsReconciled` |
| `engine` | budget of 3, `wait()` may fail | 4.3 k | `OneChild`, `FlappingIsBounded`, `GivesUpWhenSpent`, `DeadChildIsReplaced`, `ShutdownEndsLoop` |

Each also checks its module's `TypeOK`, except `queue_live`.

Runs that show the code to differ from what the repository says of it:

| Run | Statement | What happens |
|---|---|---|
| `vault_overlap` | the hash comparison serialises two conditional writes of a note | nothing is held between the comparison and the write: both pass it, both are answered Written, and the first is overwritten |
| `archive_restore` | a crash between archiving and de-indexing is recovered by `restore` | the index row that the crash left makes `restore` answer 409; deleting again fails on the missing `.md`; the retention GC finally destroys the archive |
| `engine_budget` | `child_restart_max` is a total budget, reset only after a stable child | `last_ready_at` of an earlier, stable child is not cleared when its successors never get ready: every failure refills the budget, and the engine neither gives up nor exits to systemd |

### Bounds

Two jobs and two slots are the least with which two executions of a job, a
dependency and a stale snapshot can meet; one fault is enough for each single
crash or storage error at every point, and one replay brings a job back from
the DLQ once. `RetryMax = 2` with attempts 1 and 2 gives rows under and at the
limit. The unit of time of the lease is 15 seconds: renewal every 2, expiry
after 4, delays of at most 1, the largest that the defaults tolerate
(`RenewEvery + 2 * MaxDelay <= ExpiresAfter`); three workers are a leader, a
challenger and one that arrives between the two statements of `try_acquire`.
Three calls with one key are two that race and one that comes later. Thresholds
of 2 tell one failure from enough failures.

Three versions and a history of one are the least with which a snapshot is
trimmed while two writes overlap; a torn file, a failed trim and a change of mode
need one fault and one restart. The run merges states that differ only in what no
call will look at again and no property depends on (`LiveState`), treats the
writers as interchangeable, and does not let two writes overlap that both create
the note (`CreatedAlone`): ids are fresh, so it takes two callers that choose the
same one. The theorems about the vault have none of these restrictions. Four
calls are delete, restore, delete and one more. A budget of 3 is one more than the two
failures that a refill must not undo. `CHECK_DEADLOCK FALSE` is set where the
system may rest: a queue without work, calls that have all ended, an engine that
has shut down.

### Fairness

- Queue: leases age, and the sweep runs every 30 seconds to its end. Nothing is
  assumed of clients, faults, the fetcher or the handlers: one may never return,
  or only after its lease has expired.
- Lease: time passes, systemd restarts a worker (`Restart=always`), a statement
  that is due is executed. Nothing is assumed of stops, crashes and errors.
- Archive: a call that runs goes on, and the GC's interval task comes round.
  Nothing is assumed of callers, time, errors and crashes.
- Engine: the loop goes on, since every poll has a deadline and every sleep
  ends, and a shutdown that has the mutex reaps the child (SIGKILL). Nothing is
  assumed of the child, of the clock, of systemd, or of which way a spawn or a
  poll goes.
- Breakers: calls return because providers have timeouts, requests keep coming,
  time passes.

## 4. What is proved

All for every value of the constants.

`JobQueueProofs`:
- `TypeCorrect` (`TypeOK`, with `TaskInv`: a slot is idle exactly when it holds no job);
- `LeaseCorrect` (`LeaseTracksRunning`);
- `NoRevivalCorrect` (`NoRevival`);
- `AwaitGateCorrect` (`AwaitGate`). It is not inductive: a promoter that has
  checked a dependent promotes it later. `GateInv` adds that whatever a promoter
  holds in `ready` has had its dependencies Done, which is stable because
  `everDone` only grows;
- `DoneIsNotRerunCorrect` and `LifecycleImplemented`, for one worker process
  (`OneWorkerProcess`). The sweep moves a row from its snapshot to the DLQ
  without looking at its status; `SnapshotInv` says that a job in such a snapshot
  has never been Done: only a slot makes a job Done, and only from Running,
  which a Failed row becomes again only through the sweep that holds the
  snapshot. With two sweeps that is false, and so is the theorem. `ExecutedInv`
  adds that slots and snapshots hold no message delivery and nothing that still
  waits.

`WorkerLeadershipProofs`:
- `LeadershipTypeCorrect`, with `RenewalInv`;
- `LeaseCoversLeaderCorrect`. `LeaderInv` strengthens it: the lease lasts at
  least until the latest moment at which the next renewal can be executed. The
  assumption on the constants is needed at the first renewal, because the lease
  was dated before `try_acquire` had to wait;
- `OneActiveCorrect` (`OneActive`): two processes work only after a renewal
  error, so without errors at most one does. This is the `OneWorkerProcess` of
  the queue theorems;
- `LeaseIsRespectedCorrect`, errors or not.

`JobCreationProofs`:
- `CreationTypeCorrect`, `IdsAreRealCorrect`, and `KeyIsStableCorrect` (the job a
  stored key names does not change), which no run checks;
- `LateCallCreatesNothingCorrect`. It is not inductive: a call decides at its
  lookup and enqueues later. `SettledInv` says that a job that was given out and
  stored still has its row until the clean-up, `FreshInv` that a call which is
  past its lookup began before any job of its key was settled.

`GatewayDispatchProofs`:
- `GatewayTypeCorrect`, where the number of failures in the window stays below
  the threshold;
- `OneProbeCorrect`. The actions are sequences of reports to breakers (once or
  twice) followed by the end of the request or a call; `Reports` is what any
  number of reports may do, and the point is that none makes a breaker
  half-open: only `should_allow` does, which takes the probe slot in the same
  step;
- `HealthyStaysClosedCorrect`, with `ServedInv`: a request never leaves a healthy
  primary. That is what keeps `messages.rs`, which charges a broken stream to the
  primary, from blaming the wrong provider when the primary is healthy;
- `BrokenStaysOpenCorrect`, for any aliases and modes: the circuit of a provider
  that answers nothing but the errors `circuit_breaker.rs` counts is closed only by
  the end of a request that was with that provider and whose path passes such an
  error through. The lemmas say of each way a request may end whether it reports a
  success, and to whom.

`LlmBreakerProofs`:
- `TypeCorrect`;
- `SingleProbe` (`OneProbeAtATime`). The invariant ties the flag to the callers:
  while a probe is on its way `probe_inflight` is set, so that no other caller's
  compare-and-exchange succeeds. The converse does not hold (a dropped probe
  leaves the flag set) and is not needed.

`EngineSupervisorProofs`:
- `TypeCorrect`: the budget does not underflow;
- `NoTwoChildren` (`OneChild`). A child is started only from `spawn`, and the
  loop gets there only after `child.wait()` has returned: the invariant says
  that at `judge`, `sleep`, `spawn` and `store` the stored child is not alive,
  whatever `shutdown()` does to it meanwhile, unless `wait()` returned an error;
- `FlappingBounded` (`FlappingIsBounded`) and `NoEarlyEscalation`
  (`GivesUpWhenSpent`): the restarts of the streak and the remaining budget add
  up to at least `ChildRestartMax`, and to exactly that as long as no readiness
  has become old.

`NoteVaultProofs`. All of it holds however writes overlap, fail or are torn, for
any number of writers, readers, versions and restarts and any history length.
None of the properties is inductive; `Inv` adds to `TypeOK`
- `ShapeInv`: what a call holds at which point; stamps are given out once, and a
  write under way is in no call's `before`;
- `FreshInv`: neither the file, the row nor a write under way ever has a
  superseded version. Every answered write began after the versions it supersedes
  were finished, so whoever replaces the file later is not one of them;
- `ReadInv`: a reader's result is not in its floor;
- `SeenInv` and `FiledInv`: versions appear once; a snapshot under another
  version's stamp is a waived one;
- `AloneInv`: a write that overlaps no other one finds the file and the history
  as it has left them (`Unhindered`): what it snapshots is what it read, and the
  version it replaces is kept or waived;
- `MaskInv`: from its listing on, a masking write has every clear copy either in
  its list or in `residue`, and a clear version on disk or under way is newer than
  every answered masking write.

`CallEffects` and `StepEffects` state once what each action does to the record of
its call, and the other lemmas use that. From `Inv` follow
- `TypeCorrect` (`TypeOK`): in particular the cache never holds a file that does
  not parse;
- `ReadsAreFreshCorrect`, `ConflictIsSeenCorrect` and `MaskingErasesCorrect`, for
  the properties of those names;
- `HistoryImplemented` (`KeepsHistory`). A snapshot, begun or ended, is the
  abstract `Keep` (`Scramble` when it overlaps), a deletion `Drop`, a step of the
  write of the file `Replace`, a decision against a snapshot `Waive`, and
  everything else stutters.

`ConflictIsSeen` is what `write_if_match` does guarantee, where `vault_overlap`
shows what it does not: a conflict is seen if it is there when the comparison is
made, and not if it arises between the comparison and the write.

`NoteArchiveProofs`, however calls overlap:
- `TypeCorrect`, with `SuffixPaid`: the suffixes given out and those that deletes
  in progress may still take are paid for by the calls made;
- `NoteSurvivesCorrect` and `RegistryIsTruthfulCorrect`. `SafeInv` says that unless
  a delete and a removal have crossed, their paths differ (`PathsDiffer`), a delete
  keeps its copy until the registry knows of it (`CarriesOver`), and some copy of
  the note is not about to be cleared by a restore (`CopyIsSafe`).

Assumptions are those of the modules (`JobStoreAssumption`,
`JobQueueAssumption`, `LeadershipAssumption`, `JobCreationAssumption`,
`CircuitBreakerAssumption`, `GatewayAssumption`, `EngineAssumption`,
`NoteVaultAssumption`, `NoteArchiveAssumption`, ...): types of the constants, a
positive threshold or history length, finitely many callers, and the timing
inequality. TLC evaluates them in every run.

Only model-checked: liveness (`StrandedIsPromoted`, `RunningEnds`,
`LeadershipIsFilled`, `OpenEnds` of both breakers, `ExpiredIsReconciled`,
`DeadChildIsReplaced`, `ShutdownEndsLoop`), since the prover does not treat
fairness. Every other property of a passing run is a theorem.

## 5. Observations

Met while modelling, visible in the models, not stated as properties of a run.
Where a property of section 3 excepts one of these, it says so.

Job queue:

- A job whose lease was recovered and taken by a second slot can still be
  completed or failed by the first: the row says until when it is leased, not by
  whom, and the comment at `queue_store_sqlite.rs:1174` promises more. (`JobQueue`
  with two slots: a slot at `"run"` or later whose job another slot fetched
  after it.)
- `fail()` overwrites `attempt_count` with the attempt of the current task
  (`queue_store_sqlite.rs:1401`). For a kind with `max_retries = 0` (Distill) it
  stays at 1, `retry.max` is never reached and the job goes round for ever,
  although `monitor.rs:230` says it "must not loop". No property claims that every
  job settles.
- `job.rs:1236-1243` documents trigger conditions for `await_jobs`:
  `OnAnyTerminal`, "regardless of outcome", and `OnFailed` (also `job.rs:424`).
  Nothing reads `condition`: `all_jobs_done` (`queue_store_sqlite.rs:378`,
  `:399-409`) waits for Done in every case. `AwaitGate` states what the code does.
- `queue_store_sqlite.rs:1232-1237` says that there is no safety net for a lost
  cascade and that `run_sweep_once` never visits an orphaned Waiting job, and
  `schedules.rs:378`, `apalis_handlers.rs:2271` and `:2329` that a non-empty
  `await_jobs` strands a job. The stage `promote_stranded_waiting_jobs` has made
  these comments obsolete: `StrandedIsPromoted` holds.
- The renewal loop ends at its first storage error and nobody watches it: the
  worker goes on sweeping and purging while another takes the expired lease,
  although `main.rs:482` says exactly one purge runs at a time. `OneActive`
  describes precisely this.
- Two overlapping POST /jobs with one key both pass the lookup and enqueue two
  jobs; the insert's boolean is ignored (`jobs_v2.rs:663`). A retry after an
  insert that failed, or that a crash prevented, enqueues again too.
- `mark_conflict` and `fail_dlq` do not look at the row's status: a Cancelled or
  Done job may become Conflict, a Cancelled one DLQ, although `is_terminal`
  (`job.rs:1312`) says that no further transition is possible. Through
  Conflict, the DLQ and a replay a job that was Cancelled can become Pending
  again; one that was Done cannot.
- `cancel_job` answers 409 for a Running job, but a job leased between its two
  transactions is cancelled while it runs. It answers "cancelled" also when
  `cancel()` changed nothing.
- When `mark_conflict` fails, `handle_curate` returns Ok and the job becomes
  Done although its write was rejected.
- A purged DLQ row that is replayed is leased by its old kind; the handler then
  meets a payload it does not expect (`slotPc = "blank"`).
- A dependent of a job that ends Cancelled, in the DLQ or in Conflict waits for
  ever; no producer fills `await_jobs` yet. `complete_message_delivery` runs no
  cascade: the sweep promotes its dependents.
- Kinds with a timeout of 300 s, which is also the lease, fail after the lease
  has expired: the acknowledgement is refused and the row is recovered by the
  sweep, without counting the attempt.

Gateway and chat breaker:

- A probe of the gateway's breaker that ends in an uncounted error, or whose
  client disconnects, leaves `half_open_probe_in_flight` set: the provider is
  refused until the gateway restarts (`circuit_breaker.rs:146`).
- Without fallback, a failed request is recorded by `dispatch_with_fallback` and
  again by its caller; the threshold is reached with half as many requests.
- `circuit_breaker.rs:16-17` lists 429 and 5xx among the errors that count. The
  slot pass-through (`chat.rs:744`, recorded at `chat.rs:282`) reports both as
  successes, embeddings a 429 (`embeddings.rs:394-410`): such a request closes the
  circuit of a provider that answers nothing else. `BrokenStaysOpen` excepts these
  requests.
- `messages.rs:406` charges a stream that breaks to the alias's primary even when
  the fallback streams. If the primary's circuit is open, each such failure
  restarts its cooldown (`circuit_breaker.rs:173-175`), without bound, and the
  primary may never be tried again. `OpenEnds` excepts this.
- In the chat breaker a dropped probe leaves `probe_inflight` set; a success that
  saw the circuit half-open may close it after a failure re-opened it; successes
  of calls made before the circuit opened count towards closing it.

Vault:

- Writes of one note overlap (`write.rs:99-105` says so). Besides what
  `vault_overlap` shows, two of them may write the same snapshot, or snapshot a
  version that the other has already replaced, so that a version is lost from the
  history; a snapshot that was begun before a masking purge and ends after it
  leaves clear text behind; two in-place writes of the `.md` may leave a mixture.
- The snapshot (`lifecycle.rs:392`) and its retention (`:412`) are separate and the
  retention is best effort: after a crash between them, or a failed listing or
  deletion (`:1710-1719`, `:1784-1793`), `.history/` holds more than `max_versions`
  files until a later trim succeeds.
- A write whose `.md` exists without an index row overwrites it without a
  snapshot, and a torn `.md` makes every later write of the note fail at the
  read-before-write until somebody repairs the file.
- The GC and `purge` mark `gc_at` also when the deletion of the file failed
  (`lifecycle.rs:1522-1526`, `:1325-1330`): the archived file then stays for ever,
  since nothing selects the row again. `ExpiredIsReconciled` is about the row.
- A delete that archives the note to the path which an overlapping restore, purge
  or GC is about to clear loses it, and `mark_archive_gc` marks whatever row is
  active by then. `NoteSurvives` and `RegistryIsTruthful` except this crossing.
- `exists()` in front of the archiving turns an I/O error into "free"
  (`lifecycle.rs:1224`): the copy may then overwrite an archived file.

Engine:

- `shutdown()` waits for the mutex that the loop holds in `child.wait()`: it sends
  SIGTERM only once the child has ended by itself. The binary does not call it;
  systemd kills the cgroup. `ShutdownEndsLoop` excepts a loop that waits for a
  living child.
- A shutdown during a respawn finds no child or a dead one and returns; the
  child that `spawn_child` stores afterwards is left to `kill_on_drop`.
- If `wait()` fails (`supervisor.rs:645`) the loop goes on as if the child had died.
- `/health` stays ready while a dead child is being replaced, and a first child
  that answers after its startup deadline is served although the engine says
  unhealthy until the next restart. A child that hangs while loading past its
  deadline is waited for, never killed.

## 6. Not modelled

Studio, SDK, MCP stub and benchmarks have no protocol. Search, curation,
distillation, embedding, ingest, markdown and the privacy detectors are data
processing: the queue and the vault see only their outcome. Of the index only
the row of a note and the archive registry are modelled. Cryptographic checks
and SQL text are taken as correct. Forget and downgrade, `move_locus`,
the server's overwrite guard, tenants and grants, the retention of snapshots by
age (`history.ttl_days`, off by default), drift detection, the provider pool and
the rate limits are not modelled yet.

## 7. Plan

1. Forget and downgrade, and the queue's re-execution of a curate job composed
   with the vault.
2. API keys and tokens: rotation and revocation against caches.
3. Pure algorithms: rank fusion and scoring, against reference definitions.
4. The distillation schedule (`schedules.rs`): sections with a job under way are
   skipped, at most so many jobs are enqueued per tick, a failed read stops it.
