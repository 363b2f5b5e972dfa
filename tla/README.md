# A verification development for agentacct

agentacct keeps account of what coding agents do on a machine. It imports usage
records and hook events, and it can also plan, approve, launch, supervise,
cancel and recover agent processes that it owns. This directory holds TLA+
models of the parts where order, crashes and concurrency decide whether the
program is right, the TLC configurations that check them on small instances, and
TLAPS proofs of the properties that matter most.

- [The system](#the-system): inventory of the components
- [Modules](#modules): what models what
- [How the supervisor model corresponds to the
  code](#how-the-supervisor-model-corresponds-to-the-code)
- [How the command model corresponds to the
  code](#how-the-command-model-corresponds-to-the-code)
- [How the store models correspond to the
  code](#how-the-store-models-correspond-to-the-code)
- [Runs](#runs): what each shows, bounds, fairness
- [Proofs](#proofs)
- [Disagreements found](#disagreements-found)
- [Not modelled](#not-modelled)
- [Plan](#plan)

All paths below are relative to `src/src/agentacct/` unless they begin with
`docs/` or `tests/`.

## The system

Many operating-system processes share one state directory: CLI commands, hooks,
one daemon (`api.py`) and the children it owns. They do not talk to each other.
They coordinate through files: append-only JSON-lines logs guarded by `flock`,
projections computed from these logs, small JSON documents that are replaced
atomically, and SQLite databases. Nothing is transactional across two files.

| Component | State | Operations | Hard behaviour | What makes it correct |
|---|---|---|---|---|
| Owned supervisor (`supervisor.py`) | threads, child processes, `_managed`, lease flag | launch, wait, cancel, reconcile, monitor, heartbeat, close | crash between any two steps; two supervisors during a takeover; monitor and canceller observe one exit; signals against a recycled process | no agent without a durable proof; no live agent behind an ended record; no guessed verdict; a cancellation settles |
| Supervisor lease (`SupervisorLease`) | `state.json`: owner, heartbeat | acquire, heartbeat, fenced gate write, release | takeover of a slow owner that goes on running | a former owner never passes the fence again |
| Run metadata (`storage.py`) | `metadata.json` per run | write, update, verify process | a second file beside the record, written after it | a final status in it is one the record allows |
| Control store (`control_plane.py`) | action log, projection of tasks, contracts, agents, workspaces, attempts, approvals, budgets, schedules | create, transition, request/decide/consume/expire approval, retry, merge | optimistic concurrency over a log; idempotent retries; commands of two appends; torn last line | records move along their tables; a launch has its approval; a retry returns the same record |
| Control CLI and daemon recovery (`cli.py`, `api.py`) | none of their own | `control plan/launch/cancel/retry/reconcile`, approvals, startup recovery | each command is several appends; Ctrl-C; timeouts | foreground commands end; recovery keeps watch |
| Legacy guarded run (`runner.py`) | one child | run with limits | signal and timeout race | the run's status is the child's |
| Evidence store (`evidence_store.py`) | two spools (records, usage batches), SQLite projection with two replay offsets | append, claimed link, replay, compact, prune | a line that is cut off; crash between two renames; append and prune during a compaction; database error during replay | the projection is the spools; what was acknowledged is found; compaction loses, doubles and reorders nothing; pruned records stay pruned |
| Refreshable usage (`evidence_runtime.py`, `evidence_store.py`, `refreshable_usage.py`) | one head per slot, its revisions, conflicts and tombstone | select, decide, write a batch, project it again | readings late, twice, out of order, without an order, contradicting each other | one current revision; content moves with a later order only; the spool alone gives the facts back |
| Raw event log (`event_log.py`, `service.py`) | SQLite log, its revision and its destructive revision, the keys absorbed from the flat file | append, replace rows, absorb the flat file, restore a backup | older processes still write the flat file underneath | a deleted row does not come back |
| Receipt snapshots (`receipt_snapshot_*.py`) | one published generation with its tokens; a build lock, a build budget | build, publish, withdraw, serve | inputs change during a build and during a request; two daemons; a worker or its daemon is killed | nothing removed is served; "current" is current; one worker; the rest between builds; receipts catch up |
| Ledger warmer (`ledger_warmer.py`) | change token, timers, rest | note a reader, check, rebuild | writes that never pause; a write during a rebuild | a change is rebuilt within a bounded time; what is taken for built has been read |
| Task continuations (`task_continuations.py`) | a log of actions; projection of tasks, session index, aliases | create, link, merge, unlink, rename | merged and dissolved tasks; a torn last line | a session is in one task at most; the grouping changes by one whole operation; ids are not used again |
| Store merge (`store_merge.py`) | two state directories | merge | crash in the middle | nothing is lost, a rerun completes |
| Sessions, outcomes, joining (`session_*.py`, `task_*.py`, `supersession.py`, `join_rules.py`) | none: functions of recorded events | project, join, classify | order of events | the result does not depend on arrival order |
| Usage, pricing, limits (`usage_*.py`, `cost.py`, ...) | caches | parse, price, aggregate | large arithmetic and parsing | totals agree with records |
| Ingestion health (`ingestion_health.py`; `usage watch` and `import-local` in `cli.py`) | `state.json`: the watcher's lease, the scans under way, a receipt per source | begin, complete and fail a scan; acquire, keep, release the lease; retire dead scans and a dead watcher; snapshot | scans that overlap; a hung watcher that is superseded and goes on; processes looked for without the lock; a damaged file; scans that are skipped as unchanged | outcomes are recorded in the order of the scans; no failure is hidden; the living are left alone |
| Capture, hooks, connectors | readers of other programs' files, counters | scan, import | partial files | nothing is counted twice |
| Receipts, ledger, reports; user interfaces; installation | none, or host files edited once | render | | |

`PROJECT.json` lists every component with its status, and the hazards of the
code, each at the line where it bites, with the properties that would catch it.

### How the modelled parts interact

```
  user: request-approval, decide-approval           user: launch, cancel, reconcile
            |                                                   |
            v   append under flock, revision check              v
     control store  <-----------------------------------  supervisor process
     (the attempt record)                                  main thread  monitor  heartbeat
                                                             |    |        |        |
     metadata.json  <----------------------------------------+    |        |        |
     state.json (lease)  <----------------------------------------+--------+--------+
                                                             |
                                                  gate pipe, killpg, waitpid
                                                             v
                                                       launch shim --fork/exec--> agent
```

A launch goes: read the attempt and check it (preflight), confirm the lease,
commit `launching`, spawn a shim that blocks on a pipe, write `metadata.json`
with the process proof, commit `running` with the same proof, start the monitor
thread, and only then write the byte that lets the shim exec the agent. A
cancellation verifies the proof, commits `cancel_requested`, sends SIGTERM,
polls, verifies again, sends SIGKILL, and records a verdict or a loss. Recovery
(the daemon's start, or `control reconcile`) reads an active attempt, verifies
its process, and watches it or declares it lost. All of it may be cut off by a
crash between any two of these calls, and another process may take over the lease
from an owner whose heartbeat is stale while that owner is still running.

## Modules

| Module | Role |
|---|---|
| `AttemptRecord` | the attempt as the control store keeps it, with the rules by which one revision follows another: transition tables, frozen manifest and proof, revision check |
| `OwnedSupervisor` | the supervisor, its threads, the shim and the agent, the lease, the metadata, and the user's approvals as revisions of the same record |
| `AttemptLifecycle` | what the whole promises about one attempt, without supervisors, leases and files: the abstract specification `OwnedSupervisor` is shown to implement |
| `MCOwnedSupervisor` | instances for TLC |
| `OwnedSupervisorProofs` | type correctness and the safety of launches and signals, for every value of the constants |
| `OwnedSupervisorLifecycleProofs` | what threads know of their child: verdicts, metadata, and the refinement of `AttemptLifecycle` |
| `ControlCommands` | the commands of users over the control store: registrations, planning, approvals, launch, retry; each as its sequence of reads and appends |
| `LaunchGate` | what approvals promise about launches: the abstract specification `ControlCommands` implements |
| `MCControlCommands` | instances for TLC |
| `ControlCommandsProofs` | type correctness, the approval theorems, the refinement of `LaunchGate`, keys that take effect once, plans that can be repeated |
| `ControlLog` | the control store's action log as a file: torn lines, the next append, repeated operations |
| `ControlHistory` | what that log promises: a history that only grows; the abstract specification `ControlLog` implements |
| `ControlLogProofs` | that it implements it, for every value of the constants |
| `EvidenceSpool` | both evidence spools line by line and byte by byte, the replay, prune, and compaction beside other writers |
| `ReceiptStore` | what the evidence store promises to those who append and those who query, without spools, offsets and crashes: the abstract specification `EvidenceSpool` implements |
| `EvidenceSpoolProofs` | its types, all of its invariants, and that it implements `ReceiptStore`, for every value of the constants |
| `RefreshableUsage` | the current fact of each usage slot: selection, decision, batches, their replay |
| `IngestionHealth` | the health of usage imports: the watcher's lease, scans that overlap, receipts, repairs, and what is shown as healthy |
| `UsageProofs` | types, invariants and action properties of `RefreshableUsage` and `IngestionHealth`, for every value of the constants |
| `ReceiptSnapshots` | the raw event log, the build of a snapshot of it, and a request that is answered from it |
| `SnapshotBuilds` | who builds: managers of several daemons, their workers, the inherited lock, the rest |
| `TaskContinuations` | the ledger of tasks that the user makes of sessions: the actions, their replay, the operations that append them |
| `TaskGroups` | what that ledger promises, without files and aliases: the abstract specification `TaskContinuations` implements |
| `TaskContinuationsProofs` | its types, the index, and that it implements `TaskGroups` |
| `LedgerWarmer` | the thread that rebuilds the work ledger's caches, tick by tick |
| `RebuildProofs` | types and invariants of what is rebuilt from the log: `ReceiptSnapshots`, `SnapshotBuilds`, `LedgerWarmer` |
| `StoreValues` | Python's `None`, for the modules of the stores |
| `MCStores` | instances of the stores for TLC |

`OwnedSupervisor` EXTENDS `AttemptRecord` and refines `AttemptLifecycle` under
the mapping `Lifecycle`: the agent and the leash of the specification are those
of the process whose proof is on record. `ControlCommands` EXTENDS
`AttemptRecord` too and refines `LaunchGate` under the mapping `Gate`. The two
detailed models meet in the attempt record. Each abstracts the
other: to the supervisor, users are revisions of the record (`UserHold`,
`UserResolve`); to the commands, supervisors are revisions of an active attempt
(`Supervise`). Both take the projection of the action log as their state and an
append as one step. `ControlLog` is what lies under that step: it refines
`ControlHistory`, a sequence of whole operations in which each key occurs once.

The stores of evidence, usage, events, snapshots and tasks, the warmer and the health file
share no state with each other in the model. `EvidenceSpool` and `RefreshableUsage` are two views of one
component: the first knows where a usage batch is in its file and when it is
projected, the second what the batch says. `ReceiptSnapshots` and
`SnapshotBuilds` divide the snapshots in the same way: what a build reads and
publishes, and who may build. The property that joins them is `OneBuilder`, by which
`ReceiptSnapshots` has one worker. `IngestionHealth` is about the processes that
import usage: what `RefreshableUsage` decides of a reading is there no more than whether
the import found errors.

## How the supervisor model corresponds to the code

### State

| Variable | In the code |
|---|---|
| `attempt` | the attempt in `ControlStore.project()`: execution state, control state, whether the manifest is frozen, whose process proof is frozen, revision |
| `meta`, `rundir` | `metadata.json` of the run (status and proof), and whether `create_run_dir` has been there |
| `owner`, `fresh` | `state.json`: whose `lease_id` it holds while its state is `running`, and whether the heartbeat is younger than `stale_after_seconds` |
| `grip` | the supervisor's own view of the lease: never acquired, held, or lost or released (`_lease_lost`, `_started`) |
| `command`, `pc`, `seen`, `tries` | what each thread runs, where it is, the record it works from, and the turn of its `for _retry in range(3)` |
| `shim`, `target`, `gate`, `termed`, `code` | the child process, the agent behind it, the pipe between supervisor and shim, the shim's `cancel_requested` flag, the exit status |

One member of `Supervisor` is one operating-system process that runs one command
and spawns at most one child, so its name also serves as the identity of that
child (pid, birth time, nonce, group, session, executable hash): the seven proof
fields are frozen together and compared together.

### Steps

A step is one call that another process can observe: one projection read, one
append under the store's lock, one metadata write, one read-and-write of the
lease under its lock, one signal. Everything else a handler does goes with the
step it belongs to. The step names in `pc` follow the methods: `fence_manifest`,
`commit_launching`, `spawn`, `fence_running`, `write_metadata`,
`commit_running`, `write_gate`, `abort` and `fail_*` are `launch_attempt` with
`_abort_blocked_process` and `_record_launch_failure`; `cancel_*`, `sigterm`,
`grace`, `kill_fence`, `sigkill`, `reap` are `cancel_attempt`; `done_*` is
`_complete_attempt`; `lost_*` is `_mark_lost`; `reconcile_*` and `loop_*` are
`reconcile` and `_monitor_recovered`. `PROJECT.json` maps every definition to
its lines.

Decisions that a reader of the code may want to check:

- `transition_attempt` reads the projection once before it takes the lock and
  once under it. The append is accepted only if the revision the caller read is
  the current one, so the record is always built from the current one, and the two reads
  are one step.
- A retried commit whose idempotency key another supervisor has used is an error
  and not a retry; `DoneCommit` has that branch.
- A repeated `control launch` derives the same key from the same payload, so any
  supervisor that launches may find the launch of another (`ReplayLaunch`).
- `cli._require_control_revision` compares revisions before the supervisor
  starts; the preflight's own read and the revision check at the commit
  subsume it.
- Verification is exact: a process that exists and matches verifies, another
  does not. Failures to read `/proc` or `ps` are left out.
- `SupervisorLease.heartbeat` returning false and `_lease_lost.set()` are one step;
  where a fence and a verification are adjacent and commute they are one step.
- Time is not modelled: a lease may go stale at any moment (`GoesStale`), and any
  timeout may expire or not.
- `Interrupt` is Ctrl-C, or an I/O error that no handler of the step expects.
  `Exit` is a crash or the normal end; both kill all threads, close the pipe, and
  leave the child and the lease file as they are.
- `ShimKilled` is somebody who kills the shim and not its group. The agent is then
  an orphan nobody can verify. `RunningIsRecorded` therefore speaks of agents
  under their shim.
- The record's outcome axis is left out: no code moves it.
- `Mutant...` operators are no part of the model. Each stands before the definition it
  distorts, the way a plausible bug would, and shows that a property is able to fail.

## How the command model corresponds to the code

| Variable | In the code |
|---|---|
| `agent`, `workspace`, `task`, `contract`, `attempts`, `approvals` | the projection of the action log, as far as the commands on one task read it: `ControlStore.project()` |
| `log` | the idempotency keys in the log, each with the attempt it revised: `ControlProjection.idempotency` |
| `expired` | the approvals whose `expires_at` lies in the past |
| `pc`, `command`, `seen` | per process, where in its command it is, and the attempt revision that its next append names |

- A step is one read of the projection or one append. An append checks its key,
  the revision and the rules of `_apply_event`, and writes, all under the
  store's lock; the read that `create_*` and `transition_*` make before it can
  only refuse what the append would refuse.
- `request-approval` is `RequestCheck`, `Hold`, `Request`; `decide-approval` is
  `ReadApproval`, `Resolve`; `plan` is `PlanCheck`, `CreateTask`,
  `CreateContract`, `CreateAttempt`; `retry` is `RetryCheck`, `CreateAttempt`;
  `launch` is `LaunchCheck`, `Preflight`, `CommitLaunching`. A registration is one append.
- The key of an append is a digest of the command's inputs and of the part
  (`_control_idempotency_key`, `_control_child_key`), so in the model the command
  and the part are the key. Keys that a user chooses by hand, which the store
  refuses when they name something else, are left out.
- A refused command has no step of its own: its client is where the guard fails,
  and leaves it by `End`. `End` is also Ctrl-C, a crash or an I/O error, so a
  command may stop between any two of its appends and be run again, here or
  in another process.
- A repetition that races with its own first run may be refused by the store (the digest
  includes the state before) or answered with the committed record. The model answers it,
  and may end it: nothing is written either way.
- A launch that finds its own key committed is answered without another append
  (`ReplayLaunch` of `OwnedSupervisor`); it has no step here.
- The decision of an approval is dated when the approval is read, so `Resolve` does not
  look at the clock again. `Request` does.
- A task's contract has one revision: only `plan` writes it, after it has created the
  task. Attempts and approvals have ids that the commands give. Adapters,
  budgets and the contract's texts are not looked at.
- The store's `decide_approval`, `consume_approval`, `expire` and
  `cancel` methods have no caller among the commands and are left out.

## How the store models correspond to the code

### The action log (`ControlLog`)

`actions` is `actions.jsonl`, a sequence of lines. A line is `whole`; `unended` if its
event is complete and only the newline is missing; `torn` if part of the event is
missing; `ended` if a torn line got its newline later. `answered` are the operations
that returned to a caller. One mutation is one step, because `_mutate` does all of it
under the exclusive lock: replay, look the key up, apply, append. Where it can be cut
off is `MutateCut`. An `fsync` that raises leaves the line and gives no answer, and is
the same. An operation is what its digest covers: key, target, expected revision.
Callers read revisions before they take the lock, so the model lets any caller make any
operation at any time. The rules of the single actions (`_apply_event` beyond key and
revision) are those of `AttemptRecord` and `ControlCommands`.

### The evidence spools (`EvidenceSpool`)

| Variable | In the code |
|---|---|
| `main`, `usage` | `spool.jsonl`, `refreshable-usage.jsonl`, line by line |
| `proj` | what the SQLite projection holds: receipts, usage batches, spool errors |
| `cursor` | the two replay offsets stored in it |
| `compaction` | per compacting process: its phase, the two files it has linked, the keys that answered and the evidence that links refer to when it looked |
| `issued`, `acked`, `pruned`, `mixed` | receipts ever written; those whose append returned; those prune removed; whether a swap was cut off between its renames |

- *Bytes.* An offset is a number of bytes, and a line has as many as `LineBytes` says:
  two or three, one for a torn tail, and one more for a fence of more digits, since a
  compaction that moves a fence may change the length of its line. A stored offset or a
  fence may fall into a line; then the rest of the line is read, which is no valid
  record.
- *A step is a lock section.* Append, reconcile, prune, the preparation of a
  compaction and its swap hold the store's lock; between preparation, verification
  and swap a compaction holds no lock and others write.
- *Cuts.* Every writer has a second action for where it may be cut off: within the line,
  before the projection, before the offset is stored, between the two renames, between
  the two offsets. A replay may be cut off behind each line.
- *The replay* (`_recover_unlocked`) is the set of its possible ends: usage batches wait
  for the main spool to be replayed up to their fence, a record that is not
  valid or that the database refuses leaves an error and is passed over. The swallowed
  `DatabaseError` of `_project_main_spool_raw` is such a refusal.
- *Prune* removes receipts in batches and may stop behind any; `Prune` takes any set of
  what the selection may remove.
- *The promise* (`ImplementsReceipts`). Under the mapping `Promised` a receipt of
  `ReceiptStore` is a whole line of either spool. It is `written` when it is `OnSpools`,
  `shown` when the projection has it, `refused` when an error of the database is on
  record for it, and `settled` says that a replay has passed every line (`CaughtUp`). An
  append or a reconciliation that returns is `Accept`, one that is cut off is `CutOff`; a
  recovery or the preparation of a compaction is `CatchUp`, prune `Withdraw`, the deletion
  of the projection `Forget`, a swap `Compact`.
- Left out: evidence conflicts, acknowledgements, dimensions, VACUUM, the archive's bytes
  (that it fails is `Abandon`), and read queries.

### Usage (`RefreshableUsage`)

`view` is the projection: per slot a head (content, order, tombstone), the status of
each revision, the conflicts recorded, the batches applied. `written` are the batches on
the spool and `replayed` how far the stored offset is. A reading is a slot, a content
and an order (or none). `Material` is what is left of a content without evidence links:
two contents may differ in their links only.

- `ReadingsOf`, `Candidates`, `Selected`, `Divergent` reduce one view of the ledger to
  one reading per slot (`evidence_runtime.py`). `Decide...` is the decision against the
  head. `Applies` is the check that the projection repeats, since a replay projects a
  batch without deciding.
- `Reconciles` is cut off behind the write, the projection or the offset. `Rewind` is a
  compaction that was cut off before it stored the offset; `DeleteView` the user who
  deletes the projection. `ideal`, `faultless`, `listed` are history: what a replay from
  zero gives, whether the database ever refused, what snapshots named.

### Imports and their health (`IngestionHealth`)

| Variable | In the code |
|---|---|
| `health` | `state.json`: the watcher (the last lease, and whether it was released), the active scans, a receipt per source, and whether the file was read as damaged |
| `now` | the clock, as far as it is compared |
| `job` | per process where it is in `usage watch` or `import-local`, with the locals of `usage_watch`: the scan begun, the skips, whether this turn read a fingerprint (`print`), whether one was committed |
| `scansBegun`, `damage` | scans ever begun (their ids), and how often the file was spoilt |
| `inspected`, `departed` | what a repair has found dead and not yet written down |
| `past` | history: per source the last two outcomes that were recorded, and of which scan the last one is |

- *A step is a locked call.* `begin_scan`, `complete_scan`, `fail_scan`,
  `acquire_watcher`, `heartbeat_watcher` and `release_watcher` read the file, change it and
  replace it under its lock. The two repairs read it, look for processes
  without the lock, and call again: they are two steps each (`Inspect` and `Repair`,
  `FindDeparted` and `Retire`).
- *A turn of `usage watch`* is `Beat`, the choice between a scan and an unchanged one,
  `Begins`, the end of the scan (`ImportEnds`, `ImportFails`, `SkipEnds`), and `Beat`
  again. Whether the logs look as they did when the last fingerprint was committed is left
  open, for they change at any time. `LosesLease` is the error "usage watcher lease was
  lost"; `begin_scan` does not ask for the lease, so a watcher that was superseded may begin
  one more scan.
- *Receipts.* A receipt belongs to the newest scan that began for its source
  (`Attempted`), and only that one may complete it (`Speaks`). `past` records the outcomes
  beside it, where no later scan and no damage can overwrite them.
- `Green` is what `snapshot` shows as healthy; the other answers are not distinguished.
- Left out: the counts in receipts, `scan_stuck` and the wording of issues, conflicts of
  namespaces, a `begin_scan` that cannot write, and that the times in receipts are read
  just before the lock is taken. A lease is named by its process, which draws only one.

### The event log and its snapshots (`ReceiptSnapshots`)

| Variable | In the code |
|---|---|
| `log` | `events.sqlite3`: rows, revision, destructive revision (both moved by triggers), restore identity, absorbed keys |
| `flat` | `events.jsonl`, which processes of older releases still write, with its stamp (size and time) |
| `backup` | a copy of the database, restored by hand |
| `files` | the other inputs of a receipt (continuations, costs, runs), as one number |
| `generation` | the published generation with the tokens it was built from |
| `worker`, `reader` | one build and one request, and where each is |

- A build samples the tokens, opens the log (which drains the flat file), reads the
  rows, reads the files, verifies the safety token and publishes in one transaction.
  Anything may change between these. A request reads an entry, the safety token, the
  status, perhaps the entry again, and answers; so may everything between these.
- A row has a fact, which is what a receipt says of it apart from the counters a usage
  refresh may move. `Preserves` is `usage_refresh_preserves_snapshots`: a trusted rewrite
  that removes no fact does not move the destructive revision.
- The one worker stands for all builds, one after the other (`OneBuilder`), and the
  reader for all requests. Payloads are sets of rows; paging is left out.
- `ReadStatus` is one step: `manager.status` reads the generation and then the tokens
  (`receipt_snapshot_runtime.py:200-202`). What lies between them can only change the answer
  to a request that has found no entry, 404 or 202, of which no property speaks. An
  entry is served by the tokens that `Respond` reads.
- In the mirror mode that this release has left behind the flat file was authoritative.
  The model begins with the store such a release leaves, its rows in both. Parity checks
  and the cutover itself are left out.

### Who builds (`SnapshotBuilds`)

`check_once` of a manager is `Reap`, `Look`, `Judge`, `Spawn`: forget a worker that has
ended, read the tokens, withdraw or decide to build, take the lock and look again.
`holders` are the processes that have the locked descriptor open; the worker inherits
it, so that the lock survives its daemon. `checkpoint` is the rest written in
`build-budget.json` or with the generation, `manager[d].rest` the rest a manager knows
of, and `resting` whether the rest is really not over. Time is that one bit. The settle
time only delays a look and is left out. `Crash` restarts a daemon at once; `Close` is
an orderly end, which terminates the worker and writes its rest down.

`Builds` is one step for the publication and the checkpoint of its rest
(`receipt_snapshot_worker.py:27-35`). The publication carries the CPU time too, so a manager
that finds the generation knows the rest without the checkpoint (`_observe_budget`). A
worker killed between the two is charged by the daemon that waits for it (`Killed`, `Reap`).
When that daemon is gone as well and the generation is withdrawn, its rest is lost; the
docstring of `record_worker_budget` makes no claim for an orphan that is killed.

### Tasks of sessions (`TaskContinuations`)

`settled` is the projection of all lines that are ended, and `tail` what is in a last line
without its newline. Lines are only appended and replay is a fold over them, so a line
that can no longer change is kept as what it has done.

- Every operation is one step: `_locked` spans its replay, its checks and its append.
  Where the append is cut off, the ended newline of an old tail may be written already
  (the tail is settled or was garbage), and the new tail is nothing, garbage, or an action
  that lacks its newline only. Replay reads the last of these as an action.
- `Permitted` and `Outcome` are `_apply_action`, which replay and `_commit_unlocked` share.
  `CreateTask`, `LinkSession`, `MergeTasks`, `LinkSessions`, `UnlinkSession` and
  `RenameTask` add what the methods themselves ask for. A refused operation has no step.
- The ids of tasks are random. Here they are numbered in the order in which they are
  drawn, which loses nothing because the projection compares ids for equality only.
- The `_ProjectionState` keeps `merged_from_task_ids` and titles for display; both are left
  out, and with the titles what a rename changes: it is a line like any other.

### The warmer (`LedgerWarmer`)

| Variable | In the code |
|---|---|
| `store` | the change token of the store at this moment |
| `sinceReader`, `sinceFirst`, `sinceChange`, `rest` | the moments `_last_reader_at`, `_first_unbuilt_change_at`, `_last_change_at`, `_resting_until`, as time since or until them |
| `builtToken`, `unbuiltToken` | the fields of those names |
| `thread`, `token`, `took` | where the thread is, and the locals of `_run_rebuild` |
| `seen`, `passedOver` | history: the store that the last rebuild read; checks in a row that found a change, were not at rest, and built nothing |

- A tick is one `check_interval_seconds`: the thread makes one check for each, and a
  rebuild takes any number of ticks. An age is kept no further than it is compared.
- `Write` is any writer of the store, `NoteReader` any strict request of `api.py`. Both
  happen at any time. The token of a write is one that nothing in the state remembers,
  so a small set of tokens stands for all.
- A rebuild reads the store when it comes to it (`RebuildReads`), some time behind the
  read of its token. Whether it fails makes no difference to the rules: `_run_rebuild`
  records its token either way, and the caches it should have filled check their own keys.
- `Stop` leaves the thread where it waits: `stop` is not waited for, and there is no
  further check.

## Runs

| Run | Instance | Shows |
|---|---|---|
| `supervisor_safety` | two interchangeable supervisors, any command, a hold before the launch, two turns per retry loop | `HoldStopsLaunch`, `ProofBeforeExec`, `RunningIsRecorded`, `HonestVerdict`, `IntentBeforeSignal`, `MetadataFollows`, `VerdictIsKept`, and that the whole implements `AttemptLifecycle` |
| `supervisor_cancel` | a launcher and a canceller, under `CancelSpec` | `CancelSettles` |
| `supervisor_recovery` | a launcher and a recovering supervisor, under `RecoverySpec` | `RecoverySettles` |
| `supervisor_foreground` | two launchers, under `FairSpec` | `ForegroundEnds` is violated: see below |
| `supervisor_stranded` | a launcher and a recovering supervisor | `RecoveryKeepsWatch` is violated: see below |
| `commands_safety` | two clients, one attempt under a mutating contract, two approvals | `ApprovedBeforeLaunch`, `RejectedNeverLaunches`, and that the commands implement `LaunchGate` |
| `commands_retry` | two clients, an attempt and its retry, one approval, either contract, registrations that change | `AppliedOnce`, `Resumable` |
| `commands_order` | as `commands_safety` | `FailClosedOrder` is violated: see below |
| `commands_frozen` | as `commands_retry` | `FrozenAgent` is violated: see below |
| `stores` | each of the eight store models by itself: two evidence ids, three receipts, one compactor, one database error; six operations on two targets and five lines; two slots, four readings, three batches; two rows of one fact, two changes of the inputs; two daemons, two workers, two changes, one crash, kill or failed spawn; four sessions, three tasks; a warmer that settles after one tick, waits for two at most, and rests for two after a long rebuild; two processes that run two versions of the importer, one source, two scans or damages, one tick, one skip | the invariants and properties of the table below |
| `evidence_swap` | the evidence spools of `stores` | `DurableIsVisible` is violated: see below |
| `health_green` | the imports of `stores` | `GreenWasRead` is violated: see below |

`stores` checks for

| Module | Property | In words |
|---|---|---|
| `ControlLog` | `OnlyTornIgnored` | what a mutation checked and appended, every later replay accepts |
| | `ImplementsHistory` | the log is a history: events stay, keys take effect once, answers are true |
| `EvidenceSpool` | `AckedIsDurable`, `AckedIsVisible` | what was acknowledged is on the spool, and found after a replay |
| | `FencesKeepArrivalOrder`, `WrittenOnce` | fences separate older from newer records; nothing is doubled or reordered |
| | `PrunedStaysPruned` | a replay does not bring pruned records back |
| | `ImplementsReceipts` | the store answers for every receipt it acknowledged, whatever is cut off, replayed or compacted; only prune takes that back |
| `RefreshableUsage` | `OneCurrentRevision` | one current revision of a live fact, none of a deleted one |
| | `RebuildAgrees` | the spool alone gives the projection back |
| | `HeadsAdvance`, `UnlistedIsTombstoned` | facts move with a later order only; what a snapshot does not list is gone |
| `IngestionHealth` | `OlderScansYield` | outcomes are recorded in the order in which the scans began |
| | `GreenHasReason` | a source is not shown healthy when the last that was recorded of it is a failure |
| | `LiveIsUndisturbed` | nobody ends the lease or the scan of a process that lives, unless its heartbeat is old |
| `ReceiptSnapshots` | `ServedHoldsNothingRemoved`, `CurrentIsCurrent` | what a served receipt may say |
| | `DeletedStaysDeleted` | the flat file brings nothing back |
| `SnapshotBuilds` | `OneBuilder`, `RestIsKept`, `BuildsConverge` | one worker, rest between builds, receipts catch up |
| `TaskContinuations` | `IndexAgrees` | tasks, session index and aliases agree in every projection |
| | `ImplementsGroups` | whatever is cut off, the grouping changes by one whole operation of the user |
| `LedgerWarmer` | `BuiltWasSeen` | a write that lands during a rebuild is never taken for built |
| | `ChangesAreBuilt` | writes that never pause do not postpone a rebuild beyond `max_wait_seconds` |

The types of the stores are theorems only, and so are `TypeCorrect` of `OwnedSupervisor` and
of `ControlCommands`, and `ProjectionBacked` of `EvidenceSpool`, which `ImplementsReceipts` implies. The eight models are checked by
one run because they have nothing in common: an initial state chooses one (`part`) and the
variables of the others stay as they are. The states of the run are the sum of theirs,
not the product.

`CHECK_DEADLOCK FALSE` is set in each: when every supervisor process has exited and the
agent is gone, the system has stopped, as it should. In the runs of `ControlCommands`
the set of commands is finite, so a state may be reached in which each of them has been
run or is refused. In `stores` each model stops when its bound on lines, receipts,
batches, changes or scans is reached, or its last task or process is gone.

### Why the bounds are enough

- *Two supervisors.* The interesting races have a launcher or former owner on one side
  and a canceller or new owner on the other. Each has a main and a monitor thread, and a
  child, so up to six actors interleave. `WaitInterrupted` lets a launcher go on as a
  canceller in the same process. The theorems hold for any number.
- *`MaxRevision`* bounds the users' commands only: they revise the attempt below
  that revision. Supervisors are not bounded by it, for their moves are bounded by the
  transition tables. Revision 2 lets a user hold the attempt once before its launch, in
  particular between preflight and commit. It does not reach a hold on an attempt that is
  launching or running: these are left to the theorems, which hold for any bound. With
  revision 3 the safety properties hold too (2,551,762 states, checked by hand; too long
  for a regular run).
- *`MaxTries`* is 3 in the code. Two turns already give a first and a last turn; the
  theorems hold for any number. `VerdictIsKept` is about the last turn: with revision 2
  only a cancellation can cost a completion a turn, and one is all there is. With two
  turns it holds up to `MaxRevision = 4` (4,885,303 states, checked by hand) and fails at
  5, which is where the theorem `VerdictKept` puts the limit.
- *Exit status* is zero or not zero, which is all the code distinguishes.
- *Two clients.* A client runs any number of commands, so two suffice for every race
  of two appends and for a command that is cut off and repeated. The theorems hold for any
  number.
- *`MaxRequest`*, the revisions that a request may name. An attempt is held at
  revision 1 and released at revision 3 at the earliest, so with 3 a second request may be
  made before the hold, between hold and decision, and after the release. Each hold is
  one command, so this also bounds how often the attempt is held.
- *`MaxLaunch`*, the revisions that a launch or a retry may name. Without it
  the last revision that a run can reach would not be launched. Revision 5 is the
  last at which an attempt is ready when requests name revisions up to 3, and
  the one at which an attempt is lost that was held once, approved and launched.
- *Two approvals* on one attempt let a request be late for the decision of
  another. With one approval and two attempts, its release of one must not open the other.
- *Three receipts* let a record and a usage batch stand before a compaction and one more
  be written while it runs, or a torn line between two whole ones. The lines of the two
  evidence ids have different lengths, so that an offset of the old file can fall into a
  line of the new one. *One compactor*: a second is refused at the swap once the first
  has replaced the files. With two interchangeable compactors and three receipts the properties hold
  too (684,606 states, checked by hand); the theorems have no bound.
- *Three batches* are needed for a fact to be inserted, deleted and brought back, and
  for a batch that was decided before one that is replayed again. The readings have most of the
  cases that `Decide` tells apart: same content with a later order, another content of the
  same order, of a later one, without one. That two contents differ in links only, and
  that one slot has readings with an order and without, is left to the theorems.
- *`FewRefused`*, in `MCStores`: the database refuses a receipt where two are written, or
  a batch where two are. A refusal needs no more to be told apart from a line that is
  passed over, and one line behind it. With a refusal among three receipts, and among
  three batches, the properties hold too (177,689 and 96,584 states, checked by hand);
  the theorems bound neither.
- *Two processes* that import: a watcher with an import by hand, or two watchers of
  which one supersedes the other, of two versions of the importer. *Two scans* suffice
  for them to overlap in either order, for a failure behind a success, and for an unchanged scan
  behind a failure; a damage of the file takes the place of one. With three the
  properties hold too (600,392 states, checked by hand); the theorems have no bound.
  `StaleAfter = 0` makes a heartbeat old after *one tick*; one skip stands for the twelve.
- *Two rows of one fact*, one of them there from the beginning, in the log and in the
  flat file: a rewrite can remove one and keep the fact, or remove the fact. *Two changes*
  of the inputs beside a build and a request: the tokens are compared with one read later,
  and a second change can only undo what the first did (a restore after a rewrite). With a
  third row, of another fact, the properties hold too (476,969 states, checked by hand).
  A restore that removes facts needs more facts in the log than in the backup and is left to
  the theorems, which have no bound.
- *Two daemons and two workers*: a worker may outlive its daemon while another daemon
  and the restarted one both want the lock. With `MaxTrouble = 2` the safety properties
  hold too (107,290 states, checked by hand); the theorems have no bound.
- *Five lines* of the action log: a torn one, an unended one, the repetition of each,
  and one more on top.
- *Four sessions and three tasks*: two tasks of two sessions each that are merged, with an
  alias left behind; the merged one is dissolved or loses a member, and a third task
  takes up what became free. `MaxTogether = 2`: longer creations equal a creation and links.
- *Ticks*: settling takes one, so that writes in each interval restart it; `MaxWait = 2`
  leaves one check between "not settled" and "overdue"; readers fall out of a window of two;
  a rebuild of one tick or more makes a rest of two, in which the age grows. *Six tokens*:
  five may be remembered at once, and a write needs one more.

### Fairness

Only steps of a supervisor's own threads are fair, and only weakly: a thread
that can run, runs. `CancelSpec` assumes it of the steps of a cancellation and of
the completion by a monitor (the canceller waits for `_completion_lock`, which
the monitor may hold); `RecoverySpec` of monitor threads; `FairSpec` of all
threads. Nothing is assumed of the heartbeat, the shim, the agent, the user, or of
recovery being started. Weak fairness of a group of steps suffices because each
thread has at most one step enabled at any time, apart from choices within the step.
The liveness properties name the ways out that the code accepts: a supervisor
that is killed or interrupted, and another process that has revised the record or
taken the lease.

`BuildsConverge` assumes weak fairness of a worker's steps (a process that runs goes on), of
each manager's `check_once` (a thread of the daemon that runs it over and over) and
of `RestEnds` (time passes). Changes of the inputs, crashes and kills are not fair and
bounded, which is the property's "once nothing changes any more".

## Proofs

### Supervisor

Assumptions: `SupervisorAssumption` of `OwnedSupervisor`, that `None` is not a
supervisor, that commands are commands, and that the bounds are natural numbers,
`MaxTries` not zero. The set of supervisors is arbitrary, even infinite.

| Theorem | States |
|---|---|
| `TypeCorrect` | `Spec => []TypeOK`; in particular no retry loop exceeds `MaxTries` |
| `ProofBeforeExecHolds` | `Spec => []ProofBeforeExec` |
| `OneAgentEver` | at most one supervisor ever has an agent process for the attempt |
| `IntentBeforeSignalHolds` | `Spec => []IntentBeforeSignal` |
| `HoldStopsLaunchHolds` | `Spec => HoldStopsLaunch` |
| `RecordMovesLegally` | every change of the record is a `LegalTransition`: what has ended stays ended, manifest and proof are written once |
| `RunningIsRecordedHolds` | `Spec => []RunningIsRecorded` |
| `HonestVerdictHolds` | `Spec => []HonestVerdict` |
| `MetadataFollowsHolds` | `Spec => []MetadataFollows` |
| `VerdictKept` | `Spec => VerdictIsKept`, if `MaxTries > 1` and `MaxRevision < MaxTries + 3` |
| `LifecycleImplemented` | `Spec => ImplementsLifecycle`: initial states map to initial states of `AttemptLifecycle`, and every step to one of its steps or to none |

**Type correctness.** `TypeOK` alone is not inductive: a thread in a retry loop
must have turns left (otherwise one more conflict would exceed the range), and a
canceller that signals must have seen a proof that is a supervisor.
`TypeInv` adds the two. The proof has one step per action of `Next`.

**Safety.** The argument has two halves.

1. *The record only moves legally* (`RecordStep`). Whatever step is taken, the
   attempt is unchanged or makes a `LegalTransition`, and goes from `pending` to
   `launching` only when `ready`. So a proof that is on record stays, an
   execution that has left `running` does not return to it, and revisions grow.
2. *Who is about to do something irrevocable has a record that justifies it*
   (`SafeInv`). A supervisor at the gate, with a token in the pipe, or with an
   agent, is the one on record (`GateInv`). One that has signalled, or will,
   finds the record past `running` (`SignalInv`). One between preflight and
   commit has seen a revision which, if it is still current, was `ready`
   (`LaunchInv`). And an active record has its manifest, a live one its proof
   (`RecordInv`).

Only a few steps enter such a position. Every other action is `Quiet`: it arms
nothing, signals nothing, launches nothing. `QuietSafe` preserves the
invariant for all of these at once, so the proof treats the few steps (`CommitRunning`,
`WriteGate`, `CancelCommit`, `Sigterm`, `Preflight`, `ShimExec`, ...) by
themselves and only has to show of each other action that it is quiet.

**Verdicts, and the lifecycle** (`OwnedSupervisorLifecycleProofs`). When a verdict is
committed, the thread that commits it acts on what it saw some steps ago: an exit, a
proof that did not verify, a lease it still held. `FateInv` says what is true of the
child at that moment, and why it still is.

- `LauncherInv`: one supervisor launches the attempt, and the process on record is its
  child. `ShimInv`: how a shim, its gate, its agent and the exit status hang together.
- `LiveInv`: an agent that runs, or has its token in the pipe, has a live record. This
  is `RunningIsRecorded` and what it needs about the moment before.
- `VerdictInv`: `HonestVerdict`, and that a process with a verdict is gone.
- `MetaInv`: what `metadata.json` may say beside the record. A final status there is the
  record's, or the "failed" of a launch that is dead (`Dead`): its agent will never start.
- `KnowsInv`: what each thread knows where it is (`Knows`, one part per kind of step): the
  record it has seen is not newer than the current one, and equal to it if the revisions
  are; a canceller finds the record past `running`; a process that is collected or completed
  is the one on record, and gone; an attempt is given up only when nothing runs under
  control (`Over`), and a thread for which that is not so has lost the lease and will be
  stopped at the fence.

`Forward` collects what no step takes back (a child that exists, has exited, or is dead;
a lease that is lost; the legal moves of the record), and a thread's knowledge is made of
these, so that one lemma (`KnowsStays`) carries it over every step of others. What is left is one
lemma per step that commits, kills or collects. With `FateInv` the refinement is a case
per step: the record and the process on record move together or not at all.

**Turns.** A completion that finds its append refused reads the record again, `MaxTries`
times in all (`supervisor.py:904`). `VerdictKept` says when that is enough. A completion
exists only once the process on record is gone. From then on no cancellation begins, and
one that has begun needs the revision it has read, so it can cost one turn only. Every
other conflict is a hold by a user, who finds the live record at revision 3 at the
earliest and revises it below `MaxRevision`. So the revision of the record tells how many
turns a completion can have lost, which is `TurnInv`. The bound on users is a condition
of this theorem, not a fact about the code: with its three turns the code keeps every verdict
against a cancellation and one hold, or against two holds. A third of these that
also lands between a read and its append costs the verdict, and the record stays live until a recovery finds the process gone and marks it lost.

### Commands

Assumption: `CommandAssumption`, that `None` is not an attempt and that commands
have the fields of their kind. Clients, attempts, approvals and commands are arbitrary sets.

| Theorem | States |
|---|---|
| `TypeCorrect` | `Spec => []TypeOK` |
| `LaunchesApproved` | `Spec => []ApprovedBeforeLaunch` |
| `RejectionsFinal` | `Spec => []RejectedNeverLaunches` |
| `GateImplemented` | `Spec => ImplementsGate`: initial states map to initial states of `LaunchGate`, and every step to one of its steps or to none |
| `AppliedOnceHolds` | `Spec => []AppliedOnce` |
| `ResumableHolds` | `Spec => []Resumable` |

`TypeInv` adds to the types what a client's place says about the command it runs
(`CommandInv`), and that requests are for attempts that exist (`ApprovalInv`).
`SafetyInv` has four parts. `ReadyReleased` strengthens `ApprovedBeforeLaunch` from
attempts that were launched to those that are ready to be. `RejectedHeld` adds to
`RejectedNeverLaunches` that the attempt is under policy hold, which neither a hold nor
a decision leaves. `CheckedLaunch` carries the preflight to the commit: if the attempt
still has the revision that the preflight has seen, it is still pending and ready,
because every other step that touches an attempt gives it a new revision.
`ContractFirst` says that no attempt exists before its contract, so that none becomes
guarded after the fact. The refinement needs only `ContractFirst` and `CheckedLaunch`.

`AppliedOnce` counts: an attempt has as many revisions as there are keys committed for it.
Some commands look their key up before they append; the others rely on the record having
moved on. `KeysInv` says so (`KeyHolds`): what was appended under the key of a decision, a
launch or a supervisor's transition can be seen in the approval or the execution state,
and neither goes back (`GoesOn`), so the same append is refused the second time. The
log is finite, and one append adds one to the number on both sides (`RevisionAppended`).

`Resumable` is about a plan whose client was killed after some of its appends. `PlanInv`:
the plan that has created the task is the only one that has, and while the contract or an
attempt exists it is this plan that has created them too (`PlanLeads`); whoever is in the
middle of a plan has what its next append builds on (`PlanSteps`); a hold on the log is of
an attempt that exists (`HoldsExist`). So a repeated plan finds its own records or none,
never another's.

### Usage

Assumption: `UsageAssumption`, that readings have slots, contents and orders, that
`None` is neither a content nor an order, and a natural bound. Slots, contents and
readings are arbitrary sets.

| Theorem | States |
|---|---|
| `UsageTypes` | `UsageSpec => []UsageTypeOK` |
| `OneRevision` | `UsageSpec => []OneCurrentRevision` |
| `Rebuilds` | `UsageSpec => []RebuildAgrees` |
| `DeletionsHold` | `UsageSpec => []UnlistedIsTombstoned` |
| `FactsAdvance` | `UsageSpec => HeadsAdvance` |

`UsageInv` says of every batch on the spool that it carries typed transitions which go
forward in order (`BatchesOK`), of the projection and of every prefix of the replay from
zero that heads and revisions agree (`ProjectionsOK`), and, as long as the database has
refused nothing, that each batch is applicable to the prefix before it (`OnChain`), that
the projection is one of these prefixes, not behind the stored offset, and that the live
heads of the last prefix are listed (`Listed`). `Forward` is what `FactsAdvance` needs:
the projection checks `Newer` for a watermark only, so that an update goes forward is a
fact about how batches were decided, and has to be carried on the spool.
`DecidedApplies` is the central lemma: what is decided against a consistent projection
is applicable to it.

### Imports and their health

Assumption: `HealthAssumption`, that a selection is a set of sources, `None` is none of the
values it is told apart from, and the bounds are natural numbers. Processes, sources and
versions are arbitrary.

| Theorem | States |
|---|---|
| `HealthTypes` | `HealthSpec => []HealthTypeOK` |
| `GreenFollowsSuccess` | `HealthSpec => []GreenHasReason` |
| `OutcomesAdvance` | `HealthSpec => OlderScansYield` |
| `TheLivingAreUndisturbed` | `HealthSpec => LiveIsUndisturbed` |

`HealthInv` adds to the types what makes a receipt trustworthy. Ids are not used twice
(`ScansDistinct`), and only the process that began a scan ends it (`JobsOwn`). A scan
that is registered is not newer than the receipt of any of its sources; when it is the receipt's own, it is newer than the
last scan recorded for that source (`ScansInOrder`, `ReceiptsKnown`): so a scan that may
speak advances `past`, and one that may not says nothing. `ReceiptsTell`: a
receipt that knows a success agrees with `past` about the last outcome, its errors
and its streak. A damage takes the receipts and leaves `past`, which is why this is asked
only of receipts with a success. `RepairsTheDead`: what a repair found dead is dead when it
writes. That rests on process ids that are not used again, which the model assumes
and the code cannot know. TLC has checked `HealthInv` as well, with three scans.

### Log and snapshots

Assumption: `ReceiptAssumption`, that the set of rows is finite and `None` none of them.

| Theorem | States |
|---|---|
| `ReceiptTypes` | `ReceiptSpec => []ReceiptTypeOK` |
| `NothingRemoved` | `ReceiptSpec => []ServedHoldsNothingRemoved` |
| `Current` | `ReceiptSpec => []CurrentIsCurrent` |
| `StaysDeleted` | `ReceiptSpec => []DeletedStaysDeleted` |

Whoever holds tokens holds, with them, a claim (`Holds`): they are not newer than the
inputs (`Past`); if their safety token is the inputs' still, no fact of the rows is gone
and the files are the same; if all tokens are, the rows are the log's. The worker earns
the claim part by part as it reads (`WorkerHolds`), publishing hands it to the
generation, reading to the request. `InputsLater` shows that no change of the inputs
breaks a claim: it either moves a token, or keeps every fact. `Past` is needed because a
token that could come again would revive an old claim; a restored log counts its
revisions from where the backup was, so they are compared only within one restore.
`FlatIsAbsorbed` (rows the flat file and the log have both had are recorded as absorbed)
gives `StaysDeleted`.

### Builds

Assumption: `BuildAssumption`, that daemons and workers are different and `None` neither.

| Theorem | States |
|---|---|
| `BuildTypes` | `BuildSpec => []BuildTypeOK` |
| `OneBuild` | `BuildSpec => []OneBuilder` |
| `RestKept` | `BuildSpec => RestIsKept` |

`BuildsInv`: a worker has the lock open exactly while it runs, a daemon exactly while it
has a child, no two workers have it, and a rest that lasts is written in the checkpoint
(`RestIsWritten`).

### The warmer

Assumption: `WarmerAssumption`, that the bounds are natural numbers, `None` is none of them
and not a token, and there is always a token that is none of those remembered: a store that
was written to has a token that differs from the five that may be compared with it.

| Theorem | States |
|---|---|
| `WarmerTypes` | `WarmerSpec => []WarmerTypeOK` |
| `BuiltSeen` | `WarmerSpec => []BuiltWasSeen` |
| `ChangesBuilt` | `WarmerSpec => []ChangesAreBuilt` |

`BuiltInv`: a rebuild that is about to record its token has read the store of that token.
`PassedOverInv`: as many checks have passed a change over as its age allows, one check
interval apart, and none while a rebuild runs.

### Tasks of sessions

Assumption: `TaskAssumption`, that tasks are numbers. Which and how many,
and which sessions, is arbitrary; the number of actions is not bounded.

| Theorem | States |
|---|---|
| `TaskTypes` | `TaskSpec => []TaskTypeOK` |
| `IndexAgreesHolds` | `TaskSpec => []IndexAgrees` |
| `GroupsImplemented` | `TaskSpec => ImplementsGroups`: the ledger implements `TaskGroups` |

`TaskInv` says of the projection of the lines that are whole, and of the one that reads a
last line without its newline too, that they agree (`Agrees`): members and owners say the
same of every session (`MembersAgree`, `OwnersAgree`), an alias is of an inactive task and
ends at a task without one (`AliasesAgree`). Each kind of action keeps this
(`CreatedAgrees`, `ExtendedAgrees`, `MergedAgrees`, `UnlinkedAgrees`). That aliases have
length one is what the code relies on when it merges: every alias of the task that goes is
turned to the one that stays. `Resolve` follows aliases by a recursive function; that it is
defined and takes one step is proved by the least number for which it would not be
(`LeastNatural`).

### The evidence spools

Assumption: `SpoolAssumption`, that evidence has a key and every line at least one byte,
and that what may be pruned by default is not what must not be. Evidence, keys, widths,
the fence from which a line is longer, the number of compactors, of receipts and of
database errors are arbitrary.

| Theorem | States |
|---|---|
| `SpoolTypeOKHolds` | `SpoolSpec => []SpoolTypeOK` |
| `ProjectionBackedHolds` | `SpoolSpec => []ProjectionBacked` |
| `AckedIsDurableHolds` | `SpoolSpec => []AckedIsDurable` |
| `AckedIsVisibleHolds` | `SpoolSpec => []AckedIsVisible` |
| `FencesKeepArrivalOrderHolds` | `SpoolSpec => []FencesKeepArrivalOrder` |
| `WrittenOnceHolds` | `SpoolSpec => []WrittenOnce` |
| `PrunedStaysPrunedHolds` | `SpoolSpec => []PrunedStaysPruned` |
| `ReceiptsImplemented` | `SpoolSpec => ImplementsReceipts`: the spools refine `ReceiptStore` |

Three recursive functions carry the model: where lines end (`Ends`), what is kept of the
first lines (`Kept`), and where a replay may get to (`Reached`).
Each is shown to be defined and to unfold (`EndUnfolds`, `KeptUnfolds`,
`ReplayStays`), by the least number for which it would not be (`LeastFailure`). From
`EndUnfolds` follows all that is used of offsets: they grow, two files that are alike from
some line on end at the same distance from it (`SameDistance`), and each position lies in
one line (`LineFound`).

A replay of any length is told by `ReplayStays`: it does not leave a set that no step of it
leaves. So the invariant speaks of a projection `p` together with how far it was replayed
(`ProjInv(p, mp, up)`), whether that is stored or still under way. It says:

- `OrderInv`, `AckedInv`, `FenceInv`: ids grow along each file, only the last line is torn,
  what was acknowledged is a whole line, and a fence splits the main spool at its batch.
- `Backed`, `PrunedBehind`: what `p` holds is on the spools, and every pruned line lies
  before the offset.
- `Answering`: `p` answers for everything acknowledged; or nobody compacts, both offsets
  are ends of lines, and `p` answers for what lies before them. The second
  is a projection rebuilt from zero. A replay from an offset inside a line, which a swap
  that was cut off may leave, is of the first kind: it reads lines again, and
  an error about a line that it cannot read takes nothing away.
- `PlansHold`: what a compaction that may still swap relies on. The files go on from the
  two that it has linked (a torn line may have been ended), nothing it drops is projected,
  and the replay has passed what it has of the main spool. Once it is verified,
  nothing that it drops is acknowledged: what is acknowledged and not projected has an error recorded,
  the verification asks for the same error of the rebuild, and a rebuild has
  errors only about lines that it reads (`DroppedWasNotAcked`, `RebuildErrors`).

The swap is the hard step. The new main spool has some of the old lines and all
that matter (`Thinned`, `NothingLost`). Fences move in two ways: one that the compaction
has seen goes to the first kept line behind it (`RefencedParts`; the lines before it are a
prefix of the file, so counting them is counting the older ones, `FirstOnes`), and one that was written
since moves with the lines behind which it stands (`ShiftedParts`). After a swap the other
compactors know that their files were replaced, so nothing is left of what they relied on.

TLC has checked the invariant (`SpoolInv`) as well, for one compactor and three
receipts and for two compactors and two receipts.

`ReceiptsImplemented` rests on it and on two parts of its own. `Promises`: a query answers
only with lines that are on a spool, and everything acknowledged is answered for once the
replay has caught up. The first needs `BatchInv`, that each projected usage
batch has a whole line in `refreshable-usage.jsonl`, since the batches of a projection
are ids without their lines. Each action then is shown to be one of `ReceiptStore`, and
three facts carry this: a replay that starts at the stored offsets only
adds to the projection (`ReplayAdds`); an append writes one receipt and moves no other
(`AppendWrites`, `ReconcileWrites`); a swap takes away only lines that are droppable,
of which no query knows and which nobody was acknowledged, and no usage batch (`SwapMoves`).

### The action log

Assumption: `LogAssumption`, that operations have a key, a target and an expected
revision. Operations and the length of the log are arbitrary.

| Theorem | States |
|---|---|
| `HistoryImplemented` | `LogSpec => ImplementsHistory`: the log refines `ControlHistory` |
| `CompleteCounts` | `LogSpec => []OnlyTornIgnored` |

`LogInv`: only the last line may lack its newline (`OnlyLastOpen`), and there are as many
events as complete lines. The projection is a recursive function of the file. Induction
theorems of the library that take a predicate cannot be instantiated here, so
`LeastFailure` takes their place: a set of numbers that is not empty has a least one,
because the sets `0 .. k` are well-founded under inclusion
(`FS_StrictSubsetOrderingWellFounded`). From it follow that the recursion is defined
(`UpToUnfolds`) and that two files that read alike up to a line replay alike
(`SameReplay`). `AppendedEvents` is what a write does to the projection: one event more
behind all others, or nothing.

### Only model-checked

- The liveness properties (`CancelSettles`, `RecoverySettles`, `BuildsConverge`): the prover
  has no support for fairness and ENABLED.
- That the six runs named under [Disagreements](#disagreements-found) fail.

## Disagreements found

**A repeated foreground launch never returns** (`supervisor_foreground`).
`launch_attempt` answers a repeated idempotency key with the committed launch
(`supervisor.py:640-651`) and starts no monitor. `control_launch` then waits for
a terminal state (`cli.py:8994-9005`). When the first launcher has died, nobody
collects the exit, so the command waits for ever. It is documented as "Launch and
supervise one owned process in the foreground until terminal." (`cli.py:8964`),
and prints `foreground_supervised: True`.

**A recovered monitor that loses one race gives up** (`supervisor_stranded`).
`_monitor_recovered` ends after `_mark_lost` whatever it returns
(`supervisor.py:1131-1136`), and `_mark_lost` ends on the first revision conflict
(`supervisor.py:1108-1109`). A former owner whose `cancel_attempt` is between its
verification and its commit (`supervisor.py:1020-1022`) can win that race. The
record then stays `cancel_requested` with its process gone, while the daemon holds the
lease and serves. `tests/test_supervisor.py:556` states that a recovered
`cancel_requested` becomes lost when the proof disappears.

**An approval may be requested for a ready attempt** (`commands_order`).
`request-approval` holds the attempt and requests the approval in two appends,
and the second does not ask that the attempt still be held
(`control_plane.py:1067-1080`). A second request that is recorded after the
first has been approved leaves a pending approval on an attempt that is `ready`.
`docs/task-control-plane.md:147-151` gives one order, in which the request follows
the hold. Nothing is launched without an approval because of this: that is
`ApprovedBeforeLaunch`.

**A launch may run under a registration that has been replaced**
(`commands_frozen`). The agent's revision is compared in the preflight only
(`supervisor.py:468-469`); the commit is guarded by the attempt's revision alone.
`docs/task-control-plane.md:108-110`: "If that agent registration changes after
the attempt or its approval is created, the old attempt fails closed".

**A record on the spool may be passed over by a compaction** (`evidence_swap`). The swap
sets the replay offset to the end of the new spool (`evidence_store.py:4342-4343`). An
append by another process that was cut off between its write and its projection, after
the compaction had prepared, is then behind the offset and not in the projection, and no
replay will find it. Its append never returned, so `AckedIsVisible` holds; but
`tests/test_evidence_store.py:1094-1113` states that a receipt that was fsynced is
projected when the store is opened again.

**A failed import turns green without being read again** (`health_green`). An import that
finds errors, or whose derived Evidence write fails, writes them into its receipts
(`cli.py:10099-10108`) and returns. `_scan_and_report` is then true (`cli.py:10501`), and
`usage_watch` commits the fingerprint of the logs (`cli.py:10560-10562`). The next turn
finds them unchanged and completes a scan with `error_count` 0 for every source
(`cli.py:10538-10550`), which counts as a success and clears the errors
(`ingestion_health.py:695-698`): for up to twelve turns the source is shown healthy
although nothing was read or written again. `cli.py:10441-10443` says that a handled failure
"returns False so the caller does not commit the unchanged fingerprint", and
`ingestion_health.py:403-404` that health "cannot remain green" after such a failure.
`GreenHasReason` holds, because it takes an unchanged scan for a reason.

The following are behaviours that the models contain, where a comment of the code says
otherwise or is silent. No run is kept for them.

- *A swap that is cut off behind its renames undoes prunes.* The main offset is then
  larger than the new spool or unchanged, and the next replay may begin at zero
  (`evidence_store.py:2711-2714`) and project pruned records again that the spool still
  has. The docstring of `prune_versions` says they "are not resurrected on reopen"
  (`evidence_store.py:2850-2852`). The model empties `pruned` there.
- *A swap that is cut off between its renames leaves fences that do not fit.* They name
  offsets of the new main spool; in the old one they may fall into a line, and the
  replay raises (`Misfenced`). The comment calls the state harmless
  (`evidence_store.py:4333-4336`). The model has it as `mixed`, which
  `FencesKeepArrivalOrder` excludes.
- *A false 404.* A request that finds no entry, reads the status `current`, and looks
  again after the generation was withdrawn answers "unknown work for this store"
  (`receipt_snapshot_http.py:26-35`). The comment there names one of the two races only.
  The next request is answered rightly.
- *A manager with old tokens may withdraw a generation that is newer than its look*
  (`Judge`): it reads the tokens, another daemon publishes, it compares. Nothing wrong
  is served, and the next look builds again; `BuildsConverge` covers it.

## Not modelled

- `reconcile`'s sweep of legacy run directories, run log files, file modes, run ids.
- Reuse of process identifiers between a verification and `killpg`: the code
  cannot close this window either.
- Failures to read a process's birth time or executable.
- Loss of power: what `write` has written survives a crash of the process; that `fsync`
  and the renames of directories make it survive more is not looked at.
- Of the evidence store: conflicts of evidence, acknowledgements, dimensions, VACUUM,
  the archive's bytes, read queries.
- Of the event log: mirror mode, in which the flat file was authoritative, its parity
  checks and the cutover. A store that is adopted while its mirror lags the flat file
  gets the missing rows from it when it is opened, and rows that were deleted in between
  return; the model begins behind that point.
- Of the snapshots: settle times, the window in which a reader keeps managers awake,
  paging, per-section payloads.
- Of tasks of sessions: titles, times and authors.
- Of ingestion health: the counts, the issues that are not about failures, conflicts of
  namespaces; and what an import does beyond the outcome that it records.
- The caches that the ledger warmer fills: each checks its own key when a request uses it.
- Schedules, budgets, task edits, manifests and task merges of the control store: their
  records move along one revision like those modelled.
- The guarded run and store merge: see the plan.
- Rendering, parsing, pricing and aggregation: pure code that unit tests reach.
- Installation and host integration: one-shot edits of files.

## Plan

In order of how much of the system's behaviour depends on it.

1. **Supervisor and attempt**: done, as above.
2. **Commands over the control store**: done, and the log under them, proved. Still to come
   there: explicit idempotency keys and task merge.
3. **Stores**: done, as above: `EvidenceSpool`, `RefreshableUsage`, `ReceiptSnapshots`,
   `SnapshotBuilds`, `TaskContinuations`, `LedgerWarmer`, `IngestionHealth`.
4. **`SupervisorLease`** with an explicit clock, heartbeats that wait for the lock, and
   stale takeover. Abstract: one owner passes the fence at a time. Theorem: mutual
   exclusion of fence passes under the file lock.
5. **`GuardedRun`** (`runner.py`), schedules, task merge, store merge.
6. **Proofs**: every safety property of the passing runs is a theorem, and so is each of
   the five refinements. The modules of points 4 and 5 will want theirs.
