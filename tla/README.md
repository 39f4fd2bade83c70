# TLA+ models of Llumnix (Lai-JX/Llumnix)

This directory holds TLA+ models of the Llumnix migration and dispatch core, the TLC
configurations that check them, and `PROJECT.json`. `PROJECT.json` lists the
components, the runs, the mutants, the definition-to-source map, the findings and the
hazards.

## The system

Llumnix runs LLM inference on a fleet of vLLM engine instances, and it moves running
requests between instances by migrating their KV cache. These are the parts under `src/`:

| Part | Source | Role |
|---|---|---|
| Manager (global coordinator) | `llumnix/manager.py` | One Ray actor running one asyncio loop. It holds the instance membership (`instances`, `instance_migrating`, `pending_rebuild_migration_instances`). It polls instances, launches migrations and handles their callbacks. It scales instances up and down and rebuilds the collective migration group. It also dispatches and aborts requests. |
| Engine backend | `llumnix/backends/vllm/llm_engine.py` | The instance's engine step loop. It holds the step-boundary removal queue (`remove_running_request`), `commit_dst_request`, the last-stage slot and the hooks that free pre-allocations. It also filters the output stream. |
| Migration worker | `llumnix/backends/vllm/worker.py` | The entry point for KV transfer on each GPU worker (`migrate_cache`). It chooses between adding and removing tensor parallelism. It keeps the sequence-group metadata dictionaries (cache, migrating-in, migrating-out) and runs `rebuild_migration_backend`. |
| Migration backends | `llumnix/backends/vllm/migration_backend.py` | RayRpc and RayCol (gloo/nccl). Each does a chunked, pipelined block transfer. The `do_send` split-event / barrier protocol runs between chunk ranks. `init_backend` can time out, and `warmup` is an all-reduce. |
| Client | `llumnix/entrypoints/vllm/client.py` | Reorders the output streams: it drops outputs whose token count does not increase. |
| Telemetry, constants, tools | `llumlet/dcgm.py`, `constants.py`, `examples/`, `logs/` | GPU metrics I/O, configuration constants, an example script and a log sorter. |

`spec.md` describes three further parts that are not under `src/`:

- the llumlet migration driver, which runs the stages, commit and abort of one migration;
- the instance scheduler, which owns the queues, the block manager and the pre-allocations;
- the global scheduler, which owns dispatch, the pair policy and the migration filters.

`Manager` uses the pair policy and `Migration` the migration driver (stages, last stage,
commit and abort) with the scheduler's pre-allocation as a block count; both are
modelled from the spec.

How the parts interact:

- The Manager's poll loop calls `get_instance_info` on every instance. A call that fails
  with a dead-actor error schedules a `scale_down`.
- Every `pair_migration_frequency` polls the loop schedules `_push_migrations`. That
  schedules `_migrate`, which flags both ends of each chosen pair and calls the source's
  `migrate_out`.
- When `migrate_out` returns, a done-callback task clears the flags. If the call failed,
  the task also asks both sides `is_ready`. It then tells each live side to
  `clear_migration_states` and scales the dead side down.
- A membership change with a group-kind backend starts `_rebuild_migration_backend`. That
  task waits until no instance is flagged and disables migration. It then re-creates the
  collective group on all workers (`rebuild_migration_backend`, then `warmup`), repeating
  while the counter changed under it. It then installs the migration filter and restores
  `enable_migration`.

## Modules

### `Manager.tla` (with `MCManager.tla`)

This module models `manager.py`'s membership, polling, migration-launch and rebuild
tasks. The Manager is one asyncio loop, so tasks interleave only at an `await`. Each
action is one await-to-await segment of one task.

| Action | Code |
|---|---|
| `PollIssue`, `PollReply(i)`, `PollDone` | One round of `_poll_instance_info_loop`. A reply creates a callback only for a dead instance. A reply from a live instance changes nothing modelled, so it is left implicit, and `PollDone` also schedules `_push_migrations`. |
| `PollCBStart(t)`, `PollCBResume(t)` | `get_instance_info_done_callback` calling `scale_down(id)`. The first segment ends at the `await clear_instance_ray_resources`. The second removes the id and runs `scale_down`'s tail (`SDAfter`). |
| `MigrateRun` | `_push_migrations` + `_migrate`. It picks a matching of admitted instances, skips pairs with a flagged end, flags the rest and launches them. |
| `MigrateReturn(p)` | `migrate_out` returns or raises. |
| `MCStart`, `MCCheck`, `MCClear`, `MCScaleDown` | `migrate_done_callback`: clear the flags, `_check_instance_error`, `clear_migration_states` on each side without error, and `scale_down` of each side with error. |
| `ScaleUp(i)` | `scale_up`. It is synchronous, and it creates a rebuild task when the counter was 0. |
| `RBFirst`, `RBStart`, `RBReply`, `RBScaleDown`, with `RBEnter` and `RBLoop` for the loop | `_rebuild_migration_backend`. `RBFirst` is the first step of a created task: it sleeps if a flag is set, and otherwise disables migration and enters the loop. `RBStart` is the end of a sleep with every flag clear. The others are each `run_task` reply (rebuild and warmup) and the `scale_down` of the dead instances inside `run_task`. `RBLoop` is the loop head and its exit. If the body never ran, the exit ends with the `UnboundLocalError` of line 518 and does not restore `enable_migration`. |
| `Crash(i)` | The environment: an instance actor dies. |

The model's state corresponds to the code's as follows:

- `instances` is `self.instances`.
- `migrating` is the set of ids whose `instance_migrating` flag is set.
- `pending` is `pending_rebuild_migration_instances`, and `enable` is `enable_migration`.
- `filter` is the `alive_instances` set that the last rebuild installed in the
  `migration_backend_init_filter`.
- `group[i]` is the generation of the group that instance `i`'s workers last joined. It
  is `NoGroup` after a failed `init_backend`, and `gen` counts the `random_uuid` group
  names handed out.
- `wrank[i]` is the set of global ranks of instance `i`'s workers, with the world size
  given to them by the last `rebuild_migration_backend` they ran. `RankOrder`, `TpSizes`
  and `InstanceRank` build `alive_instances`, `instance_rank` and
  `instance_rank_tp_size` (manager.py 491–498). `RankLoop` and `WorkerGlobalRank` are
  the worker's prefix-sum loop (worker.py 238–246), written as a `RECURSIVE` operator
  over the dict's items in order.
- `inflight` holds the `migrate_out` calls that have not returned.
- `uncleared` holds the surviving sides of failed migrations that still owe a
  `clear_migration_states`.

The module abstracts the following:

- Only the `NO_CONSTRAINTS` pair policy is modelled, as any matching over the admitted
  instances. The global scheduler is not in `src/`.
- `pair_migration_frequency` is 1.
- The backend is of group kind and `enable_migration` is configured to TRUE. That is the
  setting in which the rebuild protocol runs.
- Instance ids are never reused.
- `Spawned` disables a step that would create a rebuild task when every rebuild slot
  (`RSlots`) is busy. The slots are a bound on concurrent rebuild tasks.

Constants:

- `InitMayFail` lets `init_backend` time out.
- `TaskErrors` lets `migrate_out` raise while both sides are alive.
- `WorldSizeRaises` lets the blocking `ray.get(get_world_size)` raise on a dead instance.
  In the code it always can. The constant is switched off only in runs that isolate
  another behaviour.
- `MaxCrashes` bounds the deaths, and `MaxMigrations` bounds the `migrate_out` calls
  launched.
- `Tp` gives each instance's tensor-parallel size (`get_world_size`), and `InstOrder`
  the sorted order of the ids.

### Properties

- **MigrationExclusive**: no two in-flight migrations share an instance. It is the
  spec's "at most one inbound and one outbound migration per instance". It needs several
  tasks: `_migrate`, the callbacks and `scale_down` all touch the flags.
- **PendingHandled**: a non-zero counter is always owned by a running rebuild task.
- **MigrationEnabledWhenIdle**: when no rebuild task is alive, migration is enabled.
  It is checked only by the violation runs. Without deaths only one rebuild task exists
  at a time, so there it would restate line 522.
- **GroupConsistent**: when no rebuild runs, every live instance that the filter admits is
  in the current group.
- **NoMigrationDuringRebuild**: no `migrate_out` is in flight while a rebuild re-creates
  the group. This is the spec's quiescence guarantee.
- **GroupRanksDistinct**: the workers of the instances in the current group hold
  distinct global ranks below the world size they all agree on. The instances have
  different tp sizes, so this fails if the ranks come from the uniform-tp formula
  (worker.py 247–250).
- **Converges**: once scale-ups stop, no rebuild runs, the counter is 0 and every
  instance is admitted and in the current group.
- **SurvivorCleared**: after a failed migration, a live side eventually runs
  `clear_migration_states`.

### `Transfer.tla` (with `MCTransfer.tla`)

`Transfer.tla` models one stage of a KV-cache transfer: `MigrationWorker.migrate_cache`
(`worker.py`) runs on every destination worker at once, and it drives the
`do_send` calls on the source workers (`migration_backend.py`).

- **Configuration.** `cfg` is the stage: backend, world sizes, number of blocks, whether
  it is the last stage, and whether SPMD workers send metadata. The constant `Stages`
  lists the shapes to check. `AddTp`, `Chunk`, `SrcOf` and `RankOf` are the fan-out
  arithmetic of `worker.py` 136–150. `Start`, `Off`, `Range`, `LastComm` and
  `SendMeta` are the `for start_idx in range(...)` loop of the backends.
- **Destination workers** (`dw`). Each runs one of four chunk loops:
  - `RpcLoop`, `RpcGet` and `RpcExit`: RayRpc with equal or added tp;
  - `RpcSubLoop` and `RpcSubGet`: RayRpc with subtracted tp;
  - `ColLoop`, `ColRecv` and `ColGet`: RayCol, both shapes.

  An exception in any of them is `Raise` (the worker's `except ... raise`).
- **Source threads** (`th`). Every `do_send` call is a thread of its source worker's
  `ProxyActor`. Its steps are actions:
  - `Create`: rank 0 creates a `BarrierActor` and stores it in the shared
    `self.barrier_actor`;
  - `Split`: rank 0 writes `send_cache_split` and sets the event;
  - `Wait`: other ranks wait for the event;
  - `Send`: `col.send`;
  - `Arrive` and `Await`: the barrier;
  - `Clear`: rank 0 clears the event;
  - `Ret`: the return, and with metadata `_get_seq_group_metadata`'s pop.

  The fields `ev`, `split`, `bars` and `cur` are shared by all threads of a source
  worker, exactly as the backend object's fields are.
- **Data.** KV data is abstracted to its provenance. `gpu[d][p][l]` is the set of
  `<<source position, source worker, slice, layer>>` written to destination block `p`,
  layer `l`.

**Properties.**

- **TransferDelivers**: a destination worker that finishes the stage holds, in every
  block and layer, exactly its own slice of the right source block and layer. This fails
  when any thread sends another iteration's or layer's split.
- **StageSucceeds**: no worker raises, and a last stage with SPMD workers stages the
  metadata.

### `Migration.tla`, `MigrationAbs.tla` (with `MCMigration.tla`)

`Migration.tla` composes two source and destination `BackendVLLM` step loops
(`llm_engine.py`) with the migration driver of spec section 4.5.

- **`Drain`** is lines 393–397. It removes the queued requests from the running queue,
  records the result and wakes the waiting driver.
- **`Step`** is `step_async`, `_process_model_outputs` and `_process_request_outputs`. It
  schedules the running queue and processes outputs:
  - with async output processing, the previous batch's outputs, and it then sets the
    queued output-proc events (226–229) unless the output queue was empty (line 179);
  - without it, this batch's outputs.

  Every output appends a `<<position, instance>>` to the request's stream `out`.
- **Driver actions**:
  - `Select` starts a migration;
  - `StageFrom` and `IsLastStage` come from `get_request_incremental_blocks`; the last
    stage queues the removal of `remove_running_request`;
  - `StageRefused` and `SendDone` are the driver's stage handling;
  - `RmResume` covers lines 493–498;
  - `Last` is the last-stage pre-allocation, with `add_running_request` when it is
    refused;
  - `Commit` is `commit_dst_request`, `free_src_request` and the pop of the last-stage
    set;
  - `Abort` is `free_dst_pre_alloc_cache` and the status reset.

- **SPMD worker metadata** (`SpmdWorker`). Each instance's worker keeps
  `_seq_group_metadata_cache` (`wcache`), and the source and destination workers keep
  `migrating_out` (`wmout`) and `migrating_in` (`wmin`):
  - `SendMetadata`, part of `Last`, is the last stage's `do_send` with
    `send_worker_metadata`. The source pops the metadata into `migrating_out`, and the
    destination stages it;
  - `CommitMetadata`, part of `Commit`, is the awaited `commit_seq_group_metadata`;
  - `PopLastStage`, part of `Commit`, starts the un-awaited pop task
    (`asyncio.create_task`, 513–515), and `WorkerPop` is that task running later.
- **Client** (`client.py`). Each `Step` puts its non-empty batch on the instance's put
  path (`chan[i]`, the put queue and `AsyncPutQueueActor`, FIFO per instance).
  - `Get(i)` is one round of `get_request_outputs_loop`, taking the next batch from
    either instance.
  - `Accept` is `process_output_order`: an output is kept only if its token count
    exceeds the last one accepted.
  - A finished output closes the stream (`open`) and pops `last`.

`MigrationAbs.tla` is what migration promises a client:
- each request's stream is 1, 2, 3, …;
- each token comes from the request's owner at that moment;
- the owner moves once, from the source to the destination.

`Migration` implements it under the refinement mapping `stream <- out`,
`owner <- (destination once committed)`.

**Properties.**

- **MigrationRefinesAbs**: the refinement. It fails if the source emits a token after the
  destination took the request over, or if the destination restarts from a stale token
  count.
- **MigrationEnds**: with `disable_async_output_proc`, every migration the driver starts
  ends.
- **RequestPlaced**: a request is never on both running queues. An unfinished request
  that the driver is not holding is on its owner's running queue. It fails if the last
  stage is sent without `remove_running_request`, or if a refused last stage forgets
  `add_running_request`.
- **MetadataFollowsRequest**: with SPMD workers, every request on an instance's running
  queue has its metadata in that instance's worker cache. The next step sends it as a
  delta that the worker applies to the cache. It fails if `commit_dst_request` starts
  the commit without awaiting it.
- **ClientFinishes**: with `disable_async_output_proc`, every client stream finishes.
  The outputs of one request reach the client from two instances in any interleaving,
  and the client drops any output that is not above the last one accepted. It fails if
  a request is left on no running queue.
- **MetadataReleased**: every request's metadata leaves `migrating_in` and
  `migrating_out`. It fails if the pop is skipped, for example when its status test sees
  the reset status.

## Runs

| Run | cfg | Expect | What it shows |
|---|---|---|---|
| join | `MCManager_join.cfg` | pass | Three instances (tp sizes 2, 1, 1) join while migrations run, with no deaths. `PendingHandled`, `GroupConsistent`, `MigrationExclusive`, `GroupRanksDistinct` and `Converges` hold. |
| crash | `MCManager_crash.cfg` | pass | One of two instances may die at any point: during a poll, a migration or a rebuild. The flags still keep migrations disjoint (`MigrationExclusive`), and `TypeOK` holds. |
| lost_rebuild | `MCManager_f1.cfg` | violation | `PendingHandled`. `scale_down` reads `no_pending_instance` before its `await`, and meanwhile the rebuild consumes the counter. The removal then leaves `pending = 1` with no task to handle it, so later joins never rebuild. |
| double_rebuild | `MCManager_f2.cfg` | violation | `MigrationEnabledWhenIdle`. A poll callback's `scale_down` reads `no_pending_instance` (408) while the counter is 0 and then awaits. A `scale_up` in that window creates rebuild task A, which sleeps because a migration flag is set. The resumed `scale_down` creates a second task B (447). B rebuilds and consumes the counter. When A wakes, its loop body never runs, and the log line at 518 raises `UnboundLocalError` on `instance_rank_tp_size`. A dies with `enable_migration = False`, and no later `scale_up` starts a rebuild. One death is enough. |
| migrate_during_rebuild | `MCManager_f3.cfg` | violation | `NoMigrationDuringRebuild`. A `_migrate` scheduled before the rebuild disabled migration launches `migrate_out` during the rebuild. |
| init_timeout_admitted | `MCManager_f4.cfg` | violation | `GroupConsistent`. The `False` returned by `init_backend` is ignored, so the instance is admitted without a group. |
| survivor_not_cleared | `MCManager_f5.cfg` | violation | `SurvivorCleared`. The poll loop scales the dead side down first, `_check_instance_error` then raises `KeyError`, and the survivor is never cleared. |
| rebuild_task_dies | `MCManager_f6.cfg` | violation | `MigrationEnabledWhenIdle`. `ray.get(get_world_size)` on a dead instance raises out of the rebuild task, and migration stays disabled. |
| transfer | `MCTransfer_transfer.cfg` | pass | Equal tp and fan-in on both backends (0–3 blocks, 2 layers), and a RayRpc fan-out that fits one buffer. `TransferDelivers` and `TypeOK` hold. |
| zero_block | `MCTransfer_zero_block.cfg` | violation | `StageSucceeds`, over every backend and tp shape with 0–2 blocks. A RayRpc stage of 0 blocks skips the loop, and the trailing `do_recv(rpc_numpy_cache, recv_blocks)` raises `UnboundLocalError` (line 179). The spec says such a stage succeeds. |
| stale_split | `MCTransfer_stale_split.cfg` | violation | `TransferDelivers`. In a RayCol fan-out with 2 layers, the rank-1 thread passes `wait()` (547) on the event rank 0 has not cleared yet (561). It sends layer 1's split as layer 2, silently corrupting the KV cache. |
| migration | `MCMigration_migration.cfg` | pass | Two requests, one with `blocking_migration`, a destination with 1 or 4 free blocks, up to 3 migrations, sync and async output processing, SPMD workers, and the client. `TypeOK`, `RequestPlaced`, `MetadataFollowsRequest`, `MigrationRefinesAbs`, `MigrationEnds`, `ClientFinishes` and `MetadataReleased` hold. |

Every property of a passing run has a mutant in `PROJECT.json`. A mutant is a plausible
bug, and TLC finds the property violated when the mutant replaces the code it changes:

- the rebuild loop exits one iteration early;
- `scale_up` does not count the change;
- `scale_up` does not create the rebuild task;
- `_migrate` does not skip flagged pairs;
- `scale_down` leaves the flag entry behind;
- `Create` points the field at a barrier actor that was never created;
- RayRpc `do_send` returns slice 0 whatever its chunk rank;
- the free-block count forgets the blocks pre-allocated in flight;
- `remove_running_request` does not wait for output processing;
- the drain sets no `step_done_event`;
- a refused last stage does not call `add_running_request`;
- the last stage is sent without `remove_running_request`;
- `commit_seq_group_metadata` is started as a task, not awaited;
- the metadata pop tests the status after it was reset;
- the worker computes its global rank with the uniform-tp formula.

### Bounds

The instances are model values. There are three of them in the runs without deaths and
two in the runs with deaths. Instance `i1` has tp size 2 and the others 1, so that
the rank prefix sums differ from the uniform formula. The fixed sort order and the
unequal tp sizes make the instances non-interchangeable, so no run uses symmetry. There are two rebuild slots, so that two rebuild tasks can coexist.

The runs allow one death. That death can happen before, during or after each await of
every task. With two deaths the state space grows past what TLC explores in minutes. The
reason is the number of concurrent callback tasks: every poll round can create a new
scale-down task for every dead instance.

`MaxMigrations` (2–4) allows two overlapping migrations, or a migration racing a
rebuild and a scale-down. Every finding above needs at most one death, one migration and
two joins.

For Transfer, each run has 1 source worker and 2 destination workers, or 2 and 1, or 1
and 1, which covers every fan-out branch. A 2-block buffer with up to 3 blocks gives
two iterations and a short last one. Two layers let RayCol loop over layers. The
zero-block, last-stage and SPMD cases are all enumerated.

For Migration, `MaxTok = 3` leaves room for one non-last stage, a last stage and a
second attempt. With the client and the SPMD metadata, `MaxTok = 4` takes over five
minutes. With cap 1 the last stage is refused; with cap 4 it commits.
`MaxAttempts = 3` lets a refused request be selected again. That is the sequence the
async hang below needs.

### Fairness

Each Manager task segment is weakly fair: the asyncio loop runs every ready task, and
remote calls to live actors return. A task made by `asyncio.create_task` is appended to
the ready queue, and the loop runs the whole ready queue before it polls for I/O and
timers. So while a rebuild task is `"new"` (`Ready` false), only tasks that were
already queued may step: callbacks at their first segment and a scheduled `_migrate`.
Replies, incoming calls and ended sleeps wait, and instance deaths may still happen.
Leaving the rebuild's wait loop is strongly fair. The
loop re-tests the flags every `WAIT_ALL_MIGRATIONS_DONE_INTERVAL`, so it leaves once they
are clear at a sample. A workload whose migrations keep the flags set at every sample
would starve the rebuild; that case is assumed away and listed as a hazard. Deaths and
scale-ups are not forced.

In Migration, both step loops and the driver's continuations (`SendDone`, `RmResume`,
`Last`, `Commit`) are weakly fair. The loop sleeps at most `NO_OUTPUTS_STEP_INTERVAL`,
and every awaited remote call returns. Starting a migration (`Select`) is the manager's
choice and is not fair. The client's output loop and the worker's pop task are weakly
fair: the loop runs forever, and an asyncio task that was created runs.

Transfer's specification is weakly fair in its whole next-state relation. Every
`do_send` is a thread of its `ProxyActor`, and every `ray.get` returns once its task
finished. No run checks a liveness property of Transfer (see the barrier deadlock
below).

### Hazards found but not checked by a run

- **Async output hang** (`llm_engine.py:179` / `496`). With async output processing, a
  request put back on the running queue by a refused last stage, and selected again
  before the source steps, has no pending output. The output-proc event is never set,
  the driver waits forever, and the request is on no running queue. TLC finds
  `MigrationEnds` violated at the migration run's bounds (and with it `ClientFinishes`).
  The run therefore states both for synchronous mode only.
- **RayRpc fan-out barrier deadlock** (`migration_backend.py:278`). Over several buffer
  iterations, the rank-1 `do_send` of the next iteration passes the still-set event and
  arrives on the previous, already released barrier actor. Rank 0 then waits alone on a
  new one. With `Stages` holding a RayRpc 1→2 stage of 3 blocks through a 2-block
  buffer, no behaviour of Transfer reaches `Terminated`. No run checks this, because
  every run slot is in use. The transfer run keeps its fan-out within one buffer, so
  its invariants are checked on shapes that terminate.
- **Metadata on fan-out and subtract tp** (`worker.py:182`, `migration_backend.py:217`).
  With stages of at least one block, `StageSucceeds` fails on these shapes too. The
  zero_block run includes them, but TLC reports the shorter zero-block trace first.

- **Request routing** (`manager.py:195`, `:319`). `abort` raises `KeyError` on an entry
  for an instance already scaled down, which leaves the later instances' requests
  unaborted. `migrate_done_callback` remaps only the first migrated request.
- **Client fallback and manager restarts** (`client.py:65`, `:67`, `manager.py:214`).
  The first failed `manager.generate` returns a stream that may never get an output. A
  later failure of the restarted (detached, `max_restarts=-1`) manager can dispatch a
  request twice. A restarted manager has empty `instance_migrating` while the old
  migrations still run, so its rebuild can overlap them.

  Each of these needs a violation run, and the twelve runs are taken by the passing runs
  and the findings above.

## Not modelled yet, and why

- `generate`, `abort` and the `request_instance` map with its clear loop in the Manager,
  and a restart of the Manager actor. What is hard in them shows as a violation (see the
  hazards above). The code accepts lost aborts by design (manager.py:189). No property of
  theirs holds that says more than "entries are eventually wiped".
- `restore_migrating_out_seq_group_metadata` and `free_migrating_in_seq_group_metadata`.
  They are reached only from `clear_migration_states` after a failed migration, and that
  driver code is not in the repository. Their race with the next step of a reinstated
  request is listed as a hazard.
- Engine crashes in the step loop, worker deaths during a transfer
  (`RayActorError` is swallowed at `worker.py:159`), and the 10 s `exec_method` timeout.
- Waiting-request migration, and the vLLM scheduler and block manager beyond block
  counts. These are not under `src/`.
- Group init, destroy and warmup of the backends; tensor layouts and dtypes.
- CSV logging and `_connect_to_instances`: these are output and one-time setup.
- The client's `generate`, `abort` and manager fallback (`_generate_by_instance`).
- `dcgm.py`, `constants.py`, the example and the log sorter: these are I/O or constants,
  or they are not part of the running system.

## Plan

1. Manager: dispatch and abort with the `request_instance` map, a `scale_up` whose
   `ray.get` raises, and a manager restart. Each needs a violation run.
2. Migration: a failed send with `clear_migration_states` (restore and free of the
   worker metadata), an engine crash during a removal, and `clear_migration_states`
   racing a new migration.
3. Transfer: the `exec_method` timeout racing a running `do_send`.
