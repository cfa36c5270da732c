# Verification of the ARCXA coordinator

ARCXA (older names in the code: *graphica*) is a data-governance platform: a coordinator (control
plane) with REST/gRPC APIs, RDF shards (data plane), a model service, clients and a frontend. Most of
its code transforms data and serves requests. What is hard to get right, and hard to test, sits in the
coordinator's stateful parts, which this project models, checks with TLC and proves with TLAPS:

* *durability of lineage events*: an event handed to the coordinator must reach RocksDB, Kafka and
  Parquet across broker outages, log errors, crashes and several coordinators that want to replay;
* *cluster state*: which shard owns a key, on a ring that replicas change by applying one log;
* *jobs*: a load or a batch of workflows that is cancelled, retried, resumed or interrupted must
  neither lose nor repeat work without its record saying so.

All paths below are relative to `src/arcxa-coordinator/src/` unless they start with `src/`.

## Inventory

| Component | State it keeps | Operations | What is hard | What makes it correct |
| --- | --- | --- | --- | --- |
| Circuit breaker `storage/kafka/circuit_breaker.rs` | state, two streak counters, time of opening, half-open slots | `call`: admit, run the future unlocked, record | results arrive after the state has changed | slots are given back; failure count bounded; it closes once the broker is back |
| Segmented log `storage/wal/file_wal.rs` | active segment, rotated segments, current and committed LSN, index, files | append, append_batch, rotate, sync, commit, truncate, compaction, close, open | LSN drawn before the lock, rotation in two sections, background workers, fsync modes, restart | what was acknowledged is stored until committed; what was promised durable is; the index is right |
| Durable sink `storage/kafka/durable_sink.rs`, `acknowledgment_tracker.rs`, `replay_manager.rs` | pending and acknowledged events, the log, the breaker | send_with_durability, mark_acknowledged, cleanup, recover_on_startup | lost answers, replay racing sends, out-of-order acknowledgments, crash | no accepted event is forgotten, an acknowledgment means delivery, every call returns |
| Replay election `storage/kafka/distributed_replay.rs`, `api/kafka_raft.rs` | role and term of each coordinator, in memory | start_election, handle_vote_request, replay_if_leader | one lock per field, lost requests, replies with other terms, restart | two leaders share a voter, votes are genuine, terms grow until a restart |
| Two-phase commit `storage/wal/coordinator.rs`, `storage/mod.rs` | active transactions, log records | begin, add_lineage, prepare, commit, abort, timeout, checkpoint, recover, write_batch | one of several steps fails, the timeout handler meets a half-done commit, crash | write-ahead, commit only after prepare, abort final and without a trace, transactions end |
| Storage tiers `storage/rocks.rs`, `storage/parquet.rs`, writer pools | events | write, query, archive_old_data | move of old data racing writes | no event between two tiers is lost |
| RDF log wrapper `governance/rdf_wal.rs` | log of triples | insert, forward, replay | forward fails after the log | every logged triple reaches its shard |
| Hash ring `ha/consistent_hash.rs` | virtual nodes by position, list of nodes per shard | add, remove, reassign, clear, find_shard, find_shards_with_replicas | two structures that must agree, collisions, wrap-around | lookups find known shards; keys move no more than they must |
| Cluster state machine `ha/state_machine.rs`, `ha/raft_coordinator.rs` | shards, heartbeats, ring, migrations, version | nine commands, apply loop, snapshot, restore | commands fail half way, replicas lag, drop entries, restart | replicas that applied the same commands agree; the version covers what changed |
| Rebalancer, health monitor `ha/rebalancer.rs`, `ha/health_monitor.rs` | active migrations, shard health | execute, cancel, probe results | check and insert under different locks | at most max_concurrent migrations |
| Loader jobs `mapping/loader/orchestration/`, `mapping/loader/checkpoint.rs` | job entries, cancellation tokens, workers, checkpoint file | register, start, cancel, shutdown; read, batch, checkpoint, resume | registration in two steps, checkpoints ahead of the table, torn files, crash | the status follows its diagram; no row vanishes; a row is repeated only after a crash; runs end |
| Batch jobs `workflows/engine/batch_executor.rs`, `workflows/storage/batch_job_store.rs`, `workflows/api/batch_handlers.rs` | job record, index by status, cache, executions | execute, cancel, delete; waves, retries, permits | two executors on one job, stale copies, store operations that overlap, panics, crash | no two executors run one execution, a retry runs it again, dependencies first, Completed means done, executors return |
| Workflow executions `workflows/engine/` | executions, approvals, streams, compensation | execute, pause, resume, roll back | partial failure | compensation undoes what was done |
| Bitemporal store `bitemporal/` | versions, transaction sequence, consensus log | begin, append version, propose | crash, reordering | version chains do not overlap |
| Shard coordination `governance/shard_coordinator/`, `src/arcxa-shard` | shard registry, connections | register, route, heartbeat | stale registry | a write goes to the owner |
| Mapping, ETL, discovery, API handlers, GDPR, SoS validation, observability, security | mostly stateless | - | - | data transformation and I/O |
| Core library, traceability, evidence, verification, migrations, model service, CLI, Python client, frontend, deployment files | - | - | - | clients, types and configuration |

How they interact: `LineageStorage` (`storage/mod.rs`) owns the tiers, optionally a `WalCoordinator`
and a Kafka sink. The durable sink calls its own log, then Kafka through the breaker, then its
tracker; at startup `main.rs` runs the replay manager, which calls the sink again. Coordinators talk to
each other over HTTP (`api/kafka_raft.rs`) to choose who replays. The log is shared by callers, a sync
worker and a compaction worker. The Raft loop of `ha/raft_coordinator.rs` hands committed commands to
the state machine, which owns a ring. The loader's manager spawns a worker per job; both see the token
of the job, and only the worker the checkpoint file. The batch handlers spawn an executor per request;
executors, handlers and a restarted process meet in the batch job store only.

`PROJECT.json` lists the components, the hazards with their source lines, the runs, the mutants, the
map from definitions to lines, the findings and the theorems.

## Modules

| Module | Models | Granularity |
| --- | --- | --- |
| `CircuitBreaker` | `CircuitBreaker::call` and its two locked sections | one action per locked section |
| `FileWal` | the log as implemented on files | one action per locked section of append and rotate; the two workers |
| `DurableSink` | sink, tracker and replay; composes `Breaker == INSTANCE CircuitBreaker` on shared variables | one action per await of send_with_durability |
| `ReplayElection` | election and replay of several coordinators | one action per lock or message |
| `WalCoordinator` | two-phase commit and `write_batch` | one action per operation; commit in three steps |
| `HashRing` | `ConsistentHashRing` as operators on a value | one operator per method |
| `RingLife` | one ring in the hands of a caller | one action per method |
| `ClusterState` | the replicated state machine under a committed log; extends `HashRing` | one action per entry applied or dropped |
| `JobLifecycle` | abstract: the state diagram of a loader job | one action per arrow |
| `LoaderJobs` | manager, worker and checkpoint file; implements `JobLifecycle` | one action per locked section, await or file operation |
| `BatchJobs` | batch job store, executor and handlers | store operations cut at their reads, writes and cache updates |
| `MC...` | instances for TLC, with their symmetry sets; `MCRing` has `RingLife` and `ClusterState` over one placement, a behaviour being of the one or the other | |
| `...Proofs` | theorems about the module they extend; `RingProofs` extends both `RingLife` and `ClusterState`, which is why the specification of `RingLife` is called `RingSpec` | |

Variables carry the names of the fields they model. History variables, and the parts that stand for
the world outside (`brokerUp`, `topic`, `stored`), are marked in the declarations. Operators whose name ends in an
underscore and a word, such as `MayCommit_Unprepared`, are *plausible slips*: they are not used by the
specification; substituting one for the definition of the same name must make TLC find the property
that `PROJECT.json` names violated.

### Correspondence worth knowing

* **CircuitBreaker.** `opened_at` is `None`, `Recent` or `Elapsed`; `TimeoutExpires` is the passing of
  `config.timeout`. Metric counters are left out. `probes` is a history of the calls admitted by the
  current half-open episode.
* **FileWal.** An entry has size one and is identified by LSN and incarnation (`boot`). `files` is what
  the page cache shows, `disk` what fsync made durable. `read` and `scan` are lookups through
  `lsn_index`, which `IndexTruthful` is about. The disk-space refusal happens before any change.
  `RotateBegin` takes the question of `should_rotate`, the load of `current_lsn`, the read of the id and the
  creation of the file in one step: all four precede the lock, and what matters is that they may be stale
  when it is taken. Of the errors of an append, WalFull and fsync are modelled. A write or an asynchronous
  flush that fails (469-478) is not: with the memory map its bytes lie past the position and the next append
  overwrites them, without it the file's cursor is ahead of the position from then on.
* **DurableSink.** The log is the ideal one of `storage/wal/traits.rs` (an entry synced stays, LSNs go on
  after a restart): the sink's own protocol is judged apart from the flaws of the file log, which
  `FileWal` shows. A replay is one batch. `DurableKafkaLineageSink::write`, which the replay calls,
  blocks on the runtime handle; inside an async task that call panics in tokio. The model takes the
  sequence of sends it asks for.
* **ReplayElection.** A coordinator may die at any point and starts again as a follower in term 0, since role
  and term are in memory only; it then stands in term 1 again. A vote it gave before still arrives. `voted_for` is written by a candidate for itself and never read, and heartbeats
  change nothing at either end; both are left out.
* **WalCoordinator.** Operations on one transaction exclude each other because each holds the DashMap
  guard to its end. A failed append may leave its record behind (the write succeeded, the sync or the
  rotation did not). The `boot` in a record's key is a ghost. `connected` is whether `connect_storage`
  was called; `with_wal` does not call it, so `write_batch` writes the tiers after the commit itself.
  `recover` is no action: its scan returns no entries, so it changes nothing.
* **HashRing.** A ring is `nodes` (owner by position), `known` (the shards that have a list) and `lists` (positions by shard). `Place[s][i]` is the
  hash of a virtual node, `Retry[s][i]` the one used when that position is taken; both are constants, and
  hashes of different names are taken to differ. Load percentages are left out.
* **ClusterState.** That Raft commits one log and hands its entries to a replica in order is assumed, and
  marked external; so is what a restarted replica is sent. Not all that is handed over is applied:
  `process_ready` applies the committed entries of a `Ready` (`Apply`) and throws away the `LightReady` that
  `advance()` returns (line 393), with the entries that became applicable meanwhile (`Discard`). `delivered` is
  how far Raft has come with a replica, `applied` the history of what it did apply. An entry whose command
  fails is applied with whatever it has changed, as the code's event loop does. `snapshot()` and `restore()`
  have no caller outside tests, and `process_ready` does not look at snapshots, so there is no such action.
  Several replicas are the design, not yet the program: `process_ready` sends `take_messages()` and not the
  persisted messages (367), which in version 0.7 of the crate are all the messages of a node that does not
  lead, and the sending itself is a TODO outside tests; several nodes elect no leader. A node alone commits
  its entries inside `advance()`, where they are dropped.
* **LoaderJobs.** A source file is a sequence of rows of which some do not parse. A row goes from the
  reader to the batch in memory to the table; `table` counts how often it arrived there. `ckpt.batch` is a
  history of what was in memory when the file was written. Jobs share only a directory, so there is one.
  `table` is what the worker takes to be loaded (`TableWith`): as `start_job` builds it, a worker has no
  connection manager, its `execute_batch` sleeps and returns the length of the batch (618-626), and with one
  the number of affected rows is compared with nothing. A `File::create` that fails leaves the old checkpoint
  file; the model takes it for a write that fails, which may tear the file, and the run ends alike.
* **BatchJobs.** The job record is reduced to its status, the one thing the store indexes and everybody
  tests. What a request does between two store operations is part of the get that follows. Executions are
  in the in-memory backend, the default of `ExecutionStore::new`. A job whose executions depend on each
  other comes from callers inside the process: `create_batch_job` draws the ids itself, so a client
  cannot name them. At this commit the handlers' `BatchJobApiState` is built by tests only. The pause branch
  of the executor cannot be reached: its context has no approval store. A cache miss and the read of the record
  (`Get`) are one step, so a reader is not overtaken by another's fill of the cache between the two. A
  dependency that is not in the job (838-848) is ruled out by `JobsAssumption`; it ends as `Circular` does.

## Runs

Passing runs, one per component, ring and cluster state in one (bounds in the cfg; every bound has a `Max...` name):

| Run | Properties | What it shows |
| --- | --- | --- |
| `breaker` | `NoSlotLeak` `FailureCountBounded` `RecoversWhenBrokerDoes` | four callers, two slots but three successes needed, late results of earlier episodes: slots are never leaked, the failure count is bounded, and the breaker closes for good once Kafka stays up |
| `wal` | `LostOnlyByRotationRace` `PromisedDurable` `IndexTruthful` `CleanMeansDurable` | three appenders with batches, rotation by size and age, both workers, commit, truncation, I/O errors and a restart in mode BatchSync: within an incarnation an acknowledged entry is lost only through the two races of `rotate_internal`; what a sync promised is durable; the index is right; a clean segment is on disk |
| `election` | `LeadersShareAVoter` `LeaderVotesGenuine` `ElectionTermsIncrease` | three coordinators, two of them standing concurrently and repeatedly and restarting, lost requests and replies |
| `sink` | `NothingForgotten` `AcknowledgedDelivered` `CallsReturn` | a sender and a replay, the breaker at its smallest thresholds, the tracker at its limit, lost answers, log errors, a restart |
| `tx` | `WriteAhead` `CommitAfterPrepare` `AbortIsFinal` `TransactionsEnd` | two interleaved transactions, storage connected or not, any step failing or cut off by a crash, the timeout handler aborting |
| `ring` | `RoutedAreKnown` `NodesListed` `ReplicasOK` `KeysStay` | one ring under every sequence of operations, with positions that are taken when a shard comes back: lookups and replicas are right, keys move no more than consistent hashing promises |
| | `ReplicasAgree` `RingMirror` `VersionCoversChanges` | in the same run, two replicas at different places of one log, commands that fail half way, a restart, an entry dropped with a `LightReady`: replicas that applied the same commands have the same state (but for the clock values in it), ring and lists stay consistent, and a state whose version did not move differs only by what a failed migration left |
| `loader` | `RowsAccounted` `CheckpointTruthful` `ReloadedWereExposed` `RunningIsLive` `ImplementsLifecycle` `RunsEnd` | one job through registration races, cancellation, malformed rows, failing batches and checkpoint writes, and two crashes |
| `batch` | `OneExecutorRuns` `DependenciesFirst` `CompletedMeansLoaded` `IndexExact` `ExecutorsReturn` | two executors, or one with a cancellation and a deletion, on a job whose executions fail, panic and retry, over a store whose operations interleave, with a crash |

The first five also check their module's `TypeOK`. `ImplementsLifecycle` is a refinement: `LoaderJobs`
with `status <- job.status` and `cancel <- job.token \in cancelled` behaves as `JobLifecycle` says. Runs that end in a violation, each a disagreement between the
code and a sentence of the repository (quoted in `PROJECT.json` under "findings"):

| Run | The code ... |
| --- | --- |
| `election_replay` | remembers no vote: two coordinators lead, and both replay |
| `tx_outcome` | lets the owner or the timeout handler abort a transaction whose storage write failed after a part of the events: the part stays in the tiers |
| `loader_lost` | saves checkpoints past rows that are still in the batch in memory: after a crash the resumed load completes without them |
| `batch_retry` | refuses a retry: the execution store knows the id of the failed attempt, so no retry runs an action |

Some properties name a race or a loss that the code has and claim the rest; they do not show that it cannot
happen. `LostOnlyByRotationRace` (and `PromisedDurable`) excuse the two races of `rotate_internal`;
`AcknowledgedDelivered` is not about lower LSNs that the watermark passes; `ElectionTermsIncrease` holds between two starts of a
process; `ReplicasAgree` compares positions in the log only until an entry was dropped; `RowsAccounted` and
`CheckpointTruthful` count rows passed over by a resume as `dropped` (`NoRowLost` does not);
`RunningIsLive`, `ImplementsLifecycle` and `ReloadedWereExposed` suppose that no entry was replaced;
`IndexExact` that store operations do not overlap and no deleted job is written; `CompletedMeansLoaded` excuses panics.

Seen while modelling, visible in the modules, and without a run of their own. Durability:

* The breaker gives a slot back for the late success of a call that never held one, so more probes than
  `half_open_max_requests` can be in flight (`RecordSuccess`).
* `rotate_internal` reads the active segment's id before the lock: two rotations can swap in the same
  file, and the second overwrites entries (`LostOnlyByRotationRace` names this case). A log that is reopened starts at
  segment 0, LSN 0 and position 0 and overwrites what is there (`Restart`).
* After a crash the startup replay reads the tracker, which is empty, and never the log; the commit of
  an acknowledged LSN is a watermark and passes lower ones that Kafka does not have.
* `append_batch` never asks `should_rotate`, so a batch can leave the active segment full and every
  further append is refused (`Write`); `head_lsn` is 1 before any commit although LSN 0 is the oldest entry;
  in mode Periodic the sync worker clears `dirty` without an fsync (`WorkerSync`).
* The end LSN of a rotated segment is read before the lock, so that a segment can be compacted with an
  uncommitted entry in it (`CompactedLate`).
* A candidate that stepped down on a higher term becomes leader all the same if the votes suffice
  (`ConcludeElection`); replies with different higher terms can lower a term (`ReceiveVote`).
* A replayed event is sent under a new id and its old entry stays pending, so it can be in Kafka twice
  (`ReplayNext`); backpressure is a single pause (`BackpressureOver`); a failed send is not tried again by
  the running process.
* `recover` finds nothing, since its scan of the log returns an empty list; `commit_batch` moves the
  watermark over entries of transactions that are still active (`CommitFinish`); `write_batch` writes the tiers
  after the transaction is committed and forgotten (`WriteTiers`).
* A late success is recorded in OPEN, which a comment calls impossible (`RecordSuccess`).
* Interleaved transactions share the watermark; transaction ids start at 1 in every incarnation, so one
  log holds different transactions under one id.

Cluster:

* `add_shard` does not look at the second position of a virtual node: it can overwrite the node of
  another shard, whose list still names it (`AddShard`); removing that shard then takes the node away
  from its new owner, hence the condition in `KeysStay`.
* Registering or unregistering a shard rebuilds the ring from the placement, which undoes completed
  migrations; an aborted migration can be completed; a completion that fails half way keeps its part and
  does not move the version.
* A replica's own clock goes into the replicated state (`last_heartbeat` at registration, `started_at`).
  A client's command is answered once it is proposed, before it is committed. Raft's log and vote are kept in memory.
* The `LightReady` of `advance()` is dropped with the committed entries in it (`ha/raft_coordinator.rs:393`,
  `Discard`): a replica misses commands for good, and nothing reports it.
* `ha/rebalancer.rs:431` checks the limit on migrations under a read lock and inserts later.

Jobs:

* A checkpoint file is truncated and then rewritten: cut off in between, it cannot be parsed, and every later
  start of the job fails (`Save`, `BeginFails`). The seek counts rows that parse, the row number all rows.
* A cancelled Pending job stays Pending and runs, until it looks at its token, when started.
* What makes retries fail, that the execution store refuses an id it knows (`Save`), is also what keeps two
  executors from running the same execution; after a crash the executions are forgotten, and actions do run
  again.
* The executor writes its copy of the job after every wave: it overwrites Cancelled, and brings back a
  deleted record without its index entry (`UpdateWrite`). `update` and `get` race over the cache.
* A circular job stays Running. Without `stop_on_error` dependents run although a dependency failed. A
  panicked task is in neither of the executor's sets, so that the job may end as Completed.

### Bounds

The bounds are the smallest that let each hazard happen and its consequences play out: two actors for
every race and three where a third must act between two (the late compaction needs a second appender to write
between the reading of the end LSN and the swap, and a third whose lower LSN is committed later),
thresholds small enough that all breaker states are crossed repeatedly, a segment of two entries so
that batches do not fit and rotation is frequent, one restart so that state of an earlier incarnation meets
a later one. In `FileWal` and `WalCoordinator` an incarnation after a restart draws one LSN, or begins
one transaction, less than the one before. In `WalCoordinator` errors and checkpoints share the bound
`MaxIncidents`, in `tx` a single incident anywhere; `wal` has no bound on I/O errors. The proofs below
do not depend on these bounds. `election` has two candidates, two terms and two restarts, so that a candidate
can restart between any two steps of the other, twice; that replies with different higher terms lower a term needs
three candidates, and is left to the theorem.

`ring` explores the whole state graph of one ring of three shards of up to one virtual node, where reassigned
nodes take the positions of shards that come back. Its replicas start with a log that registers two shards,
sets the ring and starts a migration of two nodes, and three commands of any kind follow, with one restart, one
dropped entry, and replicas at most one entry apart when the other commits. `loader` has files of three good rows, with one
malformed row and with too many, batches of two and a checkpoint every two rows, so that a checkpoint can fall
before, between and after batches; two crashes allow a resumed run to be resumed. `batch` has two
executions, in a job with a dependency, one with retries and one that is circular; the requests that come
together are given by `Arrivals`, since all four at once add states and no new pair of opponents.

Deadlock checking is off where the bounds stop the system (terms, events, replays, transactions used up).

### Fairness

* Breaker: tasks in `call` proceed (weak fairness on recording and returning: tokio polls ready tasks),
  callers keep calling, and time passes (`TimeoutExpires`). Nothing is assumed of the broker except, in the property itself, that it stays up.
* Sink: the steps of a call in progress are weakly fair; Kafka's producer has a message timeout, so a send
  comes back. No fairness on new calls, replays or recovery of Kafka.
* Transactions: weak fairness of `Abort` (the handler looks at the map every five seconds and tries
  again what failed) and of the steps of a commit in progress. This supposes a runtime with more worker
  threads than tasks blocked on a DashMap shard; the hazard list says so.

* Loader: a worker's steps are weakly fair (a spawned task is polled until it returns; statements return
  or fail). Nothing makes a job be registered, started or cancelled.
* Batch jobs: the executor with its tasks is weakly fair, and actions are assumed to return; requests need
  not arrive. The ring run states no fairness.

## Proofs

Checked by `tlapm`, for every value of the constants that satisfies the modules' assumptions:

* **CircuitBreakerProofs**: `TypeCorrect`, `SlotsNeverLeak`, `FailuresBounded`. The inductive invariant
  adds to the type that probes are calls in flight, that slots taken are at most the probes, and a
  *failure budget*: while CLOSED the count is below the threshold, and each call in flight can add at
  most one. `FailureCountBounded` alone is not inductive because a late failure in OPEN counts on.
* **ReplayElectionProofs**: `TypeCorrect`, `LeadersShare`, `VotesGenuine`, `ElectionsAdvance` (an action
  property, about one life of the process: a restart resets the record of the election it speaks of). The invariant relates the record of each election to the role and term of its candidate and
  to the history of votes; `MajoritiesMeet` is the counting lemma. That leaders share a voter is what the
  code guarantees; that the voter votes once per term is what it does not (`election_replay`).
* **DurableSinkProofs**: `ForgetsNothing`, `AcknowledgmentsHonest`, `TypeCorrect`, over the composition
  with the breaker. The invariant says that a call past the log has its LSN pending, that one about to
  acknowledge has its record in the topic, and that a replay's batch consists of written entries; of the
  breaker only the effect on `call` is needed (`BreakerCall`). For the types it is joined by `Room` (log and
  calls about to write stay within the bound), `Numbered` (every LSN in use was given by the log)
  and `Limits`.
* **WalCoordinatorProofs**: `TypeCorrect`, `WritesAhead`, `CommitsPrepared`, `AbortsFinal`, for every
  fsync mode. None of the three is inductive: what a transaction may still do depends on its state in
  the map, so `TxBacked` says which records each state has behind it, `StoredBacked` the same of what is in
  the tiers, and `Numbered` that a new transaction meets no record of its own. `Backed` adds that in mode
  EveryWrite the record is synced: that is what a crash leaves, and the reason why write-ahead holds across
  restarts in that mode only.
* **BatchJobsProofs**: `OneRuns`, `DependenciesAwaited`, `CompletedIsTrue`, `IndexIsExact`, for every job.
  `TaskInv` says that the tasks of the waves before the current one have ended and those after it are not
  spawned (`InOrder`), and that an execution which an executor has in hand is in the execution
  store and in no other executor's (`OneRunner`). `StoreInv` says that whoever holds
  Completed holds it truthfully (`WritesTruth`) and, as long as store operations do not overlap, what the one under way has read (`Exact`). The waves are
  a recursive function; `WavesExist` and `WavesUnfold` let the induction use them one wave at a time.
* **FileWalProofs**: `TypeCorrect`, `LostOnlyByRace`, `PromisesKept`, `IndexIsTruthful`, `CleanIsDurable`,
  for any number of appenders, segments, errors and restarts. `EntriesOK` places every entry that the index,
  a caller or a history knows at an offset of a segment where no append will write again; `SegmentsOK` says
  that segments before the active one are on disk and were removed only after a commit beyond their end.
  Both hold only while no rotation has swapped in a segment id that is not above the active one
  (`recreated`): that is the race.
  `CleanIsDurable` excludes mode Periodic, where the sync worker clears the flag without a sync; `PromisesKept`
  needs no such hypothesis.
* **RingProofs**: of `RingLife`, `EveryNodeListed`, `RoutesToKnown`, `ReplicasAreRight`, `KeysStayPut` (an
  action property), for every set of shards, placement and set of keys. The inductive invariant is the type
  and `NodesListed`; `RoutedAreKnown` follows because an owner of a node has a list. For `KeysStay` the lookup
  is taken apart: the least position at or after the hash, or the least of all, exists and is unique
  (`LeastIsLeast`, from the well-foundedness of <), and a node that neither appears nor goes leaves it as
  it was. For `ReplicasOK` the walk is shown to pass all nodes, so that its first meetings
  with shards are all the shards on the ring, and the first is the one `find_shard` names (`WalkMeetsAll`).
  Of `ClusterState`, `ReplicasDoAgree`, `RingsStayMirrored`, `VersionsCover`, for every set of replicas and
  commands. That replicas which applied the same agree is not inductive, since it says nothing of one that lags
  behind; `ClusterInv` says of each replica that its state is, but for the clock, where the commands it has
  applied lead (`LeadsTo`), and that these are a prefix of the log as long as no entry was dropped
  (`NothingMissed`): that is `ReplicasFollow`. What a sequence of commands leads to is unique
  (`HistoryUnique`), hence the agreement. Each handler is shown once to
  keep the type, to do the same to states that differ in clock values only, and to keep ring and lists
  together (the lemmas `...Handles`).
* **LoaderJobsProofs**: `Refinement` (`Spec => ImplementsLifecycle`), `StatusIsLive`, `RowsAreAccounted`,
  `CheckpointsTruthful`, `OnlyExposedReload`. The invariant adds to
  `RunningIsLive` that tokens are given out in order, that an unregistered job has no worker, that a
  returning worker has a terminal end, and that it says Cancelled only if its token was cancelled; without
  them a returning worker could mark an entry of another state. `WorkerQuiet` shows that all worker steps but
  the last are alike for the manager, so that the induction and the refinement treat them once. Once an entry
  has been replaced the diagram allows any status, which is all the code guarantees. For the rows, `DataInv`
  says that what a worker has passed is loaded, in its batch or dropped by a resume (`Sound`), and, while no
  entry was replaced, that what it has ahead is not loaded unless a crash exposed it (`Ahead`), also
  before the seek of the next run (`Unstarted`). `SeekPasses` counts the rows that a seek skips.

With these every invariant and action property of the passing runs is a theorem.

Assumptions are the named ASSUMEs of the component modules: finite sets of actors, shards and executions (a
job has at least one), positive thresholds, natural bounds, hashes of different names that differ, commands of
the shapes the code defines. TLC evaluates them in every run. Two theorems have a hypothesis of their own:
`CleanIsDurable` that the mode is not Periodic, and `RingsStayMirrored` that a ring sent by a client in
`UpdateHashRing` agrees with its lists, which `update_hash_ring` does not check (`RingsSentMirrored`).

Where a fact about a recursive definition was needed (waves, histories, moved nodes), it is proved from a
least counterexample (`WFMin`), because the induction theorems take an operator as parameter.

Only model-checked: liveness, since fairness and ENABLED are beyond the prover (`RecoversWhenBrokerDoes`,
`CallsReturn`, `TransactionsEnd`, `RunsEnd`, `ExecutorsReturn`), and the violations, which are single
behaviours.

## Not modelled

The components with status `not_modelled` in `PROJECT.json` give their reasons. By far the largest part of
the repository's 418 thousand lines has no protocol to model: mapping and discovery heuristics, ETL and
SPARQL rewriting, validators that are rules over documents, request handlers that translate between JSON
and a store, metrics, user interfaces. The map therefore covers a small share of all lines. Third-party stores and the Raft crate appear as the assumptions their callers make.

Within the modelled components: the Raft event loop apart from applying and dropping entries, and the snapshots nobody takes; of the workflow engine,
single executions with approvals, streams and compensation; of the tiers, `archive_old_data`
(`storage/mod.rs:525`), which deletes by time what was written after its query.

## Plan

1. Theorems about the parts in composition: the breaker's guarantees inside the sink (`Breaker!NoSlotLeak`
   and `Breaker!FailureCountBounded` under `DurableSink`, whose restart resets the breaker), and the lemmas of `RingProofs`
   carried over to what `find_shard` answers on the ring of a replica.
2. `RdfWal` (`governance/rdf_wal.rs`) over an abstract log; `WriteAheadLog` as the abstract specification
   of `storage/wal/traits.rs`, with the part of it that `FileWal` with one writer and no restart implements.
3. `Rebalancer` and `HealthMonitor` over `ClusterState`; the move of old data between tiers; approvals and
   compensation of single workflow executions.
