# AEON-IQ memory kernel: TLA+ models and proofs

The kernel is a stateless proxy in front of a language model. It keeps the memories of agents in PostgreSQL,
injects the relevant ones into each request, extracts new ones from each answer, compacts old ones, learns a
retrieval policy per agent, keeps the number of active memories near a target and authenticates its callers.
Any number of kernel processes share one database, and each of them may run every background job (`main.rs`).

Nearly all state is in the database, and nearly every hard behaviour has one cause: a job or a request runs
several statements, waits for a model or an embedder between them, and another process, an operator, a crash
or a lost reply gets in between. So the modules here have one action per statement (or per stretch without an
`await` where the state is in memory), and their properties relate what is read to what is later written.

## Inventory

| Component (code) | State | Operations | What is hard | What makes it correct |
|---|---|---|---|---|
| Extraction outbox (`extraction_worker.rs`, `memory/extraction.rs`, migration 0022) | `extraction_jobs`: status, attempts, next_attempt_at; each worker's claimed structs | enqueue, poll and claim a batch, run a job, mark done / retry / failed | several workers, writes by id minutes after the claim, crashes and lost replies, retries of work half done | one holder per row, effects at most once, retry budget kept, every queued job settles |
| Archival (`archival.rs`, `memory/store.rs`, migrations 0006, 0010) | `memories.archived_at`, `deleted_at`, `archival_batch_id`; `archival_batches.status` | compaction run, restore of a batch, single and bulk archive, restore, delete, label | no transaction, no lock between runs, LLM and embedding calls in the middle, answers with fewer vectors than texts, half-finished restores | nothing archived before its replacement was tried, archived rows name their batch, a restore runs once and reverts |
| Credentials (`credentials/mod.rs`, `store.rs`, `cache.rs`, migration 0029) | the `credentials` table, a bounded cache per process, two clocks | authenticate, issue, revoke, cache get / insert / invalidate | revocation elsewhere, answers on the way during a revocation, clock settings, eviction at capacity | revocation bound, expiry, capacity, only verified records cached |
| Agent grants (`credentials/grants.rs`, migrations 0029 to 0031) | `credential_agent_grants`, `credentials.tenant_wide`, `agents.tenant_id`, the schema itself | authorise, grant, revoke a grant, widen and narrow by hand, assign and delete agents, verify the schema | two triggers that each read what the other's statement is changing, keys that follow an agent's tenant, a schema that has lost a part | restricted or tenant-wide and never both, grants in their tenant, repairs never refused, authority only given or left over when a contradiction ends |
| Retrieval policies, RMK (`rmk_worker.rs`, `memory/rmk/`, migrations 0017, 0018, 0025, 0026) | `rmk_policies` with status, `rmk_episodes` with reward | log an episode, aggregate feedback, judge the serving policy, insert a candidate | queries without a transaction, rewards that change afterwards, several workers | episodes count for the policy that answered, rejection only for a proven predecessor, the last policy and the base of a candidate lost only to a race |
| Memory pressure, AMP (`rmk_worker.rs`, `memory/amp/`, migrations 0014, 0027) | `memories.soft_evicted`, `pressure`; `amp_controller_state` | sweep by timer or by endpoint | READ COMMITTED under an advisory lock that writers of memories do not take; integral windup | no lost controller update, exact report, recovery of small agents up to the deadband |
| Memory store (`memory/store.rs`, `api.rs`, `memory/conflicts.rs`, migrations 0001 to 0020) | `memories`, `memory_versions`, `memory_conflicts`, the connection pool | create with deduplication, patch, status, label, archive, restore, delete, detect conflicts | a second pooled connection inside a transaction, labels read before an embedding call, a task that outlives its request | versions tell what was committed, numbers never collide, labelled text stays local, every request ends |
| Tenancy: assignment (`tenancy/mod.rs`, `main.rs`, `store.rs` `delete_agent`, migrations 0028, 0032, 0041) | `agents.tenant_id`, `agent_tenancy_migrations`, `(tenant_id, agent_uuid)` of child rows, `memories.archival_batch_id` | backfill and gate at a start, bridge triggers, composite keys, deletion of an agent | replicas that start at once, triggers that read before a backfill commits, keys that a NULL switches off, a compaction that runs across a deletion | one plan ever recorded, owned rows agree with their agent, deletions refused only for a compaction, starts end |
| Tenancy: audit and plan (`tenancy/audit.rs`, `inventory.rs`, `plan.rs`, `report.rs`) | none; reads 23 tables | scan of a snapshot, verdict, readiness of tranches, planned objects and backfill | a scan while the service writes, guarantees a schema has lost, a registry of 23 hand-written entries that must fit a plan of as many | a clean report is permission to migrate; codes called unreachable never fire; a report tells of one moment |
| Proxy (`proxy.rs`, `providers.rs`) | handlers, forwarder and capture tasks, channels in flight | limit, retrieve, inject, forward (streamed, buffered, Anthropic), capture, enqueue | clients that leave or stall, upstreams that break off, tasks that outlive the handler, crashes | every answered turn is extracted or lost to a named cause |
| Working memory (`memory/store.rs`) | `working_memory` summary, `sessions` | upsert by each extraction, read by the proxy, deletion | extractions settle out of order | a settled older turn never replaces a newer summary |
| Retrieval (`memory/retrieval.rs`, `store.rs`) | none | search, graph walk, injection, access counts | several statements, each with its own filter | nothing hidden is sent to a model |
| Conflicts and entities (`memory/conflicts.rs`, `extraction.rs`, migrations 0008, 0012) | `memory_conflicts`, `entities`, links | detection in the background, linking, resolution by an operator | detection after the row has changed or gone | labelled text stays out of prompts |
| Rate limiter (`rate_limit.rs`) | token buckets, last sweep | check and consume, forget idle buckets | a clock read before the lock, forgetting against refilling | never more than burst + refill, never refused before the burst |
| Timeline (`memory/store.rs`, `api.rs`, migrations 0023, 0024) | events with a predecessor and a branch | record, resolve a snapshot | predecessor read in another statement | one chain per session and branch |
| HNSW maintenance (`hnsw_maintenance.rs`) | a session-level advisory lock on a pooled connection | try lock, measure, reindex, unlock | a failed unlock | one run at a time, lock released |
| Management API (`api.rs`) | none of its own | handlers over the tables above | deletion of an agent against the jobs | as of those tables |
| Co-access and utility (`memory/store.rs`, migration 0013) | weights of edges and memories | bump, decay, prune | none: single UPDATE statements | weights only order results |
| Legacy authentication, configuration, start-up (`auth.rs`, `config.rs`, `main.rs`) | environment | compare static keys, spawn the jobs | none of its own | the jobs run for ever |
| Embeddings, attestation, URL guard, metrics, logging | counters | stateless calls and pure functions on strings | failures, which are actions where they matter | |
| Dashboard, SDKs, MCP server, benchmarks, deployment | clients of the HTTP API | | | |

How they interact: the proxy asks the rate limiter, reads the serving policy (RMK), searches memories and walks the graph
(`bump_access_counts` is spawned), forwards the turn, and when the answer has passed enqueues an extraction job and logs
an episode. The outbox worker turns jobs into memories, entities and the session's summary. Archival and the pressure
sweep run over the same `memories` rows from timers and endpoints, and the management API writes them under row locks.
Credentials, grants and tenancy decide who may act for an agent and whose its rows are. None of them calls another while
it holds state; they meet in the tables, and the modules compose them there: Turns runs the proxy over the abstract
JobQueue, which ExtractionOutbox implements; Archival and PressureSweep contain the operators' writes of the store;
Tenancy and AgentGrants contain the assignment and deletion of agents.

## Modules

### ExtractionOutbox, JobQueue

`status`, `attempts` and `due` are the columns of `extraction_jobs` (`due` is next_attempt_at relative to now).
`claimed`, `current` and `phase` are the locals of `drain_due_jobs_with_executor`: the structs of a batch not
started, the one being executed, and how far `run_extraction` is in it. `effects` counts what reached the
database. `ClaimDueJobs` is the one statement UPDATE ... FOR UPDATE SKIP LOCKED; its order inside a batch is
that of RETURNING, i.e. any. `ClaimReplyLost`, `FinishFails` and `Crash` are the failures: a claim whose reply is
lost, an outcome whose UPDATE fails and is only logged, a process that dies. `FinishJob` is `finish_job` with the
comparison against the retry budget. A failure after the facts were stored is logged and not an error of the job,
so only the extractor call itself, before any effect, makes an attempt fail.

JobQueue is what the outbox promises, without workers, batches or clocks: a job runs a bounded number of times,
performs each effect at most once and only while it runs, is retried only if a run left nothing behind, and
done, failed and lost are final. ExtractionOutbox implements it under the mapping `JobState` (a row that says
in_progress while no worker has it is lost).

### Archival

`archive_agent` is `FetchCandidates`, `CreateArchivalBatch` (the batch row is inserted with status completed),
`EmbeddingsArrive` or `EmbeddingFails`, `StoreFact`, `StoreNarrative`, `TombstoneWithBatch`; a restore is
`BeginRestore` (guarded on status), `RestoreL2`, `TombstoneL3`. Any of them may be the last one of a process.
`fail_archival_batch` sets a column that no migration creates, so `EmbeddingFails` leaves the batch as it was.
`embed_texts` returns whatever the endpoint's "data" holds and nobody compares its length with the number of texts, so
`EmbeddingsArrive` draws any number of `vectors` from none to all; `StoreFact` tries the INSERTs of the facts that got one, in
order, `StoreNarrative` that of the narrative if one is left, and the sources are tombstoned in any case, as in the code.
Operators' single and bulk operations, retrievals and labels are interleaved. `sourcesOf`, `unembedded`, `byHand`
and `spoiled` are history that only properties read.

### CredentialCache

`row` is the table, `cache` a function on the cached ids with both deadlines of `Entry`, `req` a request between its
fetch and its verification. What happens without an `await` is one step: `ServeFromCache`, `MissCache`, `FetchRow`
(the database answers now; the request reads it later, at most `MaxLag` later), `Admit` (verify, then insert, then
accept), `Reject`. `Revoke` updates the row, `Invalidate` drops the entry; `RevokeElsewhere` has no second half.
`Insert` purges expired entries and evicts at capacity as `insert` does. `SetWallClock` moves only the wall clock.

### RmkPolicy

Each query of `update_policy_for_agent` is an action (`CountEpisodes`, `LoadServing`, `SeedDefaults`, `MeasureCurrent`,
`LoadPrevious`, `Compare`, `Reject`, `InsertCandidate`); `AbandonCycle` is a failed query or a crash. Turns in flight
remember the policy they were answered under and log their episode later or never; `AggregateFeedback` rewrites
rewards of logged episodes at any time. A vector is abstracted to the policy it was perturbed from (`base`), rewards
to 0 and 1, and means are compared by cross-multiplication. Rows are numbered in order of created_at, which of two concurrent
inserts is taken to be the order in which they commit. Any number of workers run the job; there is no lock between them in the
code and none in the model. Two history variables tell what a worker cannot help: `answered` counts the turns begun under a
policy and not dropped, and `overtaken` holds, per worker, the policies others have rejected since it loaded the serving one.

### PressureSweep

`Lock`, `CountActive`, `UpdateController`, `FetchAndDecide`, `Commit` are the statements of
`run_pressure_sweep_for_agent`; `RollBack` is any of them failing. The pressure UPDATE locks every fetched row, so the
UPDATEs and the commit are one step. `Update` is `PIController::update` in fixed point: pressures and aggressiveness
counted in units of which `One` make 1.0, errors and the integral in memories (i.e. scaled by the target). Nothing is rounded in
the instance: only an error of two moves its controller, so every sum is even and the target of two divides it. Everyone else who
writes memories does so without the lock, between any two statements; under READ COMMITTED the next statement sees it.

### MemoryStore

`memory`, `versions` and `conflicts` are the rows; `lock` is the row lock that the UPDATE of an open transaction keeps to
its end; the pool is not a variable but a count of the requests that hold a connection (`PoolHasOne`). A handler is one
record: what it asks, the next statement it is at, and its locals. `OpenChange`, `NextVersion`, `InsertVersion`, `Commit`
are a patch: the version is written by `create_memory_version` on a second connection, which commits by itself, so its
number is read and used while only the row lock of the first connection keeps others away. A status change computes the
number in the INSERT and ignores its failure. `ReadLabel` and `EmbedPatch` route the new content by a label read before
the row is locked. `CheckDuplicate`, `InsertMemory`, `FetchCandidates`, `Prompt`, `StoreConflicts` are a create and the
detection it leaves behind. `AcquireTimesOut` is DB_ACQUIRE_TIMEOUT_SECS, `Drop` a failed statement, a client that goes away
or a dead process. `shielded` and `remote` are history: what was labelled since before a request, and what was sent out.

### Tenancy

A start is `LockBackfill`, `ReadLedger`, `CheckConflicts`, `Assign`, `CommitBackfill` (one transaction under the advisory
lock), then `ReadGate` and `CountUnmapped` outside of any. `lock` is the exclusive lock of an agent's row, `Shared` the share
a checked key keeps. Child rows belong to `archival_batches`, which also has a cascading key on the agent's text, or to
`rmk_policies`, which stands for the four tables that have none. `Insert` and `Update` run the bridge trigger (`Resolve`,
`Contradicts`), `CheckKeys` the keys: a NULL component switches a composite key off (MATCH SIMPLE), and with it the wait for
the agent's row. `memory` is `memories.archival_batch_id`: `NameBatch` is a compaction under way that stores a memory with its
batch or tags one. The key of that column asks for the batch only and has no ON DELETE, and nothing ties a memory to its agent.
`delete_agent` is `LockAgent`; `DeleteMemories`; `DeleteChildren`, the four deletes of tables with a composite key, as one; and
`DeleteAgent`, from which the batches cascade, which a policy left behind refuses (`BlockedByRow`) and so does a memory that
names one of the batches (`BlockedByMemory`). The delete of working_memory, which has no such key, is left out. An update and a
deletion may wait for each other's row; PostgreSQL aborts one.

### TenancyRegistry, TenancyAudit

TenancyRegistry is data and pure operators: of each of the 23 tables its class, tranche, ownership paths, what the schema
must guarantee for them, and the codes that must be at zero; of the plan the objects each tranche builds, where the backfill
takes a row's tenant from (`BackfillAuthority`) and what the bridges ask (`Transition`). Two ASSUMEs of TenancyAudit relate the
lists to each other: every key of the plan names a tuple some earlier object makes unique (`PlanIsBuildable`), and every
bridge asks the parents the backfill asks (`PlanIsCoherent`).

TenancyAudit runs it. `Begin` fixes the snapshot of the REPEATABLE READ transaction, `ScanNext` scans the next table of the
registry in its order, `Report` ends. Meanwhile the service inserts rows, assigns agents and deletes them, within what the
schema then allows; a schema may have lost a guarantee (`gone`), a NOT NULL (`relaxed`) or gained a table. A row is the record
of the columns ownership depends on. What a verdict is worth is not judged by the codes again but by doing what it permits:
`Backfilled` fills the snapshot in, `MigratesTranche` validates every planned key and NOT NULL on the result.

### AgentGrants

Statements of the kernel and of an operator's psql are broken where another can come between: `BeginGrant` (the snapshot),
`InsertGrant` (the trigger reads `tenant_wide` FOR SHARE, the keys lock the agent), `CommitGrant`; `BeginUpdate`,
`UpdateCredential`, `CommitUpdate` for widening, narrowing and revoking; `LockAgent`, `CommitDelete` for an agent. `tx` is each
writer's statement with the locks it holds. `Lose` takes a trigger or a key from the schema while no kernel runs, `Repair` puts
it back, and `Start` verifies what it finds as `assert_schema_contract` does. `unchecked` is history: credentials somebody
wrote by hand past a lost trigger. `MayActFor` is `authorize_agent`, which reads the flag and the grants as they are: a credential with
both modes is denied, and granted what is left of them as soon as one goes.

### RateLimiter

Time is counted in ticks of one token. `check_and_consume` is `ReadClock`; `SkipSweep` or `CollectStale`, `EvictBucket` (one
bucket at a time, looked at again under its lock) and `EndSweep`; and `Consume`, under the lock of the caller's bucket but with
the clock reading of the beginning. `late` and `forgiven` are history: how long readings waited, and what sweeps gave away.

### Turns

The turns of one session. The handler is `Arrive`, `Search`, `WalkGraph`, `BuildInjection`, `Send`, and then `ProxyBuffered`,
`ProxyAnthropic` or the tasks of a streamed answer: the forwarder (`Receive`, `Forward`, `ClientGone`, `EndOfStream`) over a
bounded channel and the capture (`EnqueueOrExtract`). The extraction jobs are JobQueue by INSTANCE: `EnqueueOrExtract` submits,
and `StoreFact`, `LinkFact`, `StoreSummary`, `FinishJob` are steps of the queue with what they leave in the tables; without the
outbox the capture task runs the job itself, once. Administrators hide and show facts, delete the session or the agent; clients
leave; `Crash` ends the handlers, tasks and runs of the process and leaves the tables. Which of the facts that may be found are
found, by search or by the graph, is any choice. `settledBefore`, `hiddenBefore`, `forgotten` are history.

## Runs

| Run | Instance | Checks |
|---|---|---|
| `outbox` | 2 jobs, 2 workers, batches of 2, 3 attempts, 2 faults, fair | ExclusiveClaim, EffectsAtMostOnce, LossesAreFaults, ImplementsJobQueue, QueuedSettlesOrIsLost |
| `outbox_stranded` | 2 attempts, 1 fault | QueuedSettles is violated |
| `archival` | 2 sources, 2 batches of a fact and a narrative with none to two vectors, 2 compactions, 2 restores, 1 action of an operator, 1 fault | RestoreRunsOnce, ArchivedNamesItsBatch, CompressedBeforeArchived, UndisturbedRestoreReverts |
| `credential` | 2 requests, 2 credentials (one expires), capacity 1, TTL 1, lag 1, 1 revocation, 1 clock setting | RevocationTakesEffect, NeverServedPastExpiry, CacheWithinCapacity, OnlyVerifiedAreCached |
| `rmk` | 2 workers, 1 turn in flight, 3 policies, 5 episodes, 2 episodes to compare, 1 feedback pass, 1 fault | EpisodesAreItsOwn, LastPolicyLostOnlyToARace, RejectedForItsPredecessor, CompoundsNoKnownRegression |
| `amp` | 4 memories, 2 sweepers, target 2, a deadband of more than one memory, 2 writes by others, 1 fault, fair | UpdatesAreSerial, ReportIsExact, SmallAgentsRecover |
| `memory` | 3 requests of any kind, 2 memories (one there already), 2 connections, no local lane, detection on, 1 dropped handler, fair | LatestVersionAgrees, NumbersNeverCollide, LabelledBeforeStaysLocal, EveryRequestEnds |
| `tenancy` | 1 agent (deleted and created anew), 2 tenants, 2 replicas, five environments, 1 child row, 1 memory of a compaction, 1 deletion, 1 fault, fair | OnePlanEver, OwnedRowsAgree, RefusedOnlyForACompaction, EveryStartEnds |
| `audit` | 2 agents, 2 tenants, nine groups of tables that meet, 2 guarantees and 1 NOT NULL that may be lost, 1 write during the scan | ReadyUnlessCrossed, UnreachableNeverFires, RootExplainsChildren |
| `grants` | 1 credential, 2 agents, 2 tenants, 2 writers | NeverBothModes, GrantsFollowTheirAgents, RepairsNeverRefused, AuthorityIsGiven |
| `limiter` | 2 agents, 2 threads, burst 2, idle time 1, sweeps of one bucket, 2 ticks | WithinQuota, NobodyRefusedEarly |
| `turns` | 2 turns, 2 chunks, a channel of 1, 2 attempts, 1 crash, 1 edit, fair | QuietTurnsWin, NothingHiddenIsSent, AnswersAreRemembered |

Why the bounds are enough to be interesting:

- `outbox`: with batches of two a worker holds a second struct while it runs the first, or each worker holds one; three
  attempts let a row be retried twice, claimed by the other worker and fail; two faults may hit one job or both.
- `archival`: two compactions compress the same two sources and the second moves their tag; two restores overlap each
  other and a compaction. `MaxTouches` is one operator action at any point, `MaxFaults` one crash at any point. One fact and a
  narrative have every answer of the embedder: none, too few, all. With two facts the run takes too long; the theorems are for any.
- `credential`: one entry of capacity and two credentials force an eviction; the horizon reaches beyond revocation +
  lag + TTL by way of the stopped clock, on which requests go on for ever; one clock setting of either direction.
- `rmk`: two workers judge the same policy, reject it or each other's predecessor, and insert; three policies are a serving
  one, its predecessor and a candidate inserted meanwhile, which is the least with which the last accepted policy can be lost
  to a race. One turn in flight is enough for an episode that is logged after its policy has ceased to serve. The code's
  threshold of five episodes is two here: the properties compare counts with the constant, and two is the least at which one
  episode is too few. More of anything is for the theorems, which hold for any number of workers, turns and policies.
- `amp`: an agent of four memories over a target of two winds the controller up for as long as the run likes, then
  loses memories and must recover. The default deadband of 2 % matters at targets above fifty: at a target of 1000 an
  error of less than 20 memories moves nothing. Here, at a target of two, an error of one memory stays inside the deadband and an
  error of two leaves it, so the run contains agents whose controller stops with a memory still evicted, and agents that
  recover. Two pressures, one ordinary and one extreme, sit on either side of the thresholds that matter. MCPressureSweep
  starts with the memories in order of life and pressure (`MCInit`), which they are interchangeable to allow; a declared
  symmetry would not be sound for liveness.
- `memory`: two patches of one row take both connections and then each asks for a second, which is the case the timeout is
  there for; a third request labels, archives or deletes meanwhile. Two connections are the fewest with which a patch can succeed.
- `tenancy`: two replicas may come with a single tenant, with maps that contradict it or each other, with a plan that is
  invalid or with none. Two uuids let the agent of a name be another one than before. One row is enough: rows meet only on
  the row of their agent. One memory is enough to refuse a cascade.
- `audit`: each group holds the tables whose rows refer to each other; a row of every shape (owner missing, foreign, blank,
  of another agent) is in the universe, and the deepest chain, agent, batch, memory, version, is one group.
- `grants`: with one credential and two writers each pair of statements crosses at each of its steps; more credentials never
  meet, as every trigger and key reads one credential and one agent.
- `limiter`: a burst above the idle time makes the sweep forgiving; two ticks and two threads let a reading wait while
  another one uses, sweeps and creates the bucket.
- `turns`: a channel of one and answers of up to two chunks let the forwarder wait for a client that stalls or leaves; two
  turns are the least that can be stored out of order; one edit at any point, one crash at any point.

Every property of a passing run has a mutant: a plausible bug in one definition of the model, that the run detects. Where the
mutated form is not a plain operator of the model it is kept next to the original under the comment "Mutation".

Deadlock is not checked where the system stops for good: `archival`, `memory`, `tenancy`, `audit` and `turns` end when their
batch ids, requests, uuids, writes or turns are used up. That a request, a start or a turn that has begun comes to its end is
stated there as a liveness property (EveryRequestEnds, EveryStartEnds, AnswersAreRemembered) and not left to a deadlock check.

## Fairness

- `outbox`, `outbox_stranded`: time passes, and each worker takes steps. `run_job` polls for ever and its process is
  restarted; the HTTP client gives up after 300 s and the acquisition of a connection after a configured timeout, so no
  await blocks for good. Nothing obliges a turn to be answered, an extraction to succeed or a fault to happen. Fairness
  is per worker and not per job: that no due job starves follows from the finite retry budget of the others.
- `amp`: some sweeper takes a step whenever one can. `run_pressure_sweep_job` sweeps every five minutes for ever; who gets the
  advisory lock next is not promised. An agent with no live memory at all is not listed by the timer; the property says
  nothing of it, as it has nothing to bring back.
- `memory`: each request that can go on does (tasks of a multi-threaded runtime), and a wait for the pool ends by its timeout.
  Which waiting request gets a connection is not promised, and none is assumed to be dropped.
- `tenancy`: each start, statement and deletion goes on when it can; PostgreSQL resolves the one deadlock there is. No agent is
  obliged to be created, no replica to start, nothing to be deleted.
- `turns`: tokio polls every task, the HTTP client has its timeout and the worker keeps polling. Nothing is assumed of clients
  and administrators. A client that stops reading and does not leave blocks the forwarder of its answer for ever, so
  AnswersAreRemembered is stated under the condition that no client stalls for good.

## Proofs

TLAPS proves, for every value of the constants under the named assumptions of the modules:

`ExtractionOutboxProofs` (any finite set of jobs, any workers, batch size, budget, faults; assumptions JobsAssumption,
MaxAttemptsAssumption, BatchAssumption, BoundsAssumption): TypeOK, ExclusiveClaim, EffectsAtMostOnce, LossesAreFaults,
AttemptsWithinBudget, SettledIsFinal and the refinement ImplementsJobQueue.
None of these is inductive alone. The invariant IInv joins the types with
`HandInv` (a struct in any pair of hands equals its row, which is in_progress, and two structs for one row are one),
`BudgetInv` (a pending row has an attempt left) and `WorkerInv` (how far a worker is into a job bounds which effects the
job has; a claimed struct has none). The claim preserves HandInv because it takes only rows that are pending, which
by HandInv nobody holds; a finish by id, which has no guard in the code, is harmless for the same reason; and
effects happen once because a retry is only written from a phase in which WorkerInv says there are none. The refinement is
one step of JobQueue per action (`StepsAreQueueSteps`): a claim starts the jobs of its batch, a claim whose reply is lost starts
and loses them, a crash loses whatever was in hand, an outcome completes, retries or gives up, and everything else changes
neither a job's state nor its effects. It rests on HandInv (what is in hand runs), WorkerInv (an effect about to happen has not
happened) and BudgetInv (a claimed row had an attempt left). AttemptsWithinBudget and SettledIsFinal follow from the refinement
as well and are therefore proved and not in a run. LossesAreFaults is an argument about cardinalities: `BatchInv` bounds what a
worker has in hand by the batch its claim could take, only a crash, a lost reply or a lost outcome adds to the rows that are
lost, each adds at most what was in one worker's hands, and each is a fault (`OneBatchLost`). It is where the set of jobs
must be finite (JobsAssumption), as any table is.

`CredentialsProofs` holds the proofs about `src/credentials`; the two modules share no state.

- CredentialCache (any TTL, lag, capacity, lifetimes, requests and clock settings; assumptions CapacityAssumption,
  TTLAssumption, AsksAssumption, BoundsAssumption, LifetimeAssumption): TypeOK, RevocationTakesEffect, NeverServedPastExpiry,
  CacheWithinCapacity, OnlyVerifiedAreCached. The invariant follows a record from the table to the cache: an answer that
  says active was fetched before the revocation and at most MaxLag ago (`AnswersAreRecent`), so an entry made of it has a
  monotonic deadline of at most revocation + MaxLag + TTL (`EntriesDie`), so an acceptance, from the cache or not, happens
  before that. The wall deadline of an entry is bounded by the record's expiry in the same way. Capacity is an argument
  about cardinalities: Insert evicts one entry whenever the purge leaves none free.
- AgentGrants (any credentials, agents, tenants and writers; NullsAssumption): GrantsTypeOK, NeverBothModes,
  GrantsFollowTheirAgents, RepairsNeverRefused, AuthorityIsGiven. The trigger of a grant and the trigger of a widening read
  different tables, and neither sees the other's uncommitted write. `HeldGrantsAreChecked` says what an insert that waits for
  its commit has seen and still holds locked, `HeldUpdatesAreChecked` the same of an update, and `LocksExclude` that the two
  cannot be held for one credential at once; `KernelsStartVerified` confines lost triggers and keys to the time no kernel runs.
  AuthorityIsGiven rests on NeverBothModes where a grant is withdrawn or an agent deleted: a credential that holds a grant is
  not tenant-wide, so less remains, unless somebody wrote past a lost trigger (`unchecked`). For such a credential the property
  has the exception the code has: the end of its contradiction grants what is left.

`RmkWorkerProofs` holds the proofs of the two jobs of `rmk_worker.rs`, which share no state.

- RmkPolicy (any workers, finite set of turns, thresholds, rewards, feedback and failures; assumptions ThresholdAssumption,
  BoundsAssumption, TurnsAssumption): TypeOK, EpisodesAreItsOwn, LastPolicyLostOnlyToARace, RejectedForItsPredecessor,
  CompoundsNoKnownRegression. No hypothesis limits the workers. EpisodesAreItsOwn is an argument about cardinalities: a turn
  moves from those in flight to the episodes of the policy it began under, or is no longer counted. The other three rest on
  `StillSo`, which says what a cycle still knows when it acts: the policy it loaded, the predecessor it found and what it
  explores from are each accepted, or were rejected by another worker since (`Known`), no accepted policy lies between the two
  (`Adjacent`), and both have enough episodes, since episodes are only ever added. A worker that never meets another has
  nothing in `overtaken`: alone it never loses the last policy and never explores from a rejected one.
- PressureSweep (any finite set of memories, any sweepers, target, gains, thresholds; the six assumptions of the module):
  SweepTypeOK, UpdatesAreSerial, ReportIsExact. Whoever is between two statements holds the lock, so nobody else is; hence
  the controller row a sweep updates is the one it read, and, if nobody wrote memories, what it counted, evicts and restores
  still is what is there.

`ArchivalProofs` (any sources, batches, runs, requests, operator actions and faults; assumptions BatchIdAssumption,
RowIdAssumption, FactsAssumption and BoundsAssumption): TypeOK, RestoreRunsOnce, ArchivedNamesItsBatch, CompressedBeforeArchived,
UndisturbedRestoreReverts. `BatchesExist` says that an id in a run, a tag or a request was inserted, and still for the
run's candidates: so the tag a run writes is right, and the status guard keeps two requests apart. `FactsTried` carries
"the vectors arrived and the INSERT of every fact with one was tried" from the run to the tags; `VectorsArriveOnce` keeps the
answer it speaks of from being replaced, since no two runs have one batch. `HalvesReverted` is what makes the restore provable: once
a batch is restored and was not being built, no run holds it, so its sources stay back from the second statement of the
restore on and its L3 rows gone from the third, each half by itself; the third statement may rely on the first half only
because RestoreRunsOnce says that no other request is still at the second.

`MemoryStoreProofs` (any requests, memories, pool, lane, detection and drops; ConstantsAssumption): TypeOK, LatestVersionAgrees,
NumbersNeverCollide, LabelledBeforeStaysLocal. `LocksExclude` says that a request between its UPDATE and its commit holds the
row's lock, so the number it read stays free though its INSERT runs on a connection that holds nothing. `VersionsTell` adds the
states in between: of a row under lock at "commit" the latest version tells what the transaction will make of it, and before
that what the row is. `IdsAreReserved` keeps the id of a create from others until its row is there, `TornAtTheEnd` ties the
exception of LatestVersionAgrees to handlers that have ended, `ShieldHolds` follows a label from the arrival of a request to
what it sends: a row labelled before was read as labelled, and so never goes to the remote lane.

`ProxyProofs` holds the proofs of what a turn meets in the proxy.

- RateLimiter (any agents, threads, burst, intervals and horizon; LimiterAssumption): LimiterTypeOK, WithinQuota,
  NobodyRefusedEarly. `TokensAreAccounted` is WithinQuota made inductive: what was admitted plus what the bucket holds is at
  most the burst, plus the time up to the bucket's last refill, plus what readings that waited and sweeps may have added.
  `TokensAreSpent` is the other direction: what a bucket lacks of the burst was admitted.
- Turns (any turns, chunks, buffer, budget, crashes and edits; TurnsAssumption): TypeOK, NothingHiddenIsSent, QuietTurnsWin
  and the refinement TurnsUseTheQueue. NothingHiddenIsSent follows from `HiddenInv`: what was hidden before a turn arrived
  had been stored then, and is not open for as long as it counts as hidden; what the search and the walk inject is open. The
  delicate half is that a run stores its fact once, so no retry opens a hidden fact again (`FactsInv`, from the queue's
  EffectsAtMostOnce by construction of Perform). QuietTurnsWin follows from `SettledInv`: what had settled when a turn was
  submitted stays settled, so its extraction can never store a summary again. TurnsUseTheQueue says that with the outbox on
  the jobs of the proxy behave as JobQueue, crashes being losses: together with OutboxIsAQueue it joins the two models at
  their common abstraction.

`TenancyProofs` (any agents, tenants, environments, replicas, rows, writers, deletions and faults; assumptions
ConstantsAssumption, EnvsAssumption): TypeOK, OnePlanEver, OwnedRowsAgree, RefusedOnlyForACompaction. All three rest on locks.
`LedgerInv` says that a backfill past the ledger's check agrees with what the ledger holds: another may only have written
meanwhile if it held the advisory lock, which is taken before the check and kept to the end of the transaction. `WritersInv`
says of a row between its trigger and its commit that its keys, once looked at, keep its agent from being locked, so an owner
read by the trigger and checked by the key is the owner still; `AssignInv` that a backfill gives an owner only to agents it
holds and that have none. `DeletersInv` says that a deletion that found its agent holds it to the end and that no policy of
that agent with an owner is left behind the statement that deletes them; batches go by cascade with the agent itself. So a policy
never blocks the last statement of a deletion that found its agent, and what does is a memory that was not there when memories
were deleted; of that the lock says nothing, and the property allows it.

`TenancyAuditProofs` (any tenants, rows that may be written, families, losses of the schema and writes during a scan;
assumptions UniverseIsOfTheRegistry; RowsHaveTheirColumns, a row has its primary key, the columns of its paths and keys and none
of those the plan adds; AgentsAssumption, an agent is of a tenant or of none and has a name, by a NOT NULL of migration 0001
which the registry does not list and the model therefore lets stand): TypeOK, UnreachableNeverFires, RootExplainsChildren,
ReadyUnlessCrossed, CleanMigrates. The registry is data, and what the proofs need of its 23 entries is looked up once
(`Registered`, `ListsRequire`, `TranchesAre`): which path may start in which table, what its list asks for, and that
every path through the memories has a foreign key of its own in the table's contract. `MemoryKeys` says that a reference whose
key the schema still has names a memory: an insert is checked by the key, a deletion takes its lineage along or clears the
reference, a dropped key is no longer asked for. It holds of the snapshot as of the database, so behind gate 2, which asks for
every key of the contract, no path is orphaned at the memories (`ScanNeverReportsThem`); the other codes are unreachable because
of which paths their tables have. RootExplainsChildren rests on `AgentsInv`: only a table of no tenant is scanned before the
agents, so nobody is reported for a missing tenant by then; and once they are scanned, every agent of the snapshot without a
tenant has left a finding on them (`RootsFound`), which a child that is reported needs to have reached
(`ReachedAgentsAreThere`).

ReadyUnlessCrossed says what a READY is worth: if the audit found no child of one tenant under a parent of another, a tranche
that is ready with every earlier one may be migrated, whatever still blocks the later ones. Without that condition it is false
(see the next section); with it, it is proved, so the lists of the registry lack that code and no other. CleanMigrates, a report
that blocks nothing is permission to migrate all tranches, has the same proof. Both rest on an invariant of their own,
`CleanInv`: the snapshot is a database the service could leave under what is left of its schema (`Legacy`: names of agents
unique while that key stands, no NULL where a NOT NULL stands), and the findings hold what the scan of every table that is done
returns (`AllFound`). A report then says of the agents and of every table up to the tranche that holds rows that both gates
passed and no code of its list was found (`SoundFrom`, `ReportedReady`), and the rest is about that one database, in four parts.

1. *What no finding means* (`RowsReachOneTenant`). No guarantee is lost; the list asks for each code a missing parent would
   report (`ListsRequire`; that of a missing memory is never found, by UnreachableNeverFires), so the first path of a row leads
   to a parent with a tenant, and no other path to a missing one or to another tenant.
2. *What the backfill does.* The tenants of the rows are defined by recursion along their parents. `BackfillFollows` shows that
   the recursion has a solution without an induction over data: by `Rank`, the distance of a table from the agents, parents
   come lower (`ParentsRankLower`), two backfills that agree up to a rank agree one further after a round (`RoundsSettle`), and
   ranks end at 3. `AllSettle` and `WorkingMemorySettles` then go up the ranks, which may be done tranche by tranche because no
   parent is of a later tranche than its children (`ParentsComeFirst`): the sources a row's tenant is taken from are
   ends of paths the audit walked (`SourcesHavePaths`), so they agree, and every row gets the tenant of the agent it names.
3. *What the plan builds* (`PlanIsOfPlanObjects`): nothing but the columns of the owner, targets, the key to the agents, keys
   along a row's sources, and the key of the working memory to its session; and a tranche's tables are its own.
4. *That each of these holds on the rows as filled* (`ColumnsAreFilled`, `AgentKeysHold`, `TenantKeysHold`, `SessionKeyHolds`).
   The three that are not a matter of looking: a nullable reference whose parent is gone would leave its key broken, and is
   excluded because its code is on the list; a session and its working memory get the uuid of one agent because the agents'
   table is ready, its names therefore unique; and a row of the log, which may be of no agent and whose codes are not asked for,
   gets an owner that is there or none, which its key lets pass (`LogRows`).

Stated by a theorem and not by a run: AttemptsWithinBudget, SettledIsFinal, TurnsUseTheQueue, CleanMigrates, and the type invariants of all
modules.

Model-checked only: liveness (QueuedSettlesOrIsLost, SmallAgentsRecover, EveryRequestEnds, EveryStartEnds, AnswersAreRemembered),
which TLAPS does not do here. Every invariant and every action property a passing run checks has a theorem.

## Where the code and its documents differ

Found while modelling; those that contradict a comment or a document quote it in `PROJECT.json`, and the properties are stated so
that they hold beside them.

- Outbox: a job claimed by a process that dies stays in_progress for ever (run `outbox_stranded`).
- Archival: a batch is restorable from its INSERT on, before anything was archived; `fail_archival_batch` names a column that does
  not exist; sources are tombstoned although the embedder returned fewer vectors than there are facts, or an INSERT failed
  (ArchivedMeansReplaced is false; CompressedBeforeArchived says what is kept: the vectors had arrived and every fact with one
  was tried).
- Grants: a credential that got both modes past a lost trigger is denied, and becomes tenant-wide when its last grant is withdrawn
  or goes with its agent (WithdrawalsGiveNothing is false; it is the one exception of AuthorityIsGiven).
- Credentials: a request in flight may put a revoked credential back into the cache of the very process that revoked it.
- RMK: two workers may build a candidate on a policy one of them has just rejected (ExploresFromAccepted is false with two), and
  reject each other's predecessor, which leaves the agent on the static configuration until it is seeded anew.
  CompoundsNoKnownRegression and LastPolicyLostOnlyToARace say that nothing else leads there.
- AMP: inside its deadband, 2 % of the target by default, the controller stops with memories still soft-evicted; SmallAgentsRecover
  allows it by name. No document says otherwise.
- Memory store: the conflict prompt may carry text labelled a moment before; a version may tell of a patch that was rolled back,
  and a change of status may leave none.
- Tenancy: a row inserted while the backfill commits stays without a tenant; a policy of an agent without a tenant survives its
  deletion; a compaction under way makes the deletion of its agent fail (LockedDeletionsSucceed is false, RefusedOnlyForACompaction
  proved); the lists of four tables lack CROSS_TENANT_PARENT_CHILD (ReadyTranchesMigrate is false, ReadyUnlessCrossed proved); a log
  row without an agent blocks the verdict though the plan allows for it.
- Rate limiter: a sweep may give an idle bucket more than it would have refilled, and a late clock reading refills twice; WithinQuota
  counts both.
- Turns: the walk of the graph decodes no row, so it adds nothing; extraction jobs outlive the deletion of their agent; the mirrored
  turn counts part ways when a session is deleted.

What the properties do not say, because the code does not do it either:

- ReportIsExact is about sweeps during which nobody wrote memories; otherwise the report is stale by what was written.
- LabelledBeforeStaysLocal and NothingHiddenIsSent are about labels set and facts hidden before the request or turn arrived;
  what changes between its statements is not looked at again.
- QuietTurnsWin is about turns that had settled when a newer one was submitted. An older turn that is still being retried then
  may store its summary last.
- WithinQuota counts what an idle time shorter than the burst's refill forgives, and NobodyRefusedEarly is about an agent's first
  full burst only.

## Plan

Done in this order: ExtractionOutbox with JobQueue, Archival, CredentialCache, RmkPolicy, PressureSweep; MemoryStore, Tenancy,
TenancyRegistry, TenancyAudit, AgentGrants, RateLimiter, Turns; the proofs of all of them, where
TenancyRegistry is data and proved about in TenancyAuditProofs. What is left:

1. An abstract specification of a reversible compaction, and under which restrictions Archival implements it.
2. Timeline (two recordings that name one predecessor) and the HNSW lock, as small modules.

## Not modelled

- Co-access and utility: floating-point weights, moved by single UPDATE statements and read only to order results.
- Timeline: an append-only table written by one INSERT after a SELECT of the latest event; two recordings may name the same
  predecessor, and nothing in the code reads the chain.
- HNSW maintenance: one try of a session-level lock around REINDEX and VACUUM, which change no rows.
- Legacy authentication, configuration, start-up: comparison of static keys and environment variables; that the jobs are spawned
  is what the fairness relies on.
- Embeddings, attestation, URL guard, metrics, logging: stateless calls and pure functions on strings; a failing call is an
  action where it matters.
- Dashboard, SDKs, MCP server, benchmarks, deployment: clients of the HTTP API.

Left out of components that are modelled in part: the throttled `last_used_at` write and the encoding of secrets (credentials);
ranking, access counts and retrieval logs (retrieval); names and edit distance of entities and the resolution of a conflict by an
operator, one UPDATE (conflicts); listing, search, statistics and export (management API); row pseudonyms, rendering and digest of
a report, lock profiles, the planned checkpoint table and the collision scan no table asks for (tenancy audit).
