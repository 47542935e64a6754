--------------------------- MODULE ExtractionOutbox ---------------------------
(***************************************************************************)
(* The durable extraction outbox.  The proxy inserts one extraction_jobs   *)
(* row per answered turn; every kernel process that runs workers polls the *)
(* table, claims a batch of due rows in one UPDATE ... FOR UPDATE SKIP     *)
(* LOCKED statement, runs the jobs of the batch one after the other and    *)
(* writes each job's outcome back by id.  The kernel is stateless and      *)
(* scaled horizontally, so several workers share one table.                *)
(*                                                                         *)
(* A job is a model value; the transcript, the facts and the summary it    *)
(* yields are abstracted to which of its effects reached the database.     *)
(* The order of the jobs inside a batch is RETURNING's, i.e. unspecified.  *)
(***************************************************************************)
EXTENDS Integers, FiniteSets

CONSTANTS
  Jobs,               \* answered turns, one outbox row each
  Workers,            \* kernel processes that run the outbox worker
  CLAIM_BATCH_SIZE,   \* LIMIT of the claim
  MaxAttempts,        \* EXTRACTION_MAX_ATTEMPTS, a u32: 0 is accepted
  BackoffBase,        \* EXTRACTION_BACKOFF_BASE_SECS, in clock ticks
  MaxOverdue,         \* bound: how far past its due time a row is told apart
  MaxFaults           \* bound: crashes and lost database calls

\* A table has finitely many rows.
ASSUME JobsAssumption == IsFiniteSet(Jobs)
ASSUME MaxAttemptsAssumption == MaxAttempts \in Nat
ASSUME BatchAssumption == CLAIM_BATCH_SIZE \in Nat \ {0}
ASSUME BoundsAssumption == MaxOverdue \in Nat /\ MaxFaults \in Nat

VARIABLES
  status,     \* extraction_jobs.status, or why there is no row
  attempts,   \* extraction_jobs.attempts
  due,        \* next_attempt_at - NOW(), floored at -MaxOverdue
  claimed,    \* per worker: claimed ExtractionJob structs not started yet
  current,    \* per worker: the struct being executed (at most one)
  phase,      \* per worker: where drain_due_jobs is
  effects,    \* how often each effect of a job reached the database
  faults      \* crashes and lost calls so far

rows == <<status, attempts, due>>
vars == <<status, attempts, due, claimed, current, phase, effects, faults>>

RowStatus == {"pending", "in_progress", "done", "failed"}
\* "open": the turn is not answered yet; "dropped": its INSERT failed.
Statuses == RowStatus \cup {"open", "dropped"}
Settled == {"done", "failed"}

Phases == {"idle", "extracting", "summarising", "mirroring", "succeeded", "errored"}

\* facts, entities, links and relations; working_memory; sessions.turn_count
Effects == {"facts", "summary", "mirror"}

\* The part of ExtractionJob that the worker reads after the claim.
ExtractionJob == [id : Jobs, attempts : Nat]

\* Failure on the k-th attempt with k < budget is retried, at least one runs.
AttemptBudget == IF MaxAttempts = 0 THEN 1 ELSE MaxAttempts

-----------------------------------------------------------------------------

Init ==
  /\ status = [j \in Jobs |-> "open"]
  /\ attempts = [j \in Jobs |-> 0]
  /\ due = [j \in Jobs |-> 0]
  /\ claimed = [w \in Workers |-> {}]
  /\ current = [w \in Workers |-> {}]
  /\ phase = [w \in Workers |-> "idle"]
  /\ effects = [j \in Jobs |-> [e \in Effects |-> 0]]
  /\ faults = 0

Fault == faults < MaxFaults /\ faults' = faults + 1

(***************************************************************************)
(* The proxy's side.                                                       *)
(***************************************************************************)

\* enqueue_or_extract with the outbox enabled: INSERT ... 'pending', NOW().
EnqueueExtractionJob(j) ==
  /\ status[j] = "open"
  /\ status' = [status EXCEPT ![j] = "pending"]
  /\ due' = [due EXCEPT ![j] = 0]
  /\ UNCHANGED <<attempts, claimed, current, phase, effects, faults>>

\* The INSERT fails, which is only logged, or the process dies before it.
EnqueueFails(j) ==
  /\ status[j] = "open"
  /\ Fault
  /\ status' = [status EXCEPT ![j] = "dropped"]
  /\ UNCHANGED <<attempts, due, claimed, current, phase, effects>>

(***************************************************************************)
(* The claim: at most CLAIM_BATCH_SIZE due rows, earliest next_attempt_at  *)
(* first.  The statement takes row locks and skips locked rows, so two     *)
(* claims are atomic with respect to each other.                           *)
(***************************************************************************)

\* Mutation: a reclaim of in_progress rows that does not ask who holds them.
DueOrClaimedJobs == {j \in Jobs : status[j] \in {"pending", "in_progress"} /\ due[j] <= 0}

DueJobs == {j \in Jobs : status[j] = "pending" /\ due[j] <= 0}

\* Mutation: a worker that waits for a full batch.
FullBatches == {S \in SUBSET DueJobs : Cardinality(S) = CLAIM_BATCH_SIZE}

Batches ==
  {S \in SUBSET DueJobs :
     /\ S # {}
     /\ \/ S = DueJobs /\ Cardinality(S) <= CLAIM_BATCH_SIZE
        \/ Cardinality(S) = CLAIM_BATCH_SIZE
     /\ \A j \in S, k \in DueJobs \ S : due[j] <= due[k]}

MarkClaimed(S) ==
  /\ status' = [j \in Jobs |-> IF j \in S THEN "in_progress" ELSE status[j]]
  /\ attempts' = [j \in Jobs |-> IF j \in S THEN attempts[j] + 1 ELSE attempts[j]]
  /\ UNCHANGED due

Polling(w) == phase[w] = "idle" /\ claimed[w] = {} /\ current[w] = {}

ClaimDueJobs(w) ==
  /\ Polling(w)
  /\ \E S \in Batches :
       /\ MarkClaimed(S)
       /\ claimed' = [claimed EXCEPT ![w] =
                        {[id |-> j, attempts |-> attempts[j] + 1] : j \in S}]
  /\ UNCHANGED <<current, phase, effects, faults>>

\* The UPDATE commits but its reply is lost: drain_due_jobs returns an error.
ClaimReplyLost(w) ==
  /\ Polling(w)
  /\ Fault
  /\ \E S \in Batches : MarkClaimed(S)
  /\ UNCHANGED <<claimed, current, phase, effects>>

(***************************************************************************)
(* execute_extraction_job: one job of the batch at a time.                 *)
(***************************************************************************)

StartJob(w) ==
  /\ phase[w] = "idle"
  /\ current[w] = {}
  /\ \E job \in claimed[w] :
       /\ claimed' = [claimed EXCEPT ![w] = @ \ {job}]
       /\ current' = [current EXCEPT ![w] = {job}]
  /\ phase' = [phase EXCEPT ![w] = "extracting"]
  /\ UNCHANGED <<rows, effects, faults>>

MoveTo(w, from, to) ==
  /\ phase[w] = from
  /\ phase' = [phase EXCEPT ![w] = to]

\* Extractor unreachable, non-2xx or without content, an unreadable payload
\* or no session_id: every error return comes before the first store.
ExtractorErrs(w) ==
  /\ MoveTo(w, "extracting", "errored")
  /\ UNCHANGED <<rows, claimed, current, effects, faults>>

\* Unparseable extraction JSON or confidence_low: Ok(()), nothing is stored.
ExtractorSkips(w) ==
  /\ MoveTo(w, "extracting", "succeeded")
  /\ UNCHANGED <<rows, claimed, current, effects, faults>>

\* The effect e of w's current job reaches the database.
Apply(w, e) ==
  \E job \in current[w] : effects' = [effects EXCEPT ![job.id][e] = @ + 1]

\* run_extraction only logs a failing store and goes on.
ApplyOrWarn(w, e) == Apply(w, e) \/ UNCHANGED effects

\* Embedding and the per-fact stores, entities, links and relations.
StoreFacts(w) ==
  /\ MoveTo(w, "extracting", "summarising")
  /\ ApplyOrWarn(w, "facts")
  /\ UNCHANGED <<rows, claimed, current, faults>>

\* Mutation: a failing working-memory write is propagated instead of logged.
UpsertWorkingMemoryOrErr(w) ==
  /\ \/ MoveTo(w, "summarising", "mirroring") /\ Apply(w, "summary")
     \/ MoveTo(w, "summarising", "errored") /\ UNCHANGED effects
  /\ UNCHANGED <<rows, claimed, current, faults>>

\* upsert_working_memory, first statement; its failure skips the second one.
UpsertWorkingMemory(w) ==
  /\ \/ MoveTo(w, "summarising", "mirroring") /\ Apply(w, "summary")
     \/ MoveTo(w, "summarising", "succeeded") /\ UNCHANGED effects
  /\ UNCHANGED <<rows, claimed, current, faults>>

\* upsert_working_memory, second statement: the mirror in sessions.
MirrorTurnCount(w) ==
  /\ MoveTo(w, "mirroring", "succeeded")
  /\ ApplyOrWarn(w, "mirror")
  /\ UNCHANGED <<rows, claimed, current, faults>>

(***************************************************************************)
(* finish_job: mark_done, mark_retry or mark_failed, by id and whatever    *)
(* the row's status is.                                                    *)
(***************************************************************************)

BackoffAfterAttempt(n) ==
  BackoffBase * 2 ^ (IF n > 31 THEN 30 ELSE n - 1)

MarkDone(job) ==
  /\ status' = [status EXCEPT ![job.id] = "done"]
  /\ UNCHANGED due

MarkRetry(job) ==
  /\ status' = [status EXCEPT ![job.id] = "pending"]
  /\ due' = [due EXCEPT ![job.id] = BackoffAfterAttempt(job.attempts)]

\* Mutation: a status the table does not know.
MarkDead(job) ==
  /\ status' = [status EXCEPT ![job.id] = "dead"]
  /\ UNCHANGED due

MarkFailed(job) ==
  /\ status' = [status EXCEPT ![job.id] = "failed"]
  /\ UNCHANGED due

\* Mutation: the budget is compared with <= instead of <.
WriteOutcomeOffByOne(w, job) ==
  \/ phase[w] = "succeeded" /\ MarkDone(job)
  \/ phase[w] = "errored" /\ job.attempts <= MaxAttempts /\ MarkRetry(job)
  \/ phase[w] = "errored" /\ job.attempts > MaxAttempts /\ MarkFailed(job)

\* Mutation: every error gives the job up, whatever budget is left.
WriteOutcomeNoRetry(w, job) ==
  \/ phase[w] = "succeeded" /\ MarkDone(job)
  \/ phase[w] = "errored" /\ MarkFailed(job)

WriteOutcome(w, job) ==
  \/ phase[w] = "succeeded" /\ MarkDone(job)
  \/ phase[w] = "errored" /\ job.attempts < MaxAttempts /\ MarkRetry(job)
  \/ phase[w] = "errored" /\ job.attempts >= MaxAttempts /\ MarkFailed(job)

NextInBatch(w) ==
  /\ current' = [current EXCEPT ![w] = {}]
  /\ phase' = [phase EXCEPT ![w] = "idle"]

\* Mutation: an early return after an error drops the rest of the batch.
FinishJobAndReturn(w) ==
  /\ \E job \in current[w] : WriteOutcome(w, job)
  /\ NextInBatch(w)
  /\ claimed' = [claimed EXCEPT ![w] = IF phase[w] = "errored" THEN {} ELSE @]
  /\ UNCHANGED <<attempts, effects, faults>>

FinishJob(w) ==
  /\ \E job \in current[w] : WriteOutcome(w, job)
  /\ NextInBatch(w)
  /\ UNCHANGED <<attempts, claimed, effects, faults>>

\* The status UPDATE fails: a warning, and the worker goes on.
FinishFails(w) ==
  /\ phase[w] \in {"succeeded", "errored"}
  /\ Fault
  /\ NextInBatch(w)
  /\ UNCHANGED <<rows, claimed, effects>>

(***************************************************************************)
(* The process of w dies anywhere in the batch and is restarted.  Nothing  *)
(* looks for the rows it had claimed.                                      *)
(***************************************************************************)

Crash(w) ==
  /\ claimed[w] \cup current[w] # {}
  /\ Fault
  /\ claimed' = [claimed EXCEPT ![w] = {}]
  /\ NextInBatch(w)
  /\ UNCHANGED <<rows, effects>>

\* Time passes for every row at once.
Tick ==
  /\ due' = [j \in Jobs |-> IF due[j] > -MaxOverdue THEN due[j] - 1 ELSE due[j]]
  /\ UNCHANGED <<status, attempts, claimed, current, phase, effects, faults>>

-----------------------------------------------------------------------------

Extract(w) ==
  \/ ExtractorErrs(w) \/ ExtractorSkips(w) \/ StoreFacts(w)
  \/ UpsertWorkingMemory(w) \/ MirrorTurnCount(w)

WorkerStep(w) == ClaimDueJobs(w) \/ StartJob(w) \/ Extract(w) \/ FinishJob(w)

WorkerFault(w) == ClaimReplyLost(w) \/ FinishFails(w) \/ Crash(w)

Next ==
  \/ \E j \in Jobs : EnqueueExtractionJob(j) \/ EnqueueFails(j)
  \/ \E w \in Workers : WorkerStep(w) \/ WorkerFault(w)
  \/ Tick

Spec == Init /\ [][Next]_vars

\* run_job polls forever and restarts with its process, the HTTP client times
\* out after 300 s and pool acquisition after DB_ACQUIRE_TIMEOUT_SECS, so no
\* await of the worker blocks for good; nothing obliges a turn to be answered.
Fairness == WF_vars(Tick) /\ \A w \in Workers : WF_vars(WorkerStep(w))

FairSpec == Spec /\ Fairness

-----------------------------------------------------------------------------
(***************************************************************************)
(* Properties.                                                             *)
(***************************************************************************)

InHand(w) == claimed[w] \cup current[w]

\* A row that says a worker has it while no worker does.
Lost(j) ==
  /\ status[j] = "in_progress"
  /\ \A w \in Workers : \A job \in InHand(w) : job.id # j

\* Every variable keeps its type: no outcome writes a status the CHECK of
\* extraction_jobs would refuse, and a worker is in one phase of one job.
TypeOK ==
  /\ status \in [Jobs -> Statuses]
  /\ attempts \in [Jobs -> Nat]
  /\ DOMAIN due = Jobs
  /\ claimed \in [Workers -> SUBSET ExtractionJob]
  /\ current \in [Workers -> SUBSET ExtractionJob]
  /\ phase \in [Workers -> Phases]
  /\ effects \in [Jobs -> [Effects -> Nat]]
  /\ faults \in 0..MaxFaults

\* The struct a worker carries across the extractor call is the row as it is
\* now, and no other struct, here or in another process, is for that row: a
\* finish by id with no status check cannot hit somebody else's attempt.
ExclusiveClaim ==
  \A w \in Workers : \A job \in InHand(w) :
    /\ status[job.id] = "in_progress"
    /\ attempts[job.id] = job.attempts
    /\ \A v \in Workers : \A other \in InHand(v) :
         other.id = job.id =>
           /\ v = w
           /\ other = job
           /\ (job \in claimed[w] <=> other \notin current[v])

\* Extraction is at-least-once by its comment; in fact no effect of a job
\* reaches the database twice, and a job that will be retried or has failed
\* has left none behind.
EffectsAtMostOnce ==
  \A j \in Jobs :
    /\ \A e \in Effects : effects[j][e] <= 1
    /\ effects[j]["mirror"] <= effects[j]["summary"]
    /\ status[j] \in {"open", "dropped", "pending", "failed"} =>
         \A e \in Effects : effects[j][e] = 0

\* The retry budget is never overrun, only a used-up budget makes a job fail,
\* and a job that waits for a retry still has an attempt left.
AttemptsWithinBudget ==
  \A j \in Jobs :
    /\ attempts[j] <= AttemptBudget
    /\ status[j] = "failed" => attempts[j] = AttemptBudget
    /\ status[j] = "pending" => attempts[j] < AttemptBudget

\* A claimed row is lost only by a fault, and one fault loses one batch at most.
LossesAreFaults ==
  Cardinality({j \in Jobs : Lost(j)}) <= faults * CLAIM_BATCH_SIZE

\* done, failed and lost are final: nothing reopens such a row.
SettledIsFinal ==
  [][\A j \in Jobs :
       /\ status[j] \in Settled => status'[j] = status[j]
       /\ Lost(j) => Lost(j)']_vars

\* The outbox keeps the promise of JobQueue; a row nobody holds is a lost job.
JobState(j) ==
  CASE status[j] \in {"open", "dropped"} -> "new"
    [] status[j] = "pending" -> "waiting"
    [] status[j] = "in_progress" -> IF Lost(j) THEN "lost" ELSE "running"
    [] OTHER -> status[j]

Abstract == INSTANCE JobQueue WITH
  Budget <- AttemptBudget,
  state <- [j \in Jobs |-> JobState(j)],
  tries <- attempts,
  done <- [j \in Jobs |-> {e \in Effects : effects[j][e] > 0}]

\* Every step of the workers is a step of JobQueue or leaves it as it is.
ImplementsJobQueue == Abstract!Spec

\* Every queued turn is settled in the end unless a fault loses its row.
QueuedSettlesOrIsLost ==
  \A j \in Jobs : status[j] = "pending" ~> status[j] \in Settled \/ Lost(j)

\* migrations/0022: a crash or restart does not lose queued extraction work.
QueuedSettles ==
  \A j \in Jobs : status[j] = "pending" ~> status[j] \in Settled
=============================================================================
