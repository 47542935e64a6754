------------------------ MODULE ExtractionOutboxProofs ------------------------
(***************************************************************************)
(* For every number of jobs, workers, attempts and faults: the worker's    *)
(* copy of a row is never stale, a job is in one pair of hands, its        *)
(* effects happen at most once, the retry budget holds, and settled rows   *)
(* stay settled.  All of it follows from one inductive invariant.          *)
(***************************************************************************)
EXTENDS ExtractionOutbox, FiniteSetTheorems, TLAPS

Untouched(j) == \A e \in Effects : effects[j][e] = 0

\* How far a worker is into a job bounds which effects the job may have.
WorkerInv(w) ==
  /\ current[w] = {} <=> phase[w] = "idle"
  /\ \A a, b \in current[w] : a = b
  /\ \A job \in claimed[w] : job \notin current[w] /\ Untouched(job.id)
  /\ \A job \in current[w] :
       /\ phase[w] \in {"extracting", "errored"} => Untouched(job.id)
       /\ phase[w] = "summarising" =>
            effects[job.id]["summary"] = 0 /\ effects[job.id]["mirror"] = 0
       /\ phase[w] = "mirroring" =>
            effects[job.id]["summary"] = 1 /\ effects[job.id]["mirror"] = 0

\* A struct in hand is the row as it is; two structs for one row are one.
HandInv ==
  /\ \A w \in Workers : \A job \in InHand(w) :
       /\ status[job.id] = "in_progress"
       /\ attempts[job.id] = job.attempts /\ job.attempts >= 1
  /\ \A v, w \in Workers : \A a \in InHand(v), b \in InHand(w) :
       a.id = b.id => v = w /\ a = b

BudgetInv ==
  \A j \in Jobs :
    /\ attempts[j] <= AttemptBudget
    /\ status[j] = "failed" => attempts[j] = AttemptBudget
    /\ status[j] \in {"open", "pending"} => attempts[j] < AttemptBudget

IInv ==
  /\ TypeOK
  /\ HandInv
  /\ BudgetInv
  /\ EffectsAtMostOnce
  /\ \A w \in Workers : WorkerInv(w)

-----------------------------------------------------------------------------

\* Each row has at least one attempt: the configured maximum is raised to one.
LEMMA BudgetPositive == AttemptBudget \in Nat /\ AttemptBudget >= 1
BY MaxAttemptsAssumption DEF AttemptBudget

\* Type correctness: the rows keep the statuses and counters the table allows,
\* the workers the phases of the drain loop.
LEMMA TypeInit == Init => TypeOK
BY BoundsAssumption DEF Init, TypeOK, Statuses, RowStatus, Phases, ExtractionJob, Effects

\* The UPDATE of a claim keeps the columns typed.
LEMMA MarkClaimedType ==
  ASSUME TypeOK, NEW S, MarkClaimed(S)
  PROVE  status' \in [Jobs -> Statuses] /\ attempts' \in [Jobs -> Nat] /\ DOMAIN due' = Jobs
BY DEF TypeOK, MarkClaimed, Statuses, RowStatus

\* Recording an effect keeps the counts natural numbers.
LEMMA ApplyType ==
  ASSUME TypeOK, NEW w \in Workers, NEW e \in Effects, Apply(w, e)
  PROVE  effects' \in [Jobs -> [Effects -> Nat]]
BY DEF TypeOK, Apply, ExtractionJob

\* Every step of a worker, of the proxy and of time preserves the types.
LEMMA TypeStep == TypeOK /\ [Next]_vars => TypeOK'
<1> SUFFICES ASSUME TypeOK, [Next]_vars PROVE TypeOK'
  OBVIOUS
<1> USE DEF TypeOK, Phases
<1>1. ASSUME NEW j \in Jobs, EnqueueExtractionJob(j) PROVE TypeOK'
  BY <1>1 DEF EnqueueExtractionJob, Statuses, RowStatus
<1>2. ASSUME NEW j \in Jobs, EnqueueFails(j) PROVE TypeOK'
  BY <1>2, BoundsAssumption DEF EnqueueFails, Fault, Statuses
<1>3. ASSUME NEW w \in Workers, ClaimDueJobs(w) PROVE TypeOK'
  <2>1. PICK S \in Batches :
          /\ MarkClaimed(S)
          /\ claimed' = [claimed EXCEPT ![w] =
                           {[id |-> j, attempts |-> attempts[j] + 1] : j \in S}]
    BY <1>3 DEF ClaimDueJobs
  <2>2. S \subseteq Jobs
    BY DEF Batches, DueJobs
  <2>3. {[id |-> j, attempts |-> attempts[j] + 1] : j \in S} \subseteq ExtractionJob
    BY <2>2 DEF ExtractionJob
  <2>4. claimed' \in [Workers -> SUBSET ExtractionJob]
    BY <2>1, <2>3
  <2>. QED BY <1>3, <2>1, <2>4, MarkClaimedType DEF ClaimDueJobs
<1>4. ASSUME NEW w \in Workers, ClaimReplyLost(w) PROVE TypeOK'
  BY <1>4, MarkClaimedType, BoundsAssumption DEF ClaimReplyLost, Fault
<1>5. ASSUME NEW w \in Workers, StartJob(w) PROVE TypeOK'
  BY <1>5 DEF StartJob, rows
<1>6. ASSUME NEW w \in Workers, ExtractorErrs(w) \/ ExtractorSkips(w) PROVE TypeOK'
  BY <1>6 DEF ExtractorErrs, ExtractorSkips, MoveTo, rows
<1>7. ASSUME NEW w \in Workers, StoreFacts(w) PROVE TypeOK'
  BY <1>7, ApplyType DEF StoreFacts, ApplyOrWarn, MoveTo, rows, Effects
<1>8. ASSUME NEW w \in Workers, UpsertWorkingMemory(w) PROVE TypeOK'
  BY <1>8, ApplyType DEF UpsertWorkingMemory, MoveTo, rows, Effects
<1>9. ASSUME NEW w \in Workers, MirrorTurnCount(w) PROVE TypeOK'
  BY <1>9, ApplyType DEF MirrorTurnCount, ApplyOrWarn, MoveTo, rows, Effects
<1>10. ASSUME NEW w \in Workers, FinishJob(w) PROVE TypeOK'
  <2>1. PICK job \in current[w] : WriteOutcome(w, job)
    BY <1>10 DEF FinishJob
  <2>2. status' \in [Jobs -> Statuses] /\ DOMAIN due' = Jobs
    BY <2>1 DEF WriteOutcome, MarkDone, MarkRetry, MarkFailed, Statuses, RowStatus
  <2>. QED BY <1>10, <2>2 DEF FinishJob, NextInBatch
<1>11. ASSUME NEW w \in Workers, FinishFails(w) PROVE TypeOK'
  BY <1>11, BoundsAssumption DEF FinishFails, Fault, NextInBatch, rows
<1>12. ASSUME NEW w \in Workers, Crash(w) PROVE TypeOK'
  BY <1>12, BoundsAssumption DEF Crash, Fault, NextInBatch, rows
<1>13. CASE Tick
  BY <1>13 DEF Tick
<1>14. CASE UNCHANGED vars
  BY <1>14 DEF vars
<1>. QED
  BY <1>1, <1>2, <1>3, <1>4, <1>5, <1>6, <1>7, <1>8, <1>9, <1>10, <1>11, <1>12, <1>13, <1>14
  DEF Next, WorkerStep, WorkerFault, Extract

\* The rows keep the types and statuses of the table in every reachable state.
THEOREM TypeCorrect == Spec => []TypeOK
BY TypeInit, TypeStep, PTL DEF Spec

-----------------------------------------------------------------------------

\* Whatever only takes structs out of hands and leaves the rows of the others
\* alone keeps the copies fresh.
LEMMA ShrinkingHands ==
  ASSUME HandInv, attempts' = attempts,
         \A w \in Workers : InHand(w)' \subseteq InHand(w),
         \A w \in Workers : \A job \in InHand(w)' : status'[job.id] = status[job.id]
  PROVE  HandInv'
BY DEF HandInv

\* A claim takes pending rows only, so no hand holds them yet.
LEMMA ClaimedRowsAreFree ==
  ASSUME HandInv, NEW S \in Batches, NEW w \in Workers, NEW job \in InHand(w)
  PROVE  job.id \notin S
BY DEF HandInv, Batches, DueJobs

\* What one claim may take are rows of the table.
LEMMA BatchesAreJobs == \A S \in Batches : S \subseteq Jobs
BY DEF Batches, DueJobs

\* Every step keeps the structs in hand fresh and held once: claims take rows
\* nobody holds, outcomes give up the struct whose row they change.
LEMMA HandStep == IInv /\ [Next]_vars => HandInv'
<1> SUFFICES ASSUME IInv, [Next]_vars PROVE HandInv'
  OBVIOUS
<1>h. TypeOK /\ HandInv /\ \A w \in Workers : WorkerInv(w)
  BY DEF IInv
<1>j. \A w \in Workers : \A job \in InHand(w) : job \in ExtractionJob /\ job.id \in Jobs
  BY <1>h DEF TypeOK, InHand, ExtractionJob
<1>1. ASSUME NEW j \in Jobs, EnqueueExtractionJob(j) \/ EnqueueFails(j) PROVE HandInv'
  <2>1. \A w \in Workers : \A job \in InHand(w) : job.id # j
    BY <1>1, <1>h DEF EnqueueExtractionJob, EnqueueFails, HandInv
  <2>2. attempts' = attempts /\ \A w \in Workers : InHand(w)' = InHand(w)
    BY <1>1 DEF EnqueueExtractionJob, EnqueueFails, InHand
  <2>3. \A k \in Jobs \ {j} : status'[k] = status[k]
    BY <1>1, <1>h DEF EnqueueExtractionJob, EnqueueFails, TypeOK
  <2>. QED BY <1>h, <1>j, <2>1, <2>2, <2>3, ShrinkingHands
<1>2. ASSUME NEW w \in Workers, ClaimDueJobs(w) PROVE HandInv'
  <2>1. PICK S \in Batches :
          /\ MarkClaimed(S)
          /\ claimed' = [claimed EXCEPT ![w] =
                           {[id |-> j, attempts |-> attempts[j] + 1] : j \in S}]
    BY <1>2 DEF ClaimDueJobs
  <2>2. Polling(w) /\ current' = current
    BY <1>2 DEF ClaimDueJobs
  <2>3. InHand(w) = {} /\ InHand(w)' = {[id |-> j, attempts |-> attempts[j] + 1] : j \in S}
    BY <2>1, <2>2, <1>h DEF Polling, InHand, TypeOK
  <2>4. \A v \in Workers \ {w} : InHand(v)' = InHand(v)
    BY <2>1, <2>2, <1>h DEF InHand, TypeOK
  <2>5. \A v \in Workers \ {w} : \A job \in InHand(v)' :
          /\ job.id \notin S
          /\ status'[job.id] = "in_progress"
          /\ attempts'[job.id] = job.attempts /\ job.attempts >= 1
    BY <2>1, <2>4, <1>h, <1>j, ClaimedRowsAreFree DEF HandInv, MarkClaimed
  <2>6. \A job \in InHand(w)' :
          /\ job.id \in S
          /\ status'[job.id] = "in_progress"
          /\ attempts'[job.id] = job.attempts /\ job.attempts >= 1
    BY <2>1, <2>3, <1>h, BatchesAreJobs DEF MarkClaimed, TypeOK
  <2>7. \A a, b \in InHand(w)' : a.id = b.id => a = b
    BY <2>3
  <2>8. ASSUME NEW v \in Workers, NEW u \in Workers, NEW a \in InHand(v)', NEW b \in InHand(u)',
               a.id = b.id
        PROVE  v = u /\ a = b
    <3>1. CASE v = w /\ u = w
      BY <2>7, <2>8, <3>1
    <3>2. CASE v # w /\ u # w
      BY <2>4, <2>8, <3>2, <1>h DEF HandInv
    <3>3. CASE (v = w /\ u # w) \/ (v # w /\ u = w)
      BY <2>5, <2>6, <2>8, <3>3
    <3>. QED BY <3>1, <3>2, <3>3
  <2>9. \A v \in Workers : \A job \in InHand(v)' :
          /\ status'[job.id] = "in_progress"
          /\ attempts'[job.id] = job.attempts /\ job.attempts >= 1
    BY <2>5, <2>6
  <2>. QED BY <2>8, <2>9 DEF HandInv, InHand
<1>3. ASSUME NEW w \in Workers, ClaimReplyLost(w) PROVE HandInv'
  <2>1. PICK S \in Batches : MarkClaimed(S)
    BY <1>3 DEF ClaimReplyLost
  <2>2. \A v \in Workers : InHand(v)' = InHand(v)
    BY <1>3 DEF ClaimReplyLost, InHand
  <2>3. \A v \in Workers : \A job \in InHand(v)' :
          status'[job.id] = status[job.id] /\ attempts'[job.id] = attempts[job.id]
    BY <2>1, <2>2, <1>h, <1>j, ClaimedRowsAreFree DEF MarkClaimed
  <2>. QED BY <2>2, <2>3, <1>h DEF HandInv
<1>4. ASSUME NEW w \in Workers, StartJob(w) PROVE HandInv'
  <2>1. \A v \in Workers : InHand(v)' \subseteq InHand(v)
    BY <1>4, <1>h DEF StartJob, InHand, TypeOK
  <2>. QED BY <1>4, <2>1, <1>h, ShrinkingHands DEF StartJob, rows
<1>5. ASSUME NEW w \in Workers, Extract(w) PROVE HandInv'
  <2>1. \A v \in Workers : InHand(v)' = InHand(v)
    BY <1>5 DEF Extract, ExtractorErrs, ExtractorSkips, StoreFacts, UpsertWorkingMemory,
                MirrorTurnCount, InHand
  <2>2. status' = status /\ attempts' = attempts
    BY <1>5 DEF Extract, ExtractorErrs, ExtractorSkips, StoreFacts, UpsertWorkingMemory,
                MirrorTurnCount, rows
  <2>. QED BY <2>1, <2>2, <1>h, ShrinkingHands
<1>6. ASSUME NEW w \in Workers, FinishJob(w) PROVE HandInv'
  <2>1. PICK job \in current[w] : WriteOutcome(w, job)
    BY <1>6 DEF FinishJob
  <2>2. /\ attempts' = attempts /\ claimed' = claimed
        /\ current' = [current EXCEPT ![w] = {}]
    BY <1>6 DEF FinishJob, NextInBatch
  <2>3. \A v \in Workers : InHand(v)' \subseteq InHand(v) /\ job \notin InHand(v)'
    <3>1. ASSUME NEW v \in Workers, job \in InHand(v) PROVE v = w
      BY <3>1, <1>h DEF HandInv, InHand
    <3>2. InHand(w)' = claimed[w] /\ job \notin claimed[w]
      BY <2>2, <1>h DEF InHand, TypeOK, WorkerInv
    <3>. QED BY <2>2, <3>1, <3>2, <1>h DEF InHand, TypeOK
  <2>4. \A v \in Workers : \A other \in InHand(v)' : other.id # job.id
    BY <2>3, <1>h DEF HandInv, InHand
  <2>5. \A k \in Jobs : k # job.id => status'[k] = status[k]
    BY <2>1, <1>h DEF WriteOutcome, MarkDone, MarkRetry, MarkFailed, TypeOK
  <2>. QED BY <2>2, <2>3, <2>4, <2>5, <1>h, <1>j, ShrinkingHands
<1>7. ASSUME NEW w \in Workers, FinishFails(w) \/ Crash(w) PROVE HandInv'
  <2>1. \A v \in Workers : InHand(v)' \subseteq InHand(v)
    BY <1>7, <1>h DEF FinishFails, Crash, NextInBatch, InHand, TypeOK
  <2>. QED BY <1>7, <2>1, <1>h, ShrinkingHands DEF FinishFails, Crash, rows
<1>8. CASE Tick \/ UNCHANGED vars
  BY <1>8, <1>h, ShrinkingHands DEF Tick, vars, InHand
<1>. QED
  BY <1>1, <1>2, <1>3, <1>4, <1>5, <1>6, <1>7, <1>8
  DEF Next, WorkerStep, WorkerFault

-----------------------------------------------------------------------------

\* The budget: a claim uses one attempt of a row that had one left.
LEMMA BudgetStep == IInv /\ [Next]_vars => BudgetInv'
<1> SUFFICES ASSUME IInv, [Next]_vars PROVE BudgetInv'
  OBVIOUS
<1>h. TypeOK /\ HandInv /\ BudgetInv
  BY DEF IInv
<1>b. AttemptBudget \in Nat /\ AttemptBudget >= 1 /\ MaxAttempts \in Nat
  BY BudgetPositive, MaxAttemptsAssumption
<1>1. ASSUME NEW j \in Jobs, EnqueueExtractionJob(j) \/ EnqueueFails(j) PROVE BudgetInv'
  BY <1>1, <1>h DEF EnqueueExtractionJob, EnqueueFails, BudgetInv, TypeOK
<1>2. ASSUME NEW w \in Workers, ClaimDueJobs(w) \/ ClaimReplyLost(w) PROVE BudgetInv'
  <2>1. PICK S \in Batches : MarkClaimed(S)
    BY <1>2 DEF ClaimDueJobs, ClaimReplyLost
  <2>2. \A j \in S : j \in Jobs /\ status[j] = "pending"
    BY DEF Batches, DueJobs
  <2>. QED BY <2>1, <2>2, <1>h, <1>b DEF MarkClaimed, BudgetInv, TypeOK
<1>3. ASSUME NEW w \in Workers, FinishJob(w) PROVE BudgetInv'
  <2>1. PICK job \in current[w] : WriteOutcome(w, job)
    BY <1>3 DEF FinishJob
  <2>2. job.id \in Jobs /\ job.attempts \in Nat
    BY <1>h DEF TypeOK, ExtractionJob
  <2>3. attempts[job.id] = job.attempts /\ job.attempts >= 1 /\ job.attempts <= AttemptBudget
    BY <2>2, <1>h DEF HandInv, InHand, BudgetInv
  <2>4. attempts' = attempts
    BY <1>3 DEF FinishJob
  <2>5. CASE status' = [status EXCEPT ![job.id] = "done"]
    BY <2>2, <2>4, <2>5, <1>h DEF BudgetInv, TypeOK
  <2>6. CASE job.attempts < MaxAttempts /\ status' = [status EXCEPT ![job.id] = "pending"]
    BY <2>2, <2>3, <2>4, <2>6, <1>h, <1>b DEF BudgetInv, TypeOK, AttemptBudget
  <2>7. CASE job.attempts >= MaxAttempts /\ status' = [status EXCEPT ![job.id] = "failed"]
    <3>1. job.attempts = AttemptBudget
      BY <2>2, <2>3, <2>7, <1>b DEF AttemptBudget
    <3>. QED BY <2>2, <2>3, <2>4, <2>7, <3>1, <1>h, <1>b DEF BudgetInv, TypeOK
  <2>. QED BY <2>1, <2>5, <2>6, <2>7 DEF WriteOutcome, MarkDone, MarkRetry, MarkFailed
<1>4. CASE status' = status /\ attempts' = attempts
  BY <1>4, <1>h DEF BudgetInv
<1>. QED
  BY <1>1, <1>2, <1>3, <1>4
  DEF Next, WorkerStep, WorkerFault, StartJob, Extract, ExtractorErrs, ExtractorSkips, StoreFacts,
      UpsertWorkingMemory, MirrorTurnCount, FinishFails, Crash, Tick, rows, vars

-----------------------------------------------------------------------------

\* Effects change for the one job a worker executes, and by one.
LEMMA EffectsOfOthers ==
  ASSUME IInv, NEW w \in Workers, NEW e \in Effects, Apply(w, e)
  PROVE  \E job \in current[w] :
           /\ job.id \in Jobs
           /\ status[job.id] = "in_progress"
           /\ effects'[job.id] = [effects[job.id] EXCEPT ![e] = @ + 1]
           /\ \A j \in Jobs : j # job.id => effects'[j] = effects[j]
<1>1. PICK job \in current[w] : effects' = [effects EXCEPT ![job.id][e] = @ + 1]
  BY DEF Apply
<1>2. job.id \in Jobs /\ status[job.id] = "in_progress"
  BY DEF IInv, TypeOK, ExtractionJob, HandInv, InHand
<1>. QED BY <1>1, <1>2 DEF IInv, TypeOK

\* A worker that executes its job leaves the effects of all other jobs alone.
LEMMA EffectsOfOtherHands ==
  ASSUME IInv, NEW w \in Workers, NEW e \in Effects, Apply(w, e),
         NEW v \in Workers, NEW other \in InHand(v), v # w \/ other \notin current[w]
  PROVE  effects'[other.id] = effects[other.id]
<1>1. PICK job \in current[w] : \A j \in Jobs : j # job.id => effects'[j] = effects[j]
  BY EffectsOfOthers
<1>2. other.id \in Jobs /\ other.id # job.id
  BY DEF IInv, HandInv, InHand, TypeOK, ExtractionJob
<1>. QED BY <1>1, <1>2

\* At most one effect of each kind, none left behind by a job that is waiting
\* or has failed.
LEMMA EffectsStep == IInv /\ [Next]_vars => EffectsAtMostOnce'
<1> SUFFICES ASSUME IInv, [Next]_vars PROVE EffectsAtMostOnce'
  OBVIOUS
<1>h. TypeOK /\ HandInv /\ EffectsAtMostOnce /\ \A w \in Workers : WorkerInv(w)
  BY DEF IInv
<1>1. ASSUME NEW j \in Jobs, EnqueueExtractionJob(j) \/ EnqueueFails(j)
      PROVE  EffectsAtMostOnce'
  BY <1>1, <1>h DEF EnqueueExtractionJob, EnqueueFails, EffectsAtMostOnce, TypeOK
<1>2. ASSUME NEW w \in Workers, ClaimDueJobs(w) \/ ClaimReplyLost(w) PROVE EffectsAtMostOnce'
  BY <1>2, <1>h DEF ClaimDueJobs, ClaimReplyLost, MarkClaimed, EffectsAtMostOnce
<1>3. ASSUME NEW w \in Workers, NEW e \in Effects, Apply(w, e), status' = status,
             \A job \in current[w] :
               effects[job.id][e] = 0 /\ (e = "mirror" => effects[job.id]["summary"] = 1)
      PROVE  EffectsAtMostOnce'
  <2>1. PICK job \in current[w] :
          /\ job.id \in Jobs
          /\ status[job.id] = "in_progress"
          /\ effects'[job.id] = [effects[job.id] EXCEPT ![e] = @ + 1]
          /\ \A j \in Jobs : j # job.id => effects'[j] = effects[j]
    BY <1>3, EffectsOfOthers
  <2>2. \A j \in Jobs : j # job.id => effects'[j] = effects[j]
    BY <2>1
  <2>3. /\ effects'[job.id][e] = 1
        /\ \A f \in Effects : f # e => effects'[job.id][f] = effects[job.id][f]
    <3>1. effects[job.id] \in [Effects -> Nat] /\ effects[job.id][e] = 0
      BY <2>1, <1>3, <1>h DEF TypeOK
    <3>. QED BY <2>1, <3>1
  <2>4. \A f \in Effects : effects'[job.id][f] <= 1
    BY <2>1, <2>3, <1>h DEF EffectsAtMostOnce
  <2>5. effects'[job.id]["mirror"] <= effects'[job.id]["summary"]
    <3>1. /\ effects[job.id]["mirror"] \in Nat /\ effects[job.id]["summary"] \in Nat
          /\ effects[job.id]["mirror"] <= effects[job.id]["summary"]
      BY <2>1, <1>h DEF TypeOK, EffectsAtMostOnce, Effects
    <3>2. "mirror" \in Effects /\ "summary" \in Effects
      BY DEF Effects
    <3>3. CASE e = "mirror"
      BY <2>1, <2>3, <3>1, <3>2, <3>3, <1>3
    <3>4. CASE e = "summary"
      BY <2>3, <3>1, <3>2, <3>4, <1>3
    <3>5. CASE e # "mirror" /\ e # "summary"
      BY <2>3, <3>1, <3>2, <3>5
    <3>. QED BY <3>3, <3>4, <3>5
  <2>6. \A j \in Jobs : j # job.id =>
          /\ \A f \in Effects : effects'[j][f] <= 1
          /\ effects'[j]["mirror"] <= effects'[j]["summary"]
          /\ status'[j] \in {"open", "dropped", "pending", "failed"} =>
               \A f \in Effects : effects'[j][f] = 0
    BY <2>2, <1>3, <1>h DEF EffectsAtMostOnce
  <2>. QED BY <2>1, <2>4, <2>5, <2>6, <1>3 DEF EffectsAtMostOnce
<1>4. CASE effects' = effects /\ status' = status
  BY <1>4, <1>h DEF EffectsAtMostOnce
<1>5. ASSUME NEW w \in Workers, StoreFacts(w) PROVE EffectsAtMostOnce'
  <2>1. "facts" \in Effects /\ "facts" # "mirror"
    BY DEF Effects
  <2>2. \A job \in current[w] : effects[job.id]["facts"] = 0
    BY <1>5, <1>h, <2>1 DEF StoreFacts, MoveTo, WorkerInv, Untouched
  <2>. QED BY <1>3, <1>4, <1>5, <2>1, <2>2 DEF StoreFacts, ApplyOrWarn, rows
<1>6. ASSUME NEW w \in Workers, UpsertWorkingMemory(w) PROVE EffectsAtMostOnce'
  <2>1. "summary" \in Effects /\ "summary" # "mirror"
    BY DEF Effects
  <2>2. CASE UNCHANGED effects
    BY <1>4, <1>6, <2>2 DEF UpsertWorkingMemory, rows
  <2>3. CASE phase[w] = "summarising" /\ Apply(w, "summary")
    BY <1>3, <1>6, <1>h, <2>1, <2>3 DEF UpsertWorkingMemory, WorkerInv, rows
  <2>. QED BY <1>6, <2>2, <2>3 DEF UpsertWorkingMemory, MoveTo
<1>7. ASSUME NEW w \in Workers, MirrorTurnCount(w) PROVE EffectsAtMostOnce'
  <2>1. "mirror" \in Effects
    BY DEF Effects
  <2>2. \A job \in current[w] :
          effects[job.id]["mirror"] = 0 /\ effects[job.id]["summary"] = 1
    BY <1>7, <1>h DEF MirrorTurnCount, MoveTo, WorkerInv
  <2>. QED BY <1>3, <1>4, <1>7, <2>1, <2>2 DEF MirrorTurnCount, ApplyOrWarn, rows
<1>8. ASSUME NEW w \in Workers, FinishJob(w) PROVE EffectsAtMostOnce'
  <2>1. PICK job \in current[w] : WriteOutcome(w, job)
    BY <1>8 DEF FinishJob
  <2>2. job.id \in Jobs /\ effects' = effects
    BY <1>8, <1>h DEF FinishJob, TypeOK, ExtractionJob
  <2>3. \A j \in Jobs : j # job.id => status'[j] = status[j]
    BY <2>1, <1>h DEF WriteOutcome, MarkDone, MarkRetry, MarkFailed, TypeOK
  <2>4. \/ status'[job.id] = "done"
        \/ \A f \in Effects : effects[job.id][f] = 0
    BY <2>1, <2>2, <1>h
    DEF WriteOutcome, MarkDone, MarkRetry, MarkFailed, TypeOK, WorkerInv, Untouched
  <2>. QED BY <2>2, <2>3, <2>4, <1>h DEF EffectsAtMostOnce
<1>. QED
  BY <1>1, <1>2, <1>4, <1>5, <1>6, <1>7, <1>8
  DEF Next, WorkerStep, WorkerFault, StartJob, Extract, ExtractorErrs, ExtractorSkips,
      FinishFails, Crash, Tick, rows, vars

-----------------------------------------------------------------------------

\* A worker whose structs, phase and jobs' effects stay as they are.
LEMMA WorkerUntouched ==
  ASSUME NEW v \in Workers, WorkerInv(v),
         claimed'[v] = claimed[v], current'[v] = current[v], phase'[v] = phase[v],
         \A job \in InHand(v) : effects'[job.id] = effects[job.id]
  PROVE  WorkerInv(v)'
BY DEF WorkerInv, Untouched, InHand

\* A worker that recorded the effect e of its job, as seen by the other workers.
LEMMA OthersUntouched ==
  ASSUME IInv, NEW w \in Workers, NEW v \in Workers \ {w}, NEW e \in Effects,
         Apply(w, e) \/ UNCHANGED effects,
         claimed' = claimed, current' = current, phase'[v] = phase[v]
  PROVE  WorkerInv(v)'
<1>1. \A job \in InHand(v) : effects'[job.id] = effects[job.id]
  <2>1. CASE Apply(w, e)
    BY <2>1, EffectsOfOtherHands
  <2>2. CASE UNCHANGED effects
    BY <2>2
  <2>. QED BY <2>1, <2>2
<1>. QED BY <1>1, WorkerUntouched DEF IInv

\* The claimed but unstarted jobs of w stay untouched when its current one acts.
LEMMA ClaimedStayUntouched ==
  ASSUME IInv, NEW w \in Workers, NEW e \in Effects, Apply(w, e) \/ UNCHANGED effects
  PROVE  \A job \in claimed[w] : job \notin current[w] /\ Untouched(job.id)'
<1>1. \A job \in claimed[w] : job \notin current[w] /\ Untouched(job.id)
  BY DEF IInv, WorkerInv
<1>2. \A job \in claimed[w] : effects'[job.id] = effects[job.id]
  <2>1. CASE Apply(w, e)
    BY <1>1, <2>1, EffectsOfOtherHands DEF InHand
  <2>2. CASE UNCHANGED effects
    BY <2>2
  <2>. QED BY <2>1, <2>2
<1>. QED BY <1>1, <1>2 DEF Untouched

\* Every step keeps what a worker's phase says about the effects of its jobs.
LEMMA WorkerStepKeeps == IInv /\ [Next]_vars => \A v \in Workers : WorkerInv(v)'
<1> SUFFICES ASSUME IInv, [Next]_vars, NEW v \in Workers PROVE WorkerInv(v)'
  OBVIOUS
<1>h. TypeOK /\ HandInv /\ EffectsAtMostOnce /\ WorkerInv(v)
  BY DEF IInv
<1>1. CASE UNCHANGED <<claimed, current, phase, effects>>
  BY <1>1, <1>h, WorkerUntouched
<1>2. ASSUME NEW w \in Workers, ClaimDueJobs(w) PROVE WorkerInv(v)'
  <2>1. PICK S \in Batches :
          claimed' = [claimed EXCEPT ![w] =
                        {[id |-> j, attempts |-> attempts[j] + 1] : j \in S}]
    BY <1>2 DEF ClaimDueJobs
  <2>2. current' = current /\ phase' = phase /\ effects' = effects /\ Polling(w)
    BY <1>2 DEF ClaimDueJobs
  <2>3. CASE v # w
    BY <2>1, <2>2, <2>3, <1>h, WorkerUntouched DEF TypeOK
  <2>4. CASE v = w
    <3>1. claimed'[v] = {[id |-> j, attempts |-> attempts[j] + 1] : j \in S}
      BY <2>1, <2>4, <1>h DEF TypeOK
    <3>2. \A j \in S : Untouched(j)
      BY <1>h DEF Batches, DueJobs, EffectsAtMostOnce, Untouched
    <3>3. current[v] = {} /\ phase[v] = "idle"
      BY <2>2, <2>4 DEF Polling
    <3>. QED BY <2>2, <3>1, <3>2, <3>3 DEF WorkerInv, Untouched
  <2>. QED BY <2>3, <2>4
<1>3. ASSUME NEW w \in Workers, StartJob(w) PROVE WorkerInv(v)'
  <2>1. PICK job \in claimed[w] :
          /\ claimed' = [claimed EXCEPT ![w] = @ \ {job}]
          /\ current' = [current EXCEPT ![w] = {job}]
    BY <1>3 DEF StartJob
  <2>2. phase' = [phase EXCEPT ![w] = "extracting"] /\ effects' = effects
    BY <1>3 DEF StartJob
  <2>3. CASE v # w
    BY <2>1, <2>2, <2>3, <1>h, WorkerUntouched DEF TypeOK
  <2>4. CASE v = w
    BY <2>1, <2>2, <2>4, <1>h DEF TypeOK, WorkerInv, Untouched
  <2>. QED BY <2>3, <2>4
<1>4. ASSUME NEW w \in Workers, ExtractorErrs(w) \/ ExtractorSkips(w) PROVE WorkerInv(v)'
  <2>1. CASE v # w
    BY <1>4, <2>1, <1>h, WorkerUntouched DEF ExtractorErrs, ExtractorSkips, MoveTo, TypeOK
  <2>2. CASE v = w
    BY <1>4, <2>2, <1>h DEF ExtractorErrs, ExtractorSkips, MoveTo, TypeOK, WorkerInv, Untouched
  <2>. QED BY <2>1, <2>2
<1>5. ASSUME NEW w \in Workers, StoreFacts(w) PROVE WorkerInv(v)'
  <2>1. /\ "facts" \in Effects /\ ApplyOrWarn(w, "facts")
        /\ claimed' = claimed /\ current' = current
        /\ phase[w] = "extracting" /\ phase' = [phase EXCEPT ![w] = "summarising"]
    BY <1>5 DEF StoreFacts, MoveTo, Effects
  <2>2. CASE v # w
    BY <2>1, <2>2, <1>h, OthersUntouched DEF ApplyOrWarn, TypeOK
  <2>3. CASE v = w
    <3>1. \A job \in claimed[v] : job \notin current[v] /\ Untouched(job.id)'
      BY <2>1, <2>3, ClaimedStayUntouched DEF ApplyOrWarn
    <3>2. \A job \in current[v] : Untouched(job.id)
      BY <2>1, <2>3, <1>h DEF WorkerInv
    <3>3. \A job \in current[v] :
            effects'[job.id]["summary"] = 0 /\ effects'[job.id]["mirror"] = 0
      <4>1. CASE UNCHANGED effects
        BY <3>2, <4>1 DEF Untouched, Effects
      <4>2. CASE Apply(w, "facts")
        <5>0. "facts" \in Effects
          BY DEF Effects
        <5>1. PICK acting \in current[w] :
                /\ acting.id \in Jobs
                /\ effects'[acting.id] = [effects[acting.id] EXCEPT !["facts"] = @ + 1]
          BY <4>2, <5>0, EffectsOfOthers
        <5>2. "summary" \in Effects /\ "mirror" \in Effects
          BY DEF Effects
        <5>3. \A job \in current[v] : job = acting
          BY <2>3, <5>1, <1>h DEF WorkerInv
        <5>. QED BY <3>2, <5>1, <5>2, <5>3, <1>h DEF Untouched, TypeOK
      <4>. QED BY <2>1, <4>1, <4>2 DEF ApplyOrWarn
    <3>4. phase'[v] = "summarising" /\ current'[v] # {}
      BY <2>1, <2>3, <1>h DEF TypeOK, WorkerInv
    <3>. QED BY <2>1, <3>1, <3>3, <3>4, <1>h DEF WorkerInv
  <2>. QED BY <2>2, <2>3
<1>6. ASSUME NEW w \in Workers, UpsertWorkingMemory(w) PROVE WorkerInv(v)'
  <2>1. /\ "summary" \in Effects /\ (Apply(w, "summary") \/ UNCHANGED effects)
        /\ claimed' = claimed /\ current' = current /\ phase[w] = "summarising"
        /\ \/ phase' = [phase EXCEPT ![w] = "mirroring"] /\ Apply(w, "summary")
           \/ phase' = [phase EXCEPT ![w] = "succeeded"]
    BY <1>6 DEF UpsertWorkingMemory, MoveTo, Effects
  <2>2. CASE v # w
    BY <2>1, <2>2, <1>h, OthersUntouched DEF TypeOK
  <2>3. CASE v = w
    <3>1. \A job \in claimed[v] : job \notin current[v] /\ Untouched(job.id)'
      BY <2>1, <2>3, ClaimedStayUntouched
    <3>2. ASSUME Apply(w, "summary"), NEW job \in current[v]
          PROVE  effects'[job.id]["summary"] = 1 /\ effects'[job.id]["mirror"] = 0
      <4>1. PICK acting \in current[v] :
              /\ acting.id \in Jobs
              /\ effects'[acting.id] = [effects[acting.id] EXCEPT !["summary"] = @ + 1]
        BY <2>1, <2>3, <3>2, EffectsOfOthers
      <4>2. job = acting
        BY <3>2, <4>1, <1>h DEF WorkerInv
      <4>3. effects[job.id]["summary"] = 0 /\ effects[job.id]["mirror"] = 0
        BY <2>1, <2>3, <1>h DEF WorkerInv
      <4>4. "summary" \in Effects /\ "mirror" \in Effects
        BY DEF Effects
      <4>. QED BY <4>1, <4>2, <4>3, <4>4, <1>h DEF TypeOK
    <3>3. current'[v] # {} /\ phase'[v] \in {"mirroring", "succeeded"}
      BY <2>1, <2>3, <1>h DEF TypeOK, WorkerInv
    <3>4. phase'[v] = "mirroring" => Apply(w, "summary")
      BY <2>1, <2>3, <1>h DEF TypeOK
    <3>. QED BY <2>1, <3>1, <3>2, <3>3, <3>4, <1>h DEF WorkerInv
  <2>. QED BY <2>2, <2>3
<1>7. ASSUME NEW w \in Workers, MirrorTurnCount(w) PROVE WorkerInv(v)'
  <2>1. /\ "mirror" \in Effects /\ (Apply(w, "mirror") \/ UNCHANGED effects)
        /\ claimed' = claimed /\ current' = current
        /\ phase[w] = "mirroring" /\ phase' = [phase EXCEPT ![w] = "succeeded"]
    BY <1>7 DEF MirrorTurnCount, ApplyOrWarn, MoveTo, Effects
  <2>2. CASE v # w
    BY <2>1, <2>2, <1>h, OthersUntouched DEF TypeOK
  <2>3. CASE v = w
    <3>1. \A job \in claimed[v] : job \notin current[v] /\ Untouched(job.id)'
      BY <2>1, <2>3, ClaimedStayUntouched
    <3>2. phase'[v] = "succeeded" /\ current'[v] # {}
      BY <2>1, <2>3, <1>h DEF TypeOK, WorkerInv
    <3>. QED BY <2>1, <3>1, <3>2, <1>h DEF WorkerInv
  <2>. QED BY <2>2, <2>3
<1>8. ASSUME NEW w \in Workers, FinishJob(w) \/ FinishFails(w) \/ Crash(w) PROVE WorkerInv(v)'
  <2>1. /\ NextInBatch(w) /\ effects' = effects
        /\ claimed' = claimed \/ claimed' = [claimed EXCEPT ![w] = {}]
    BY <1>8 DEF FinishJob, FinishFails, Crash
  <2>2. CASE v # w
    BY <2>1, <2>2, <1>h, WorkerUntouched DEF NextInBatch, TypeOK
  <2>3. CASE v = w
    BY <2>1, <2>3, <1>h DEF NextInBatch, TypeOK, WorkerInv, Untouched
  <2>. QED BY <2>2, <2>3
<1>. QED
  BY <1>1, <1>2, <1>3, <1>4, <1>5, <1>6, <1>7, <1>8
  DEF Next, WorkerStep, WorkerFault, Extract, EnqueueExtractionJob, EnqueueFails, ClaimReplyLost,
      Tick, vars

-----------------------------------------------------------------------------

\* Empty hands and an empty table satisfy every part of the invariant.
LEMMA InitEstablishes == Init => IInv
<1> SUFFICES ASSUME Init PROVE IInv
  OBVIOUS
<1>1. TypeOK
  BY TypeInit
<1>2. HandInv /\ \A w \in Workers : WorkerInv(w)
  BY DEF Init, HandInv, InHand, WorkerInv
<1>3. BudgetInv
  BY BudgetPositive DEF Init, BudgetInv
<1>4. EffectsAtMostOnce
  BY DEF Init, EffectsAtMostOnce, Effects
<1>. QED BY <1>1, <1>2, <1>3, <1>4 DEF IInv

\* Each part of the invariant is preserved by the lemma of its own.
LEMMA StepPreserves == IInv /\ [Next]_vars => IInv'
BY TypeStep, HandStep, BudgetStep, EffectsStep, WorkerStepKeeps DEF IInv

\* The inductive invariant of the outbox.
THEOREM Inductive == Spec => []IInv
BY InitEstablishes, StepPreserves, PTL DEF Spec

\* However claims, retries, crashes and lost replies interleave, the struct a
\* worker holds is the row as it is and nobody else holds that row.
THEOREM ClaimsAreExclusive == Spec => []ExclusiveClaim
<1>1. IInv => ExclusiveClaim
  BY DEF IInv, HandInv, WorkerInv, ExclusiveClaim, InHand
<1>. QED BY <1>1, Inductive, PTL

\* No effect of an extraction job reaches the database twice, and a job that
\* is to be retried or has failed left none.
THEOREM EffectsHappenAtMostOnce == Spec => []EffectsAtMostOnce
<1>1. IInv => EffectsAtMostOnce
  BY DEF IInv
<1>. QED BY <1>1, Inductive, PTL

\* EXTRACTION_MAX_ATTEMPTS is never overrun and never left unused by a failure.
THEOREM BudgetHolds == Spec => []AttemptsWithinBudget
<1>1. IInv => AttemptsWithinBudget
  BY DEF IInv, BudgetInv, AttemptsWithinBudget
<1>. QED BY <1>1, Inductive, PTL

\* No statement of the worker, all of them by id alone, reopens a settled row,
\* and a row that no worker holds any more is never picked up again.
SettledStays ==
  \A j \in Jobs :
    /\ status[j] \in Settled => status'[j] = status[j]
    /\ Lost(j) => Lost(j)'

\* No step takes a row out of done or failed, or a lost row back.
LEMMA SettledStep == IInv /\ [Next]_vars => SettledStays
<1> SUFFICES ASSUME IInv, [Next]_vars PROVE SettledStays
  OBVIOUS
<1>h. TypeOK /\ HandInv
  BY DEF IInv
<1>1. ASSUME NEW j \in Jobs, EnqueueExtractionJob(j) \/ EnqueueFails(j) PROVE SettledStays
  <2>1. \A w \in Workers : InHand(w)' = InHand(w)
    BY <1>1 DEF EnqueueExtractionJob, EnqueueFails, InHand
  <2>2. status[j] = "open" /\ \A k \in Jobs : k # j => status'[k] = status[k]
    BY <1>1, <1>h DEF EnqueueExtractionJob, EnqueueFails, TypeOK
  <2>. QED BY <2>1, <2>2 DEF SettledStays, Settled, Lost
<1>2. ASSUME NEW w \in Workers, ClaimDueJobs(w) PROVE SettledStays
  <2>1. PICK S \in Batches :
          /\ MarkClaimed(S)
          /\ claimed' = [claimed EXCEPT ![w] =
                           {[id |-> j, attempts |-> attempts[j] + 1] : j \in S}]
    BY <1>2 DEF ClaimDueJobs
  <2>2. \A j \in S : j \in Jobs /\ status[j] = "pending"
    BY DEF Batches, DueJobs
  <2>3. \A v \in Workers : \A job \in InHand(v)' : job \in InHand(v) \/ job.id \in S
    BY <1>2, <2>1, <1>h DEF ClaimDueJobs, InHand, TypeOK
  <2>. QED BY <2>1, <2>2, <2>3, <1>h DEF MarkClaimed, SettledStays, Settled, Lost, TypeOK
<1>3. ASSUME NEW w \in Workers, ClaimReplyLost(w) PROVE SettledStays
  <2>1. PICK S \in Batches : MarkClaimed(S)
    BY <1>3 DEF ClaimReplyLost
  <2>2. \A j \in S : j \in Jobs /\ status[j] = "pending"
    BY DEF Batches, DueJobs
  <2>3. \A v \in Workers : InHand(v)' = InHand(v)
    BY <1>3 DEF ClaimReplyLost, InHand
  <2>. QED BY <2>1, <2>2, <2>3, <1>h DEF MarkClaimed, SettledStays, Settled, Lost, TypeOK
<1>4. ASSUME NEW w \in Workers, FinishJob(w) PROVE SettledStays
  <2>1. PICK job \in current[w] : WriteOutcome(w, job)
    BY <1>4 DEF FinishJob
  <2>2. job.id \in Jobs /\ job \in InHand(w) /\ status[job.id] = "in_progress"
    BY <1>h DEF TypeOK, ExtractionJob, HandInv, InHand
  <2>3. \A k \in Jobs : k # job.id => status'[k] = status[k]
    BY <2>1, <2>2, <1>h DEF WriteOutcome, MarkDone, MarkRetry, MarkFailed, TypeOK
  <2>4. \A v \in Workers : InHand(v)' \subseteq InHand(v)
    BY <1>4, <1>h DEF FinishJob, NextInBatch, InHand, TypeOK
  <2>. QED BY <2>2, <2>3, <2>4 DEF SettledStays, Settled, Lost
<1>5. ASSUME status' = status, \A v \in Workers : InHand(v)' \subseteq InHand(v)
      PROVE  SettledStays
  BY <1>5 DEF SettledStays, Lost
<1>6. ASSUME NEW w \in Workers, StartJob(w) \/ FinishFails(w) \/ Crash(w) PROVE SettledStays
  BY <1>5, <1>6, <1>h DEF StartJob, FinishFails, Crash, NextInBatch, InHand, TypeOK, rows
<1>7. ASSUME NEW w \in Workers, Extract(w) PROVE SettledStays
  BY <1>5, <1>7
  DEF Extract, ExtractorErrs, ExtractorSkips, StoreFacts, UpsertWorkingMemory, MirrorTurnCount,
      InHand, rows
<1>8. CASE Tick \/ UNCHANGED vars
  BY <1>5, <1>8 DEF Tick, vars, InHand
<1>. QED
  BY <1>1, <1>2, <1>3, <1>4, <1>6, <1>7, <1>8 DEF Next, WorkerStep, WorkerFault

\* done, failed and lost are final, for every schedule and every fault.
THEOREM SettledRowsStay == Spec => SettledIsFinal
<1>1. IInv /\ [Next]_vars => [SettledStays]_vars
  BY SettledStep
<1>. QED BY <1>1, Inductive, PTL DEF Spec, SettledIsFinal, SettledStays

-----------------------------------------------------------------------------
(***************************************************************************)
(* The outbox implements JobQueue: its initial states are initial states   *)
(* of the queue, and each of its steps is one step of the queue or none.   *)
(***************************************************************************)

Held(j) == \E w \in Workers : \E job \in InHand(w) : job.id = j

Recorded(j) == {e \in Effects : effects[j][e] > 0}

\* How a row and the hands that hold it read as a state of the queue.
LEMMA StateReads ==
  ASSUME NEW j
  PROVE  /\ status[j] \in {"open", "dropped"} => JobState(j) = "new"
         /\ status[j] = "pending" => JobState(j) = "waiting"
         /\ status[j] = "in_progress" /\ Held(j) => JobState(j) = "running"
         /\ status[j] = "in_progress" /\ ~Held(j) => JobState(j) = "lost"
         /\ status[j] \in Settled => JobState(j) = status[j]
BY DEF JobState, Lost, Held, Settled

\* The same of the state after a step.
LEMMA StateReadsNext ==
  ASSUME NEW j
  PROVE  /\ status'[j] \in {"open", "dropped"} => JobState(j)' = "new"
         /\ status'[j] = "pending" => JobState(j)' = "waiting"
         /\ status'[j] = "in_progress" /\ Held(j)' => JobState(j)' = "running"
         /\ status'[j] = "in_progress" /\ ~Held(j)' => JobState(j)' = "lost"
         /\ status'[j] \in Settled => JobState(j)' = status'[j]
BY DEF JobState, Lost, Held, Settled

\* A row that keeps its status and its holder is in the same state.
LEMMA StateKept ==
  ASSUME NEW j, status'[j] = status[j], Held(j)' <=> Held(j)
  PROVE  JobState(j)' = JobState(j)
BY DEF JobState, Lost, Held

\* A step that takes exactly the jobs of S from one state to another is a
\* move of the queue.
LEMMA MovesOf ==
  ASSUME NEW S \in SUBSET Jobs, NEW from, NEW to,
         \A j \in S : JobState(j) = from /\ JobState(j)' = to,
         \A j \in Jobs \ S : JobState(j)' = JobState(j)
  PROVE  Abstract!Move(S, from, to)
BY DEF Abstract!Move

\* A step that leaves every job's state, tries and effects is no step of the
\* queue.
LEMMA NoMove ==
  ASSUME \A j \in Jobs : JobState(j)' = JobState(j), attempts' = attempts, effects' = effects
  PROVE  UNCHANGED Abstract!jvars
BY DEF Abstract!jvars

\* What a worker holds is a row in progress, so its job runs.
LEMMA HeldRuns ==
  ASSUME IInv, NEW w \in Workers, NEW job \in InHand(w)
  PROVE  /\ job.id \in Jobs /\ status[job.id] = "in_progress" /\ Held(job.id)
         /\ JobState(job.id) = "running"
<1>1. job.id \in Jobs /\ status[job.id] = "in_progress"
  BY DEF IInv, TypeOK, InHand, ExtractionJob, HandInv
<1>2. Held(job.id)
  BY DEF Held
<1>. QED BY <1>1, <1>2, StateReads

\* An effect that reaches the database is one Perform of the job that runs,
\* and it had not happened before.
LEMMA AppliedIsPerformed ==
  ASSUME IInv, NEW w \in Workers, NEW e \in Effects, Apply(w, e),
         \A job \in current[w] : effects[job.id][e] = 0,
         status' = status, attempts' = attempts, \A v \in Workers : InHand(v)' = InHand(v)
  PROVE  \E j \in Jobs : Abstract!Perform(j, e)
<1>1. PICK job \in current[w] :
        /\ job.id \in Jobs
        /\ effects'[job.id] = [effects[job.id] EXCEPT ![e] = @ + 1]
        /\ \A j \in Jobs : j # job.id => effects'[j] = effects[j]
  BY EffectsOfOthers
<1>2. JobState(job.id) = "running"
  BY HeldRuns DEF InHand
<1>3. \A j \in Jobs : JobState(j)' = JobState(j)
  BY StateKept DEF Held
<1>4. e \notin Recorded(job.id)
  BY <1>1 DEF Recorded
<1>5. Recorded(job.id)' = Recorded(job.id) \cup {e}
  <2>1. effects[job.id] \in [Effects -> Nat] /\ effects[job.id][e] = 0
    BY <1>1 DEF IInv, TypeOK
  <2>2. \A f \in Effects : effects'[job.id][f] > 0 <=> effects[job.id][f] > 0 \/ f = e
    BY <1>1, <2>1
  <2>. QED BY <2>2 DEF Recorded
<1>6. \A j \in Jobs : j # job.id => Recorded(j)' = Recorded(j)
  BY <1>1 DEF Recorded
<1>7. [j \in Jobs |-> Recorded(j)]' = [[j \in Jobs |-> Recorded(j)] EXCEPT ![job.id] = @ \cup {e}]
  BY <1>1, <1>5, <1>6
<1>8. UNCHANGED <<[j \in Jobs |-> JobState(j)], attempts>>
  BY <1>3
<1>9. Abstract!Perform(job.id, e)
  BY <1>1, <1>2, <1>4, <1>7, <1>8 DEF Abstract!Perform, Recorded
<1>. QED BY <1>1, <1>9

\* Every step of proxy, workers, faults and clock is a step of the queue or
\* leaves the queue as it is.
LEMMA StepsAreQueueSteps == IInv /\ [Next]_vars => [Abstract!Next]_(Abstract!jvars)
<1> SUFFICES ASSUME IInv, [Next]_vars PROVE Abstract!Next \/ UNCHANGED Abstract!jvars
  OBVIOUS
<1>h. TypeOK /\ HandInv /\ BudgetInv /\ EffectsAtMostOnce /\ \A w \in Workers : WorkerInv(w)
  BY DEF IInv
<1>1. ASSUME NEW j \in Jobs, EnqueueExtractionJob(j) PROVE Abstract!Submit(j)
  <2>1. \A w \in Workers : InHand(w)' = InHand(w)
    BY <1>1 DEF EnqueueExtractionJob, InHand
  <2>2. /\ status[j] = "open" /\ status'[j] = "pending"
        /\ \A k \in Jobs \ {j} : status'[k] = status[k]
    BY <1>1, <1>h DEF EnqueueExtractionJob, TypeOK
  <2>3. JobState(j) = "new" /\ JobState(j)' = "waiting"
    BY <2>2, StateReads, StateReadsNext
  <2>4. \A k \in Jobs \ {j} : JobState(k)' = JobState(k)
    BY <2>1, <2>2, StateKept DEF Held
  <2>5. Abstract!Move({j}, "new", "waiting")
    BY <2>3, <2>4, MovesOf
  <2>. QED BY <1>1, <2>5 DEF EnqueueExtractionJob, Abstract!Submit
<1>2. ASSUME NEW j \in Jobs, EnqueueFails(j) PROVE UNCHANGED Abstract!jvars
  <2>1. \A w \in Workers : InHand(w)' = InHand(w)
    BY <1>2 DEF EnqueueFails, InHand
  <2>2. /\ status[j] = "open" /\ status'[j] = "dropped"
        /\ \A k \in Jobs \ {j} : status'[k] = status[k]
    BY <1>2, <1>h DEF EnqueueFails, TypeOK
  <2>3. JobState(j) = "new" /\ JobState(j)' = "new"
    BY <2>2, StateReads, StateReadsNext
  <2>4. \A k \in Jobs \ {j} : JobState(k)' = JobState(k)
    BY <2>1, <2>2, StateKept DEF Held
  <2>. QED BY <1>2, <2>3, <2>4, NoMove DEF EnqueueFails
<1>3. ASSUME NEW w \in Workers, ClaimDueJobs(w) PROVE \E S \in SUBSET Jobs : Abstract!Start(S)
  <2>1. PICK S \in Batches :
          /\ MarkClaimed(S)
          /\ claimed' = [claimed EXCEPT ![w] =
                           {[id |-> j, attempts |-> attempts[j] + 1] : j \in S}]
    BY <1>3 DEF ClaimDueJobs
  <2>2. S \subseteq Jobs /\ \A j \in S : status[j] = "pending"
    BY DEF Batches, DueJobs
  <2>3. current' = current /\ effects' = effects /\ InHand(w) = {}
    BY <1>3 DEF ClaimDueJobs, Polling, InHand
  <2>4. InHand(w)' = {[id |-> j, attempts |-> attempts[j] + 1] : j \in S}
    BY <2>1, <2>3, <1>h DEF InHand, TypeOK
  <2>5. \A v \in Workers \ {w} : InHand(v)' = InHand(v)
    BY <2>1, <2>3, <1>h DEF InHand, TypeOK
  <2>6. \A j \in S : JobState(j) = "waiting" /\ JobState(j)' = "running"
    <3>1. ASSUME NEW j \in S PROVE Held(j)' /\ status'[j] = "in_progress"
      <4>1. [id |-> j, attempts |-> attempts[j] + 1] \in InHand(w)'
        BY <2>4, <3>1
      <4>. QED BY <4>1, <2>1, <2>2 DEF Held, MarkClaimed
    <3>. QED BY <3>1, <2>2, StateReads, StateReadsNext
  <2>7. \A j \in Jobs \ S : JobState(j)' = JobState(j)
    <3>1. ASSUME NEW j \in Jobs \ S PROVE status'[j] = status[j] /\ (Held(j)' <=> Held(j))
      <4>1. \A job \in InHand(w)' : job.id # j
        BY <2>4
      <4>. QED BY <2>1, <2>3, <2>5, <4>1 DEF Held, MarkClaimed
    <3>. QED BY <3>1, StateKept
  <2>8. Abstract!Move(S, "waiting", "running")
    BY <2>2, <2>6, <2>7, MovesOf
  <2>9. \A j \in S : attempts[j] < AttemptBudget
    BY <2>2, <1>h DEF BudgetInv
  <2>. QED BY <2>1, <2>2, <2>3, <2>8, <2>9 DEF Abstract!Start, MarkClaimed
<1>4. ASSUME NEW w \in Workers, ClaimReplyLost(w)
      PROVE  \E S \in SUBSET Jobs : Abstract!StartAndLose(S)
  <2>1. PICK S \in Batches : MarkClaimed(S)
    BY <1>4 DEF ClaimReplyLost
  <2>2. S \subseteq Jobs /\ \A j \in S : status[j] = "pending"
    BY DEF Batches, DueJobs
  <2>3. effects' = effects /\ \A v \in Workers : InHand(v)' = InHand(v)
    BY <1>4 DEF ClaimReplyLost, InHand
  <2>4. \A j \in S : JobState(j) = "waiting" /\ JobState(j)' = "lost"
    <3>1. ASSUME NEW j \in S PROVE ~Held(j)' /\ status'[j] = "in_progress"
      BY <2>1, <2>2, <2>3, ClaimedRowsAreFree, <1>h DEF Held, MarkClaimed
    <3>. QED BY <3>1, <2>2, StateReads, StateReadsNext
  <2>5. \A j \in Jobs \ S : JobState(j)' = JobState(j)
    BY <2>1, <2>3, StateKept DEF Held, MarkClaimed
  <2>6. Abstract!Move(S, "waiting", "lost")
    BY <2>2, <2>4, <2>5, MovesOf
  <2>. QED BY <2>1, <2>2, <2>3, <2>6 DEF Abstract!StartAndLose, MarkClaimed
<1>5. ASSUME NEW w \in Workers, StartJob(w) PROVE UNCHANGED Abstract!jvars
  <2>1. PICK job \in claimed[w] :
          /\ claimed' = [claimed EXCEPT ![w] = @ \ {job}]
          /\ current' = [current EXCEPT ![w] = {job}]
    BY <1>5 DEF StartJob
  <2>2. \A v \in Workers : InHand(v)' = InHand(v)
    BY <1>5, <2>1, <1>h DEF StartJob, InHand, TypeOK
  <2>3. status' = status /\ attempts' = attempts /\ effects' = effects
    BY <1>5 DEF StartJob, rows
  <2>. QED BY <2>2, <2>3, StateKept, NoMove DEF Held
<1>6. ASSUME NEW w \in Workers, Extract(w)
      PROVE  (\E j \in Jobs, e \in Effects : Abstract!Perform(j, e)) \/ UNCHANGED Abstract!jvars
  <2>1. /\ status' = status /\ attempts' = attempts
        /\ \A v \in Workers : InHand(v)' = InHand(v)
    BY <1>6 DEF Extract, ExtractorErrs, ExtractorSkips, StoreFacts, UpsertWorkingMemory,
                MirrorTurnCount, InHand, rows
  <2>2. "facts" \in Effects /\ "summary" \in Effects /\ "mirror" \in Effects
    BY DEF Effects
  <2>3. CASE effects' = effects
    BY <2>1, <2>3, StateKept, NoMove DEF Held
  <2>4. CASE StoreFacts(w) /\ Apply(w, "facts")
    <3>1. \A job \in current[w] : effects[job.id]["facts"] = 0
      BY <2>2, <2>4, <1>h DEF StoreFacts, MoveTo, WorkerInv, Untouched
    <3>. QED BY <2>1, <2>2, <2>4, <3>1, AppliedIsPerformed
  <2>5. CASE UpsertWorkingMemory(w) /\ Apply(w, "summary")
    <3>1. \A job \in current[w] : effects[job.id]["summary"] = 0
      BY <2>5, <1>h DEF UpsertWorkingMemory, MoveTo, WorkerInv
    <3>. QED BY <2>1, <2>2, <2>5, <3>1, AppliedIsPerformed
  <2>6. CASE MirrorTurnCount(w) /\ Apply(w, "mirror")
    <3>1. \A job \in current[w] : effects[job.id]["mirror"] = 0
      BY <2>6, <1>h DEF MirrorTurnCount, MoveTo, WorkerInv
    <3>. QED BY <2>1, <2>2, <2>6, <3>1, AppliedIsPerformed
  <2>. QED
    BY <1>6, <2>3, <2>4, <2>5, <2>6
    DEF Extract, ExtractorErrs, ExtractorSkips, StoreFacts, UpsertWorkingMemory, MirrorTurnCount,
        ApplyOrWarn
<1>7. ASSUME NEW w \in Workers, FinishJob(w)
      PROVE  \E j \in Jobs : Abstract!Complete(j) \/ Abstract!Retry(j) \/ Abstract!GiveUp(j)
  <2>1. PICK job \in current[w] : WriteOutcome(w, job)
    BY <1>7 DEF FinishJob
  <2>2. job \in InHand(w)
    BY DEF InHand
  <2>3. job.id \in Jobs /\ status[job.id] = "in_progress" /\ JobState(job.id) = "running"
    BY <2>2, HeldRuns
  <2>4. attempts' = attempts /\ effects' = effects /\ claimed' = claimed
    BY <1>7 DEF FinishJob
  <2>5. \A k \in Jobs \ {job.id} : status'[k] = status[k]
    BY <2>1, <2>3, <1>h DEF WriteOutcome, MarkDone, MarkRetry, MarkFailed, TypeOK
  <2>6. \A k \in Jobs \ {job.id} : JobState(k)' = JobState(k)
    <3>1. current' = [current EXCEPT ![w] = {}] /\ \A other \in current[w] : other = job
      BY <1>7, <1>h DEF FinishJob, NextInBatch, WorkerInv
    <3>2. ASSUME NEW k \in Jobs \ {job.id} PROVE Held(k)' <=> Held(k)
      <4>1. \A v \in Workers : InHand(v)' \subseteq InHand(v)
        BY <2>4, <3>1, <1>h DEF InHand, TypeOK
      <4>2. \A v \in Workers : \A other \in InHand(v) : other.id = k => other \in InHand(v)'
        BY <2>4, <3>1, <1>h DEF InHand, TypeOK
      <4>. QED BY <4>1, <4>2 DEF Held
    <3>. QED BY <2>5, <3>2, StateKept
  <2>7. attempts[job.id] = job.attempts /\ job.attempts \in Nat /\ job.attempts <= AttemptBudget
    BY <2>2, <2>3, <1>h DEF HandInv, BudgetInv, TypeOK
  <2>8. phase[w] = "errored" => {e \in Effects : effects[job.id][e] > 0} = {}
    BY <1>h DEF WorkerInv, Untouched
  <2>9. CASE phase[w] = "succeeded" /\ MarkDone(job)
    <3>1. JobState(job.id)' = "done"
      BY <2>3, <2>9, <1>h, StateReadsNext DEF MarkDone, TypeOK, Settled
    <3>2. Abstract!Move({job.id}, "running", "done")
      BY <2>3, <2>6, <3>1, MovesOf
    <3>. QED BY <2>3, <2>4, <3>2 DEF Abstract!Complete
  <2>10. CASE phase[w] = "errored" /\ job.attempts < MaxAttempts /\ MarkRetry(job)
    <3>1. JobState(job.id)' = "waiting"
      BY <2>3, <2>10, <1>h, StateReadsNext DEF MarkRetry, TypeOK
    <3>2. Abstract!Move({job.id}, "running", "waiting")
      BY <2>3, <2>6, <3>1, MovesOf
    <3>3. attempts[job.id] < AttemptBudget
      BY <2>7, <2>10, MaxAttemptsAssumption DEF AttemptBudget
    <3>. QED BY <2>3, <2>4, <2>8, <2>10, <3>2, <3>3 DEF Abstract!Retry
  <2>11. CASE phase[w] = "errored" /\ job.attempts >= MaxAttempts /\ MarkFailed(job)
    <3>1. JobState(job.id)' = "failed"
      BY <2>3, <2>11, <1>h, StateReadsNext DEF MarkFailed, TypeOK, Settled
    <3>2. Abstract!Move({job.id}, "running", "failed")
      BY <2>3, <2>6, <3>1, MovesOf
    <3>3. job.attempts >= 1
      BY <2>2, <1>h DEF HandInv
    <3>4. attempts[job.id] = AttemptBudget
      BY <2>7, <2>11, <3>3, MaxAttemptsAssumption DEF AttemptBudget
    <3>. QED BY <2>3, <2>4, <2>8, <2>11, <3>2, <3>4 DEF Abstract!GiveUp
  <2>. QED BY <2>1, <2>9, <2>10, <2>11 DEF WriteOutcome
<1>8. ASSUME NEW w \in Workers, FinishFails(w) \/ Crash(w)
      PROVE  \E S \in SUBSET Jobs : Abstract!Lose(S)
  <2>1. /\ status' = status /\ attempts' = attempts /\ effects' = effects
        /\ \A v \in Workers : InHand(v)' \subseteq InHand(v)
    BY <1>8, <1>h DEF FinishFails, Crash, NextInBatch, InHand, TypeOK, rows
  <2> DEFINE S == {j \in Jobs : Held(j) /\ ~Held(j)'}
  <2>2. ASSUME NEW j \in S PROVE JobState(j) = "running" /\ JobState(j)' = "lost"
    <3>1. status[j] = "in_progress"
      BY HeldRuns DEF Held
    <3>. QED BY <2>1, <3>1, StateReads, StateReadsNext
  <2>3. ASSUME NEW j \in Jobs \ S PROVE JobState(j)' = JobState(j)
    <3>1. Held(j)' => Held(j)
      BY <2>1 DEF Held
    <3>. QED BY <2>1, <3>1, StateKept
  <2>4. Abstract!Move(S, "running", "lost")
    <3>1. S \in SUBSET Jobs
      OBVIOUS
    <3> HIDE DEF S
    <3>. QED BY <2>2, <2>3, <3>1, MovesOf
  <2>. QED BY <2>1, <2>4 DEF Abstract!Lose
<1>9. CASE Tick \/ UNCHANGED vars
  <2>1. /\ status' = status /\ attempts' = attempts /\ effects' = effects
        /\ \A v \in Workers : InHand(v)' = InHand(v)
    BY <1>9 DEF Tick, vars, InHand
  <2>. QED BY <2>1, StateKept, NoMove DEF Held
<1>. QED
  BY <1>1, <1>2, <1>3, <1>4, <1>5, <1>6, <1>7, <1>8, <1>9
  DEF Next, WorkerStep, WorkerFault, Abstract!Next

\* A table without rows is a queue without jobs.
LEMMA InitIsQueueInit == Init => Abstract!Init
<1> SUFFICES ASSUME Init PROVE Abstract!Init
  OBVIOUS
<1>1. \A j \in Jobs : JobState(j) = "new"
  BY StateReads DEF Init
<1>2. \A j \in Jobs : {e \in Effects : effects[j][e] > 0} = {}
  BY DEF Init
<1>. QED BY <1>1, <1>2 DEF Init, Abstract!Init

\* The outbox implements JobQueue whatever the number of jobs, workers,
\* attempts and faults: claims, retries, crashes and lost calls are steps the
\* queue allows.
THEOREM OutboxIsAQueue == Spec => ImplementsJobQueue
BY InitIsQueueInit, StepsAreQueueSteps, Inductive, PTL DEF Spec, ImplementsJobQueue, Abstract!Spec

-----------------------------------------------------------------------------
(***************************************************************************)
(* Losses are counted: what one worker holds came from one claim, and a    *)
(* fault loses at most what one worker holds or one claim took.            *)
(***************************************************************************)

HeldRows(w) == {j \in Jobs : \E job \in InHand(w) : job.id = j}

LostRows == {j \in Jobs : Lost(j)}

\* Nobody ever holds more than one batch.
BatchInv == \A w \in Workers : Cardinality(HeldRows(w)) <= CLAIM_BATCH_SIZE

LossInv == BatchInv /\ LossesAreFaults

\* A set of rows is finite, and a part of it is no larger.
LEMMA RowsAreFinite ==
  ASSUME NEW S \in SUBSET Jobs, NEW T \in SUBSET S
  PROVE  /\ IsFiniteSet(S) /\ Cardinality(S) \in Nat
         /\ IsFiniteSet(T) /\ Cardinality(T) \in Nat /\ Cardinality(T) <= Cardinality(S)
<1>1. IsFiniteSet(S) /\ Cardinality(S) \in Nat
  BY JobsAssumption, FS_Subset, FS_CardinalityType
<1>. QED BY <1>1, FS_Subset, FS_CardinalityType

\* A claim takes one batch at most.
LEMMA BatchesAreSmall ==
  ASSUME NEW S \in Batches
  PROVE  S \in SUBSET Jobs /\ Cardinality(S) <= CLAIM_BATCH_SIZE
BY BatchAssumption DEF Batches, DueJobs

\* One more fault pays for one more batch.
LEMMA OneMoreBatch ==
  ASSUME NEW f \in Nat, NEW c \in Nat
  PROVE  f * c \in Nat /\ (f + 1) * c = f * c + c
OBVIOUS

\* If the rows lost by a step are among those of one batch, and the step is a
\* fault, the bound still holds.
LEMMA OneBatchLost ==
  ASSUME TypeOK, LossesAreFaults, faults' = faults + 1,
         NEW S \in SUBSET Jobs, Cardinality(S) <= CLAIM_BATCH_SIZE,
         LostRows' \subseteq LostRows \cup S
  PROVE  LossesAreFaults'
<1>1. LostRows \in SUBSET Jobs /\ LostRows' \in SUBSET Jobs
  BY DEF LostRows
<1>2. IsFiniteSet(LostRows) /\ IsFiniteSet(S) /\ Cardinality(LostRows) \in Nat /\ Cardinality(S) \in Nat
  BY <1>1, RowsAreFinite
<1>3. LostRows \cup S \in SUBSET Jobs /\ LostRows' \in SUBSET (LostRows \cup S)
  BY <1>1
<1>4. /\ Cardinality(LostRows') \in Nat /\ Cardinality(LostRows \cup S) \in Nat
      /\ Cardinality(LostRows') <= Cardinality(LostRows \cup S)
  BY <1>3, RowsAreFinite
<1>5. Cardinality(LostRows \cup S) <= Cardinality(LostRows) + Cardinality(S)
  <2>1. LostRows \cap S \in SUBSET LostRows
    OBVIOUS
  <2>2. Cardinality(LostRows \cap S) \in Nat
    BY <2>1, <1>1, RowsAreFinite
  <2>3. Cardinality(LostRows \cup S)
          = Cardinality(LostRows) + Cardinality(S) - Cardinality(LostRows \cap S)
    BY <1>2, FS_Union
  <2>. QED BY <1>2, <2>2, <2>3
<1>6. Cardinality(LostRows) <= faults * CLAIM_BATCH_SIZE
  BY DEF LossesAreFaults, LostRows
<1>7. /\ faults * CLAIM_BATCH_SIZE \in Nat
      /\ faults' * CLAIM_BATCH_SIZE = faults * CLAIM_BATCH_SIZE + CLAIM_BATCH_SIZE
  BY OneMoreBatch, BatchAssumption, BoundsAssumption DEF TypeOK
<1>8. Cardinality(LostRows') <= faults' * CLAIM_BATCH_SIZE
  BY <1>2, <1>4, <1>5, <1>6, <1>7, BatchAssumption
<1>. QED BY <1>8 DEF LossesAreFaults, LostRows

\* If a step loses nothing and is no fault, the bound still holds.
LEMMA NothingLost ==
  ASSUME TypeOK, LossesAreFaults, LostRows' \subseteq LostRows, faults' = faults
  PROVE  LossesAreFaults'
<1>1. LostRows \in SUBSET Jobs /\ LostRows' \in SUBSET LostRows
  BY DEF LostRows
<1>2. Cardinality(LostRows') <= Cardinality(LostRows) /\ Cardinality(LostRows') \in Nat
      /\ Cardinality(LostRows) \in Nat
  BY <1>1, RowsAreFinite
<1>3. Cardinality(LostRows) <= faults * CLAIM_BATCH_SIZE
  BY DEF LossesAreFaults, LostRows
<1>4. Cardinality(LostRows') <= faults' * CLAIM_BATCH_SIZE
  BY <1>2, <1>3, OneMoreBatch, BatchAssumption, BoundsAssumption DEF TypeOK
<1>. QED BY <1>4 DEF LossesAreFaults, LostRows

\* An empty batch loses nothing.
LEMMA EmptyBatch == {} \in SUBSET Jobs /\ Cardinality({}) <= CLAIM_BATCH_SIZE
BY FS_EmptySet, BatchAssumption

\* A claim fills an empty pair of hands with one batch; every other step keeps
\* what is held or holds less.
LEMMA BatchStep == IInv /\ BatchInv /\ [Next]_vars => BatchInv'
<1> SUFFICES ASSUME IInv, BatchInv, [Next]_vars, NEW v \in Workers
             PROVE  Cardinality(HeldRows(v))' <= CLAIM_BATCH_SIZE
  BY DEF BatchInv
<1>h. TypeOK /\ Cardinality(HeldRows(v)) <= CLAIM_BATCH_SIZE
  BY DEF IInv, BatchInv
<1>s. ASSUME InHand(v)' \subseteq InHand(v)
      PROVE  Cardinality(HeldRows(v))' <= CLAIM_BATCH_SIZE
  <2>1. HeldRows(v)' \in SUBSET HeldRows(v) /\ HeldRows(v) \in SUBSET Jobs
    BY <1>s DEF HeldRows
  <2>2. /\ Cardinality(HeldRows(v)') <= Cardinality(HeldRows(v))
        /\ Cardinality(HeldRows(v)') \in Nat /\ Cardinality(HeldRows(v)) \in Nat
    BY <2>1, RowsAreFinite
  <2>. QED BY <2>2, <1>h, BatchAssumption
<1>1. ASSUME NEW j \in Jobs, EnqueueExtractionJob(j) \/ EnqueueFails(j)
      PROVE  InHand(v)' \subseteq InHand(v)
  BY <1>1 DEF EnqueueExtractionJob, EnqueueFails, InHand
<1>2. ASSUME NEW w \in Workers, ClaimDueJobs(w)
      PROVE  Cardinality(HeldRows(v))' <= CLAIM_BATCH_SIZE
  <2>1. PICK S \in Batches :
          claimed' = [claimed EXCEPT ![w] = {[id |-> j, attempts |-> attempts[j] + 1] : j \in S}]
    BY <1>2 DEF ClaimDueJobs
  <2>2. S \in SUBSET Jobs /\ Cardinality(S) <= CLAIM_BATCH_SIZE
    BY BatchesAreSmall
  <2>3. CASE v = w
    <3>1. InHand(v)' = {[id |-> j, attempts |-> attempts[j] + 1] : j \in S}
      BY <1>2, <2>1, <2>3, <1>h DEF ClaimDueJobs, Polling, InHand, TypeOK
    <3>2. \A j \in S : \E job \in InHand(v)' : job.id = j
      <4> TAKE j \in S
      <4>1. [id |-> j, attempts |-> attempts[j] + 1] \in InHand(v)'
        BY <3>1
      <4> QED BY <4>1
    <3>3. \A job \in InHand(v)' : job.id \in S
      BY <3>1
    <3>4. HeldRows(v)' = {j \in Jobs : \E job \in InHand(v)' : job.id = j}
      BY DEF HeldRows
    <3>5. HeldRows(v)' = S
      BY <2>2, <3>2, <3>3, <3>4
    <3>. QED BY <2>2, <3>5
  <2>4. CASE v # w
    BY <1>2, <1>s, <2>1, <2>4, <1>h DEF ClaimDueJobs, InHand, TypeOK
  <2>. QED BY <2>3, <2>4
<1>3. ASSUME NEW w \in Workers, ClaimReplyLost(w) PROVE InHand(v)' \subseteq InHand(v)
  BY <1>3 DEF ClaimReplyLost, InHand
<1>4. ASSUME NEW w \in Workers, StartJob(w) \/ FinishJob(w) \/ FinishFails(w) \/ Crash(w)
      PROVE  InHand(v)' \subseteq InHand(v)
  BY <1>4, <1>h DEF StartJob, FinishJob, FinishFails, Crash, NextInBatch, InHand, TypeOK
<1>5. ASSUME NEW w \in Workers, Extract(w) PROVE InHand(v)' \subseteq InHand(v)
  BY <1>5 DEF Extract, ExtractorErrs, ExtractorSkips, StoreFacts, UpsertWorkingMemory,
              MirrorTurnCount, InHand
<1>6. CASE Tick \/ UNCHANGED vars
  BY <1>s, <1>6 DEF Tick, vars, InHand
<1>. QED
  BY <1>s, <1>1, <1>2, <1>3, <1>4, <1>5, <1>6 DEF Next, WorkerStep, WorkerFault

\* A step loses the rows of one batch, and then it is a fault, or none.
LEMMA LossStep == IInv /\ LossInv /\ [Next]_vars => LossesAreFaults'
<1> SUFFICES ASSUME IInv, BatchInv, LossesAreFaults, [Next]_vars PROVE LossesAreFaults'
  BY DEF LossInv
<1>h. TypeOK /\ HandInv /\ \A w \in Workers : WorkerInv(w)
  BY DEF IInv
<1>e. {} \in SUBSET Jobs /\ Cardinality({}) <= CLAIM_BATCH_SIZE
  BY EmptyBatch
<1>1. ASSUME NEW j \in Jobs, EnqueueExtractionJob(j) \/ EnqueueFails(j) PROVE LossesAreFaults'
  <2>1. LostRows' \subseteq LostRows
    BY <1>1, <1>h DEF EnqueueExtractionJob, EnqueueFails, LostRows, Lost, InHand, TypeOK
  <2>2. faults' = faults \/ faults' = faults + 1
    BY <1>1 DEF EnqueueExtractionJob, EnqueueFails, Fault
  <2>. QED BY <2>1, <2>2, <1>h, <1>e, NothingLost, OneBatchLost
<1>2. ASSUME NEW w \in Workers, ClaimDueJobs(w) PROVE LossesAreFaults'
  <2>1. PICK S \in Batches :
          /\ MarkClaimed(S)
          /\ claimed' = [claimed EXCEPT ![w] = {[id |-> j, attempts |-> attempts[j] + 1] : j \in S}]
    BY <1>2 DEF ClaimDueJobs
  <2>2. \A j \in S : \E job \in InHand(w)' : job.id = j
    <3>1. InHand(w)' = claimed'[w] \cup current'[w]
      BY DEF InHand
    <3> TAKE j \in S
    <3>2. [id |-> j, attempts |-> attempts[j] + 1] \in InHand(w)'
      BY <2>1, <3>1, <1>h DEF TypeOK
    <3> QED BY <3>2
  <2>3. InHand(w) = {} /\ \A v \in Workers : InHand(v) \subseteq InHand(v)'
    BY <1>2, <2>1, <1>h DEF ClaimDueJobs, Polling, InHand, TypeOK
  <2>4. \A j \in Jobs \ S : status'[j] = status[j]
    BY <2>1 DEF MarkClaimed
  <2>5. LostRows' \subseteq LostRows
    BY <2>2, <2>3, <2>4 DEF LostRows, Lost
  <2>6. faults' = faults
    BY <1>2 DEF ClaimDueJobs
  <2>. QED BY <2>5, <2>6, <1>h, NothingLost
<1>3. ASSUME NEW w \in Workers, ClaimReplyLost(w) PROVE LossesAreFaults'
  <2>1. PICK S \in Batches : MarkClaimed(S)
    BY <1>3 DEF ClaimReplyLost
  <2>2. \A v \in Workers : InHand(v)' = InHand(v)
    BY <1>3 DEF ClaimReplyLost, InHand
  <2>3. \A j \in Jobs \ S : status'[j] = status[j]
    BY <2>1 DEF MarkClaimed
  <2>4. LostRows' \subseteq LostRows \cup S
    BY <2>2, <2>3 DEF LostRows, Lost
  <2>5. faults' = faults + 1
    BY <1>3 DEF ClaimReplyLost, Fault
  <2>. QED BY <2>4, <2>5, <1>h, BatchesAreSmall, OneBatchLost
<1>4. ASSUME NEW w \in Workers, StartJob(w) PROVE LossesAreFaults'
  <2>1. status' = status /\ \A v \in Workers : InHand(v)' = InHand(v)
    BY <1>4, <1>h DEF StartJob, InHand, TypeOK, rows
  <2>2. LostRows' \subseteq LostRows /\ faults' = faults
    BY <1>4, <2>1 DEF StartJob, LostRows, Lost
  <2>. QED BY <2>2, <1>h, NothingLost
<1>5. ASSUME NEW w \in Workers, Extract(w) PROVE LossesAreFaults'
  <2>1. status' = status /\ faults' = faults /\ \A v \in Workers : InHand(v)' = InHand(v)
    BY <1>5 DEF Extract, ExtractorErrs, ExtractorSkips, StoreFacts, UpsertWorkingMemory,
                MirrorTurnCount, InHand, rows
  <2>2. LostRows' \subseteq LostRows
    BY <2>1 DEF LostRows, Lost
  <2>. QED BY <2>1, <2>2, <1>h, NothingLost
<1>6. ASSUME NEW w \in Workers, FinishJob(w) PROVE LossesAreFaults'
  <2>1. PICK job \in current[w] : WriteOutcome(w, job)
    BY <1>6 DEF FinishJob
  <2>2. job.id \in Jobs
    BY <1>h DEF TypeOK, ExtractionJob
  <2>3. status'[job.id] # "in_progress" /\ \A k \in Jobs : k # job.id => status'[k] = status[k]
    BY <2>1, <2>2, <1>h DEF WriteOutcome, MarkDone, MarkRetry, MarkFailed, TypeOK
  <2>4. \A v \in Workers : \A other \in InHand(v) : other.id # job.id => other \in InHand(v)'
    <3>1. claimed' = claimed /\ current' = [current EXCEPT ![w] = {}]
      BY <1>6 DEF FinishJob, NextInBatch
    <3>2. \A other \in current[w] : other = job
      BY <1>h DEF WorkerInv
    <3>. QED BY <3>1, <3>2, <1>h DEF InHand, TypeOK
  <2>5. LostRows' \subseteq LostRows /\ faults' = faults
    BY <1>6, <2>3, <2>4 DEF FinishJob, LostRows, Lost
  <2>. QED BY <2>5, <1>h, NothingLost
<1>7. ASSUME NEW w \in Workers, FinishFails(w) \/ Crash(w) PROVE LossesAreFaults'
  <2>1. status' = status /\ faults' = faults + 1
    BY <1>7 DEF FinishFails, Crash, Fault, rows
  <2>2. \A v \in Workers : v # w => InHand(v)' = InHand(v)
    BY <1>7, <1>h DEF FinishFails, Crash, NextInBatch, InHand, TypeOK
  <2>3. LostRows' \subseteq LostRows \cup HeldRows(w)
    BY <2>1, <2>2 DEF LostRows, Lost, HeldRows
  <2>4. HeldRows(w) \in SUBSET Jobs /\ Cardinality(HeldRows(w)) <= CLAIM_BATCH_SIZE
    BY DEF BatchInv, HeldRows
  <2>. QED BY <2>1, <2>3, <2>4, <1>h, OneBatchLost
<1>8. CASE Tick \/ UNCHANGED vars
  <2>1. status' = status /\ faults' = faults /\ \A v \in Workers : InHand(v)' = InHand(v)
    BY <1>8 DEF Tick, vars, InHand
  <2>2. LostRows' \subseteq LostRows
    BY <2>1 DEF LostRows, Lost
  <2>. QED BY <2>1, <2>2, <1>h, NothingLost
<1>. QED
  BY <1>1, <1>2, <1>3, <1>4, <1>5, <1>6, <1>7, <1>8 DEF Next, WorkerStep, WorkerFault

\* Nothing is held or lost when the table is empty.
LEMMA LossInit == Init => LossInv
<1> SUFFICES ASSUME Init PROVE LossInv
  OBVIOUS
<1>1. \A w \in Workers : HeldRows(w) = {}
  BY DEF Init, HeldRows, InHand
<1>2. {j \in Jobs : Lost(j)} = {}
  BY DEF Init, Lost
<1>3. faults * CLAIM_BATCH_SIZE = 0
  BY BatchAssumption DEF Init
<1>. QED BY <1>1, <1>2, <1>3, EmptyBatch, FS_EmptySet DEF LossInv, BatchInv, LossesAreFaults

\* A worker never holds more than one batch, and every claimed row that nobody
\* holds is paid for by a fault, one batch each, whatever crashes and however
\* many workers poll: the outbox itself loses no turn.
THEOREM LossesAreCounted == Spec => []LossesAreFaults
<1>1. IInv /\ LossInv /\ [Next]_vars => LossInv'
  BY BatchStep, LossStep DEF LossInv
<1>2. LossInv => LossesAreFaults
  BY DEF LossInv
<1>. QED BY LossInit, <1>1, <1>2, Inductive, PTL DEF Spec
=============================================================================
