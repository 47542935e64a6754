---------------------------- MODULE RateLimiter ----------------------------
(***************************************************************************)
(* The token buckets of src/rate_limit.rs, one per agent, under the        *)
(* threads that serve requests.  Time is counted in ticks of one token, so *)
(* the refill rate is 1; a disabled limiter (rpm = 0) admits everything    *)
(* and is left out.                                                        *)
(*                                                                         *)
(* check_and_consume reads the clock once, may sweep idle buckets, and     *)
(* only then takes the lock of its bucket: another thread may have used,   *)
(* swept or created the bucket with a later reading in between.            *)
(***************************************************************************)
EXTENDS Integers, FiniteSets

CONSTANTS Agents, Threads,
          Burst,          \* RATE_LIMIT_BURST
          IdleTTL,        \* idle_ttl, in ticks
          SweepInterval,  \* sweep_interval_for(idle_ttl), in ticks
          MaxScan,        \* MAX_SWEEP_SCAN
          NoBucket,
          Horizon         \* bound: the last tick of the clock

ASSUME LimiterAssumption ==
  /\ Burst \in Nat \ {0} /\ IdleTTL \in Nat /\ SweepInterval \in Nat /\ MaxScan \in Nat
  /\ SweepInterval <= IdleTTL /\ Horizon \in Nat
  /\ NoBucket \notin [tokens : 0..Burst, last : Nat]

VARIABLES time,      \* the monotonic clock
          buckets,   \* bucket of each agent
          lastSweep, \* clock reading of the last sweep
          calls,     \* check_and_consume of each thread
          admitted,  \* history: calls of an agent answered true
          refused,   \* history: agents some call of which was answered false
          late,      \* history: how long readings of an agent's calls waited for their bucket
          forgiven   \* history: what sweeps may have given an agent beyond its refill

limiterVars == <<time, buckets, lastSweep, calls, admitted, refused, late, forgiven>>

Bucket == [tokens : 0..Burst, last : Nat]

Idle == [pc |-> "idle"]

Call == {Idle} \cup [pc : {"read", "swept"}, agent : Agents, now : Nat]
               \cup [pc : {"sweeping"}, agent : Agents, now : Nat, stale : SUBSET Agents]

Live == {a \in Agents : buckets[a] # NoBucket}

LimiterInit ==
  /\ time = 0 /\ lastSweep = 0
  /\ buckets = [a \in Agents |-> NoBucket]
  /\ calls = [t \in Threads |-> Idle]
  /\ admitted = [a \in Agents |-> 0] /\ refused = {}
  /\ late = [a \in Agents |-> 0] /\ forgiven = [a \in Agents |-> 0]

Tick ==
  /\ time < Horizon
  /\ time' = time + 1
  /\ UNCHANGED <<buckets, lastSweep, calls, admitted, refused, late, forgiven>>

\* let now = Instant::now()
ReadClock(t) ==
  \E a \in Agents :
    /\ calls[t] = Idle
    /\ calls' = [calls EXCEPT ![t] = [pc |-> "read", agent |-> a, now |-> time]]
    /\ UNCHANGED <<time, buckets, lastSweep, admitted, refused, late, forgiven>>

------------------------------------------------------------------------------
(* evict_stale_buckets *)

\* saturating_duration_since
Since(now, earlier) == IF now > earlier THEN now - earlier ELSE 0

IsStale(now, bucket) == Since(now, bucket.last) >= IdleTTL

LockHeld == \E t \in Threads : calls[t].pc = "sweeping"

SweepDue(now) == Live # {} /\ ~LockHeld /\ Since(now, lastSweep) >= SweepInterval

\* No buckets, the lock held by another thread, or the last sweep too recent.
SkipSweep(t) ==
  /\ calls[t].pc = "read" /\ ~SweepDue(calls[t].now)
  /\ calls' = [calls EXCEPT ![t].pc = "swept"]
  /\ UNCHANGED <<time, buckets, lastSweep, admitted, refused, late, forgiven>>

\* The first MAX_SWEEP_SCAN entries, in the order of the map, and the stale among them.
CollectStale(t) ==
  /\ calls[t].pc = "read" /\ SweepDue(calls[t].now)
  /\ lastSweep' = calls[t].now
  /\ \E scanned \in SUBSET Live :
       /\ Cardinality(scanned) = IF Cardinality(Live) < MaxScan THEN Cardinality(Live) ELSE MaxScan
       /\ calls' = [calls EXCEPT ![t] =
            [pc |-> "sweeping", agent |-> calls[t].agent, now |-> calls[t].now,
             stale |-> {a \in scanned : IsStale(calls[t].now, buckets[a])}]]
  /\ UNCHANGED <<time, buckets, admitted, refused, late, forgiven>>

\* remove_if looks at the bucket again, under its lock.
StillStale(now, a) == buckets[a] # NoBucket /\ IsStale(now, buckets[a])

\* Mutation: the collected keys are removed without another look.
WasStale(now, a) == buckets[a] # NoBucket

RemoveIf(now, a) == StillStale(now, a)

\* An idle bucket has refilled IdleTTL tokens, a new one holds Burst.
Forgiveness == IF Burst > IdleTTL THEN Burst - IdleTTL ELSE 0

EvictBucket(t) ==
  /\ calls[t].pc = "sweeping"
  /\ \E a \in calls[t].stale :
       LET removed == RemoveIf(calls[t].now, a)
       IN /\ calls' = [calls EXCEPT ![t].stale = @ \ {a}]
          /\ buckets' = [buckets EXCEPT ![a] = IF removed THEN NoBucket ELSE @]
          /\ forgiven' = [forgiven EXCEPT ![a] = IF removed THEN @ + Forgiveness ELSE @]
  /\ UNCHANGED <<time, lastSweep, admitted, refused, late>>

EndSweep(t) ==
  /\ calls[t].pc = "sweeping" /\ calls[t].stale = {}
  /\ calls' = [calls EXCEPT ![t] = [pc |-> "swept", agent |-> calls[t].agent, now |-> calls[t].now]]
  /\ UNCHANGED <<time, buckets, lastSweep, admitted, refused, late, forgiven>>

------------------------------------------------------------------------------
(* The bucket, under its lock *)

NewBucket(now) == [tokens |-> Burst, last |-> now]

\* Mutation: a new bucket starts with one token.
NewBucketOfOne(now) == [tokens |-> 1, last |-> now]

Create(now) == NewBucket(now)

Refill(bucket, now) ==
  LET sum == bucket.tokens + Since(now, bucket.last)
  IN [tokens |-> IF sum < Burst THEN sum ELSE Burst, last |-> now]

Consume(t) ==
  /\ calls[t].pc = "swept"
  /\ LET a == calls[t].agent
         now == calls[t].now
         entry == Refill(IF buckets[a] = NoBucket THEN Create(now) ELSE buckets[a], now)
         ok == entry.tokens >= 1
     IN /\ buckets' = [buckets EXCEPT ![a] =
             [tokens |-> IF ok THEN entry.tokens - 1 ELSE entry.tokens, last |-> now]]
        /\ admitted' = [admitted EXCEPT ![a] = IF ok THEN @ + 1 ELSE @]
        /\ refused' = IF ok THEN refused ELSE refused \cup {a}
        /\ late' = [late EXCEPT ![a] = @ + (time - now)]
  /\ calls' = [calls EXCEPT ![t] = Idle]
  /\ UNCHANGED <<time, lastSweep, forgiven>>

CheckAndConsume(t) ==
  \/ ReadClock(t) \/ SkipSweep(t) \/ CollectStale(t) \/ EvictBucket(t) \/ EndSweep(t) \/ Consume(t)

LimiterNext == Tick \/ \E t \in Threads : CheckAndConsume(t)

LimiterSpec == LimiterInit /\ [][LimiterNext]_limiterVars

------------------------------------------------------------------------------
(* Properties *)

\* Buckets stay within the burst, no clock reading is from the future, and one
\* thread sweeps at a time.
LimiterTypeOK ==
  /\ time \in Nat /\ lastSweep \in 0..time
  /\ buckets \in [Agents -> Bucket \cup {NoBucket}]
  /\ \A a \in Live : buckets[a].last <= time
  /\ calls \in [Threads -> Call]
  /\ \A t \in Threads : calls[t] # Idle => calls[t].now <= time
  /\ \A t, u \in Threads : calls[t].pc = "sweeping" /\ calls[u].pc = "sweeping" => t = u
  /\ admitted \in [Agents -> Nat] /\ refused \subseteq Agents
  /\ late \in [Agents -> Nat] /\ forgiven \in [Agents -> Nat]

\* An agent is never admitted more often than its burst and the refill since the
\* start allow, but for two things: readings of the clock that waited for the bucket
\* while others used it, which may credit their wait again, and sweeps, each of
\* which gives at most what idle_ttl leaves of the burst.
WithinQuota ==
  \A a \in Agents : admitted[a] <= Burst + time + late[a] + forgiven[a]

\* Whatever the sweep and the other threads do, an agent is not refused before it has
\* had its burst.
NobodyRefusedEarly ==
  \A a \in refused : admitted[a] >= Burst

\* What the comment in evict_stale_buckets says, that evicting an idle bucket does not
\* weaken rate limiting; it does where IdleTTL < Burst.
EvictionIsNeutral ==
  \A a \in Agents : admitted[a] <= Burst + time + late[a]

\* Elapsed time is refilled once; not so after a reading that waited for its bucket,
\* which sets last_refill back.
RefilledOnce ==
  \A a \in Agents : admitted[a] <= Burst + time + forgiven[a]
=============================================================================
