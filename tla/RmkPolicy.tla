------------------------------- MODULE RmkPolicy -------------------------------
(***************************************************************************)
(* The retrieval policies of one agent: turns are answered under the       *)
(* policy that serves and log an episode with its reward, feedback changes *)
(* rewards afterwards, and a worker hill-climbs.  Once per cycle it judges *)
(* the serving policy against its predecessor, rejects it if its mean      *)
(* reward regressed, and inserts a candidate that serves from then on.     *)
(*                                                                         *)
(* Each query of update_policy_for_agent is a step of its own; there is no *)
(* transaction and no lock, and every process that runs workers runs one.  *)
(* A policy vector is abstracted to the policy it was perturbed from, and  *)
(* a reward to 0 or 1.  Ids are numbered in order of created_at.           *)
(*                                                                         *)
(* Two history variables, answered and overtaken, let the properties say   *)
(* what a worker cannot help: what others rejected during its own cycle.   *)
(***************************************************************************)
EXTENDS Integers, FiniteSets

CONSTANTS
  Workers,                \* processes that run the policy-update job
  Turns,                  \* turns in flight
  MinEpisodes,            \* RMK_MIN_EPISODES: episodes before the first policy
  MIN_EPISODES_PER_POLICY,
  MaxPolicies,            \* bound: policies inserted
  MaxEpisodes,            \* bound: episodes logged
  MaxFeedback,            \* bound: aggregation passes that change a reward
  MaxFaults               \* bound: failing queries and crashes

ASSUME ThresholdAssumption == MinEpisodes \in Nat /\ MIN_EPISODES_PER_POLICY \in Nat \ {0}
ASSUME BoundsAssumption ==
  /\ MaxPolicies \in Nat /\ MaxEpisodes \in Nat
  /\ MaxFeedback \in Nat /\ MaxFaults \in Nat
ASSUME TurnsAssumption == IsFiniteSet(Turns)

VARIABLES
  created,     \* number of rows of rmk_policies: their ids are 1..created
  status,      \* rmk_policies.status
  base,        \* the policy whose vector it was perturbed from, Defaults for a seed
  episodes,    \* number of rows of rmk_episodes, those without a policy included
  n, total,    \* per policy: number of its episodes and sum of their rewards
  turn,        \* per turn in flight: the policy it is answered under
  pc,          \* per worker: the next query of update_policy_for_agent
  current, previous,    \* per worker: current_id and prev_id
  perf,        \* per worker: count and sum of rewards read for current
  from,        \* per worker: base_params
  answered,    \* history, per policy: turns begun under it and not dropped
  overtaken,   \* history, per worker: policies that others rejected since it loaded its own
  feedback, faults

policies == <<created, status, base>>
log == <<episodes, n, total>>
conversations == <<turn, answered>>
worker == <<pc, current, previous, perf, from, overtaken>>
bounds == <<feedback, faults>>
vars == <<policies, log, conversations, worker, bounds>>

Ids == 1..MaxPolicies
Defaults == 0      \* PolicyParams::default(), and the id of no policy
NoTurn == -1
Queries == {"count", "serving", "seed", "mean", "predecessor", "compare", "reject", "insert"}

Init ==
  /\ created = 0
  /\ status = [p \in Ids |-> "none"]
  /\ base = [p \in Ids |-> Defaults]
  /\ episodes = 0
  /\ n = [p \in Ids |-> 0]
  /\ total = [p \in Ids |-> 0]
  /\ turn = [t \in Turns |-> NoTurn]
  /\ pc = [w \in Workers |-> "count"]
  /\ current = [w \in Workers |-> Defaults]
  /\ previous = [w \in Workers |-> Defaults]
  /\ perf = [w \in Workers |-> [n |-> 0, total |-> 0]]
  /\ from = [w \in Workers |-> Defaults]
  /\ answered = [p \in Ids |-> 0]
  /\ overtaken = [w \in Workers |-> {}]
  /\ feedback = 0
  /\ faults = 0

InFlight(p) == {t \in Turns : turn[t] = p}

Accepted == {p \in Ids : status[p] = "accepted"}

\* ORDER BY created_at DESC LIMIT 1: no row or one.
Newest(S) == {p \in S : \A q \in S : q <= p}

\* get_latest_policy
Serving == Newest(Accepted)

\* Mutation: rejected policies are not left out.
PreviousOfAnyStatus(p) == Newest({q \in Ids : status[q] # "none"} \ {p})

\* get_previous_accepted_policy: the newest accepted one other than p.
PreviousAccepted(p) == Newest(Accepted \ {p})

(***************************************************************************)
(* The proxy: one episode per answered turn, logged in the background.     *)
(***************************************************************************)

\* The turn's policy, Defaults and NoTurn having no row.
Answering(t, d) ==
  answered' = [p \in Ids |-> IF p = turn'[t] \/ p = turn[t] THEN answered[p] + d ELSE answered[p]]

\* A failing get_latest_policy falls back to the static configuration.
BeginTurn(t) ==
  /\ turn[t] = NoTurn
  /\ \E p \in Serving \cup {Defaults} : turn' = [turn EXCEPT ![t] = p]
  /\ Answering(t, 1)
  /\ UNCHANGED <<policies, log, worker, bounds>>

\* insert_episode for policy p, Defaults if the turn had none.
InsertEpisode(p) ==
  /\ episodes < MaxEpisodes
  /\ episodes' = episodes + 1
  /\ IF p = Defaults THEN UNCHANGED <<n, total>>
     ELSE /\ n' = [n EXCEPT ![p] = @ + 1]
          /\ \E r \in {0, 1} : total' = [total EXCEPT ![p] = @ + r]

\* Mutation: the episode is credited to the policy that serves by now.
LogEpisodeToServing(t) ==
  /\ turn[t] # NoTurn
  /\ \E p \in IF Serving = {} THEN {Defaults} ELSE Serving : InsertEpisode(p)
  /\ turn' = [turn EXCEPT ![t] = NoTurn]
  /\ UNCHANGED <<policies, answered, worker, bounds>>

LogEpisode(t) ==
  /\ turn[t] # NoTurn
  /\ InsertEpisode(turn[t])
  /\ turn' = [turn EXCEPT ![t] = NoTurn]
  /\ UNCHANGED <<policies, answered, worker, bounds>>

\* The upstream is unreachable, the process dies, or the INSERT fails.
DropEpisode(t) ==
  /\ turn[t] # NoTurn
  /\ turn' = [turn EXCEPT ![t] = NoTurn]
  /\ Answering(t, -1)
  /\ UNCHANGED <<policies, log, worker, bounds>>

\* aggregate_task_success recomputes rewards of episodes logged already; a pass
\* that reaches the episodes of several policies is several of these steps.
AggregateFeedback(p) ==
  /\ feedback < MaxFeedback
  /\ feedback' = feedback + 1
  /\ \E s \in 0..n[p] : total' = [total EXCEPT ![p] = s]
  /\ UNCHANGED <<policies, episodes, n, conversations, worker, faults>>

(***************************************************************************)
(* update_policy_for_agent.                                                *)
(***************************************************************************)

Advance(w, next) == pc' = [pc EXCEPT ![w] = next]

CountEpisodes(w) ==
  /\ pc[w] = "count"
  /\ episodes >= MinEpisodes
  /\ Advance(w, "serving")
  /\ UNCHANGED <<policies, log, conversations, current, previous, perf, from, overtaken, bounds>>

LoadServing(w) ==
  /\ pc[w] = "serving"
  /\ \/ /\ Serving = {}
        /\ Advance(w, "seed")
        /\ UNCHANGED <<current, from>>
     \/ \E p \in Serving :
          /\ Advance(w, "mean")
          /\ current' = [current EXCEPT ![w] = p]
          /\ from' = [from EXCEPT ![w] = p]
  /\ UNCHANGED <<policies, log, conversations, previous, perf, overtaken, bounds>>

\* insert_policy: status defaults to 'accepted'.
InsertPolicy(b) ==
  /\ created < MaxPolicies
  /\ created' = created + 1
  /\ status' = [status EXCEPT ![created + 1] = "accepted"]
  /\ base' = [base EXCEPT ![created + 1] = b]

EndCycle(w) ==
  /\ pc' = [pc EXCEPT ![w] = "count"]
  /\ current' = [current EXCEPT ![w] = Defaults]
  /\ previous' = [previous EXCEPT ![w] = Defaults]
  /\ perf' = [perf EXCEPT ![w] = [n |-> 0, total |-> 0]]
  /\ from' = [from EXCEPT ![w] = Defaults]
  /\ overtaken' = [overtaken EXCEPT ![w] = {}]

SeedDefaults(w) ==
  /\ pc[w] = "seed"
  /\ InsertPolicy(Defaults)
  /\ EndCycle(w)
  /\ UNCHANGED <<log, conversations, bounds>>

MeasureCurrent(w) ==
  /\ pc[w] = "mean"
  /\ LET p == current[w] IN
       /\ perf' = [perf EXCEPT ![w] = [n |-> n[p], total |-> total[p]]]
       /\ Advance(w, IF n[p] >= MIN_EPISODES_PER_POLICY THEN "predecessor" ELSE "insert")
  /\ UNCHANGED <<policies, log, conversations, current, previous, from, overtaken, bounds>>

LoadPrevious(w) ==
  /\ pc[w] = "predecessor"
  /\ \/ /\ PreviousAccepted(current[w]) = {}
        /\ Advance(w, "insert")
        /\ UNCHANGED previous
     \/ \E q \in PreviousAccepted(current[w]) :
          /\ Advance(w, "compare")
          /\ previous' = [previous EXCEPT ![w] = q]
  /\ UNCHANGED <<policies, log, conversations, current, perf, from, overtaken, bounds>>

\* not decide_accept: the mean read before is below q's mean as it is now.
Regressed(read, q) == read.total * n[q] < total[q] * read.n

\* Mutation: a predecessor is trusted however few episodes it has.
ComparePoorly(w) ==
  /\ pc[w] = "compare"
  /\ LET q == previous[w] IN
       Advance(w, IF n[q] > 0 /\ Regressed(perf[w], q) THEN "reject" ELSE "insert")
  /\ UNCHANGED <<policies, log, conversations, current, previous, perf, from, overtaken, bounds>>

Compare(w) ==
  /\ pc[w] = "compare"
  /\ LET q == previous[w] IN
       Advance(w, IF n[q] >= MIN_EPISODES_PER_POLICY /\ Regressed(perf[w], q)
         THEN "reject" ELSE "insert")
  /\ UNCHANGED <<policies, log, conversations, current, previous, perf, from, overtaken, bounds>>

\* mark_policy_rejected: no test of the status it has by now.  History: the others
\* that are past their loading of the serving policy are overtaken.
MarkRejected(w) ==
  /\ status' = [status EXCEPT ![current[w]] = "rejected"]
  /\ overtaken' = [v \in Workers |->
       IF v # w /\ pc[v] \notin {"count", "serving", "seed"}
       THEN overtaken[v] \cup {current[w]} ELSE overtaken[v]]

\* Mutation: the candidate still explores from the rejected policy.
RejectOnly(w) ==
  /\ pc[w] = "reject"
  /\ Advance(w, "insert")
  /\ MarkRejected(w)
  /\ UNCHANGED <<created, base, log, conversations, current, previous, perf, from, bounds>>

\* The candidate explores from the predecessor.
Reject(w) ==
  /\ pc[w] = "reject"
  /\ Advance(w, "insert")
  /\ MarkRejected(w)
  /\ from' = [from EXCEPT ![w] = previous[w]]
  /\ UNCHANGED <<created, base, log, conversations, current, previous, perf, bounds>>

InsertCandidate(w) ==
  /\ pc[w] = "insert"
  /\ InsertPolicy(from[w])
  /\ EndCycle(w)
  /\ UNCHANGED <<log, conversations, bounds>>

\* A query fails or the process dies; the next cycle begins anew.
AbandonCycle(w) ==
  /\ pc[w] # "count"
  /\ faults < MaxFaults
  /\ faults' = faults + 1
  /\ EndCycle(w)
  /\ UNCHANGED <<policies, log, conversations, feedback>>

-----------------------------------------------------------------------------

Turn(t) == BeginTurn(t) \/ LogEpisode(t) \/ DropEpisode(t)

UpdatePolicy(w) ==
  \/ CountEpisodes(w) \/ LoadServing(w) \/ SeedDefaults(w)
  \/ MeasureCurrent(w) \/ LoadPrevious(w) \/ Compare(w)
  \/ Reject(w) \/ InsertCandidate(w) \/ AbandonCycle(w)

Next ==
  \/ \E t \in Turns : Turn(t)
  \/ \E p \in Ids : AggregateFeedback(p)
  \/ \E w \in Workers : UpdatePolicy(w)

Spec == Init /\ [][Next]_vars

-----------------------------------------------------------------------------
(***************************************************************************)
(* Properties.                                                             *)
(***************************************************************************)

\* Every variable keeps its type; ids are given out in order and a policy has
\* no more reward than episodes.
TypeOK ==
  /\ created \in 0..MaxPolicies
  /\ status \in [Ids -> {"none", "accepted", "rejected"}]
  /\ base \in [Ids -> Ids \cup {Defaults}]
  /\ episodes \in Nat
  /\ n \in [Ids -> Nat]
  /\ total \in [Ids -> Nat]
  /\ turn \in [Turns -> Ids \cup {Defaults, NoTurn}]
  /\ pc \in [Workers -> Queries]
  /\ current \in [Workers -> Ids \cup {Defaults}]
  /\ previous \in [Workers -> Ids \cup {Defaults}]
  /\ perf \in [Workers -> [n : Nat, total : Nat]]
  /\ from \in [Workers -> Ids \cup {Defaults}]
  /\ answered \in [Ids -> Nat]
  /\ overtaken \in [Workers -> SUBSET Ids]
  /\ feedback \in Nat /\ faults \in Nat
  /\ \A p \in Ids : (status[p] = "none" <=> p > created) /\ total[p] <= n[p]

\* Each policy has exactly the episodes of the turns answered under it, although
\* they are logged after other policies have begun to serve or it was rejected:
\* no policy is judged by another's turns (proxy.rs, insert_episode).
EpisodesAreItsOwn ==
  \A p \in Ids : n[p] + Cardinality(InFlight(p)) = answered[p]

\* A rejection leaves another policy to serve, whatever feedback and failures do to
\* the means, unless the rejected policy's predecessor was itself rejected by another
\* worker during this cycle (update_policy_for_agent takes no lock).  One worker
\* alone never leaves the agent without a policy.
LastPolicyLostOnlyToARace ==
  [][Accepted # {} /\ Accepted' = {} =>
       \E w \in Workers : pc[w] = "reject" /\ previous[w] \in overtaken[w]]_vars

\* A policy is rejected only in favour of another one that was accepted when the
\* worker looked for a predecessor, with no accepted policy in between, and both
\* have enough episodes to be compared, although the rewards may have moved since
\* they were read (get_previous_accepted_policy, MIN_EPISODES_PER_POLICY).
RejectedForItsPredecessor ==
  [][\A p \in Accepted : status'[p] = "rejected" =>
       \E w \in Workers : \E q \in (Accepted \cup overtaken[w]) \ {p} :
         /\ pc[w] = "reject" /\ current[w] = p
         /\ \A r \in Accepted : r <= q \/ r >= p
         /\ n[p] >= MIN_EPISODES_PER_POLICY
         /\ n[q] >= MIN_EPISODES_PER_POLICY]_vars

\* A candidate explores from a policy that is accepted when it is inserted, or that
\* another worker rejected during this very cycle: never from one the worker itself
\* or an earlier cycle rejected (rmk_worker.rs on the hill climb, migrations/0026).
CompoundsNoKnownRegression ==
  [][created' # created =>
       \E w \in Workers :
         /\ pc[w] \in {"seed", "insert"} /\ pc'[w] = "count"
         /\ base'[created'] \in Accepted \cup overtaken[w] \cup {Defaults}]_vars

\* What rmk_worker.rs says of the hill climb.  With two workers the code does not
\* keep it: the second may hold a policy the first has rejected meanwhile.
ExploresFromAccepted ==
  [][created' # created => base'[created'] \in Accepted \cup {Defaults}]_vars
=============================================================================
